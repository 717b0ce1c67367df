----------------------- MODULE IngestRunnerRunProofs -----------------------
(***************************************************************************)
(* What one run of IngestRunner promises its operator, proved for every    *)
(* set of targets and document versions, every batch size and any number   *)
(* of runs: the returned summary adds up, a completed document is not      *)
(* loaded again, and the graph holds the versions the run completed.       *)
(***************************************************************************)
EXTENDS IngestRunnerProofs, FiniteSetTheorems

-----------------------------------------------------------------------------
(* The summary: every discovered target has exactly one place.             *)

AllAccounted == \A p \in Procs : Accounted(p)

\* A set is finite if it is finite without one of its elements.
LEMMA FinitePutBack ==
  ASSUME NEW S, NEW x \in S, IsFiniteSet(S \ {x})
  PROVE  /\ IsFiniteSet(S)
         /\ Cardinality(S) = Cardinality(S \ {x}) + 1
         /\ Cardinality(S \ {x}) \in Nat
  <1> DEFINE R == S \ {x}
  <1>1. /\ IsFiniteSet(R \cup {x})
        /\ Cardinality(R \cup {x}) = IF x \in R THEN Cardinality(R) ELSE Cardinality(R) + 1
    BY FS_AddElement
  <1>2. R \cup {x} = S /\ x \notin R
    OBVIOUS
  <1>3. Cardinality(R) \in Nat
    BY FS_CardinalityType
  <1> QED
    BY <1>1, <1>2, <1>3

\* Where the targets of one process are is not disturbed by the others, nor
\* by its own steps that only move its control.
LEMMA AccountedStable ==
  ASSUME NEW q \in Procs, Accounted(q),
         InHand(q)' = InHand(q), pc'[q] = "idle" => pc[q] = "idle",
         doc'[q].target = doc[q].target, todo'[q] = todo[q],
         done'[q] = done[q], tally'[q] = tally[q]
  PROVE  Accounted(q)'
  BY DEF Accounted

\* A process without a run has nothing to account for.
LEMMA AccountedEmpty ==
  ASSUME NEW p \in Procs, pc[p] = "idle", todo[p] = {}, done[p] = {},
         tally[p] = NoTally
  PROVE  Accounted(p)
  BY FS_EmptySet DEF Accounted, InHand, NoTally

LEMMA InitAccounted == Init => AllAccounted
  BY AccountedEmpty DEF Init, AllAccounted

LEMMA LeaveAccounted ==
  ASSUME Parts, AllAccounted, NEW p \in Procs, Leave(p)
  PROVE  AllAccounted'
  <1> SUFFICES ASSUME NEW q \in Procs PROVE Accounted(q)'
    BY DEF AllAccounted
  <1>1. CASE q = p
    <2>1. /\ pc'[p] = "idle" /\ todo'[p] = {} /\ done'[p] = {}
          /\ tally'[p] = NoTally
      BY DEF Leave, Parts, Types
    <2> QED
      BY <1>1, <2>1, FS_EmptySet DEF Accounted, InHand, NoTally
  <1>2. CASE q # p
    BY <1>2, AccountedStable DEF Leave, Parts, Types, AllAccounted, InHand
  <1> QED
    BY <1>1, <1>2

LEMMA StartRunAccounted ==
  ASSUME Parts, AllAccounted, NEW p \in Procs, StartRun(p)
  PROVE  AllAccounted'
  <1> SUFFICES ASSUME NEW q \in Procs PROVE Accounted(q)'
    BY DEF AllAccounted
  <1>1. PICK found \in SUBSET Targets :
          /\ todo' = [todo EXCEPT ![p] = found]
          /\ tally' = [tally EXCEPT ![p].discovered = found]
    BY DEF StartRun
  <1>2. CASE q = p
    <2>1. /\ pc'[p] = "next" /\ todo'[p] = found /\ done'[p] = {}
          /\ tally'[p].discovered = found /\ tally'[p].failed = 0
      BY <1>1 DEF StartRun, Parts, Types, AllAccounted, Accounted
    <2>2. IsFiniteSet(found) => Cardinality(found) \in Nat
      BY FS_CardinalityType
    <2> QED
      BY <1>2, <2>1, <2>2, FS_EmptySet DEF Accounted, InHand
  <1>3. CASE q # p
    BY <1>1, <1>3, AccountedStable DEF StartRun, Parts, Types, AllAccounted, InHand
  <1> QED
    BY <1>2, <1>3

\* The target moves from the ones to be taken into the hand.
LEMMA TakeTargetAccounted ==
  ASSUME Parts, AllAccounted, NEW p \in Procs, TakeTarget(p)
  PROVE  AllAccounted'
  <1> SUFFICES ASSUME NEW q \in Procs PROVE Accounted(q)'
    BY DEF AllAccounted
  <1>1. PICK t \in todo[p] :
          /\ todo' = [todo EXCEPT ![p] = @ \ {t}]
          /\ doc' = [doc EXCEPT ![p] = [NoDoc EXCEPT !.target = t]]
    BY DEF TakeTarget
  <1>2. CASE q = p
    <2>1. /\ pc[p] = "next" /\ pc'[p] = "discover" /\ todo'[p] = todo[p] \ {t}
          /\ doc'[p].target = t
          /\ done'[p] = done[p] /\ tally'[p] = tally[p]
      BY <1>1 DEF TakeTarget, history, Parts, Types, NoDoc
    <2>2. Accounted(p) /\ tally[p].failed \in Nat
      BY DEF AllAccounted, Parts, Types
    <2>3. ~InHand(p) /\ InHand(p)'
      BY <2>1 DEF InHand
    <2>4. ASSUME IsFiniteSet(todo'[p])
          PROVE  /\ IsFiniteSet(tally'[p].discovered)
                 /\ Cardinality(tally'[p].discovered) =
                      Cardinality(todo'[p]) + 1
                        + Cardinality(done'[p]) + tally'[p].failed
      <3>1. /\ IsFiniteSet(todo[p])
            /\ Cardinality(todo[p]) = Cardinality(todo'[p]) + 1
            /\ Cardinality(todo'[p]) \in Nat
        BY <2>1, <2>4, FinitePutBack
      <3>2. Cardinality(done[p]) \in Nat
        BY <2>2, FS_CardinalityType DEF Accounted
      <3> QED
        BY <2>1, <2>2, <2>3, <3>1, <3>2 DEF Accounted
    <2> QED
      BY <1>1, <1>2, <2>1, <2>2, <2>3, <2>4 DEF Accounted
  <1>3. CASE q # p
    BY <1>1, <1>3, AccountedStable
       DEF TakeTarget, history, Parts, Types, AllAccounted, InHand
  <1> QED
    BY <1>2, <1>3

\* The target moves from the hand to the completed ones.
LEMMA CompleteTargetAccounted ==
  ASSUME Parts, AllAccounted, NEW p \in Procs, CompleteTarget(p)
  PROVE  AllAccounted'
  <1> SUFFICES ASSUME NEW q \in Procs PROVE Accounted(q)'
    BY DEF AllAccounted
  <1>1. CASE q = p
    <2> DEFINE x == <<doc[p].target, doc[p].content>>
    <2>1. /\ pc[p] = "load" /\ pc'[p] = "next" /\ todo'[p] = todo[p]
          /\ done'[p] = done[p] \cup {x} /\ tally'[p] = tally[p]
      BY DEF CompleteTarget, Parts, Types
    <2>2. Accounted(p) /\ tally[p].failed \in Nat
      BY DEF AllAccounted, Parts, Types
    <2>3. InHand(p) /\ ~InHand(p)'
      BY <2>1 DEF InHand
    <2>4. x \notin done[p] /\ IsFiniteSet(done[p])
      BY <2>2, <2>3 DEF Accounted
    <2>5. /\ IsFiniteSet(done'[p])
          /\ Cardinality(done'[p]) = Cardinality(done[p]) + 1
          /\ Cardinality(done[p]) \in Nat
      BY <2>1, <2>4, FS_AddElement, FS_CardinalityType
    <2>6. IsFiniteSet(todo[p]) => Cardinality(todo[p]) \in Nat
      BY FS_CardinalityType
    <2>7. \A d \in done'[p] : d[1] \in tally'[p].discovered \ todo'[p]
      BY <2>1, <2>2, <2>3 DEF Accounted
    <2> HIDE DEF x
    <2> QED
      BY <1>1, <2>1, <2>2, <2>3, <2>5, <2>6, <2>7 DEF Accounted
  <1>2. CASE q # p
    BY <1>2, AccountedStable DEF CompleteTarget, Parts, Types, AllAccounted, InHand
  <1> QED
    BY <1>1, <1>2

\* The target moves from the hand to the failed ones.
LEMMA FailTargetAccounted ==
  ASSUME Parts, AllAccounted, NEW p \in Procs, FailTarget(p)
  PROVE  AllAccounted'
  <1> SUFFICES ASSUME NEW q \in Procs PROVE Accounted(q)'
    BY DEF AllAccounted
  <1>1. CASE q = p
    <2>1. /\ InHand(p) /\ pc'[p] = "next" /\ todo'[p] = todo[p]
          /\ done'[p] = done[p]
      BY DEF FailTarget, Failing, InHand, history, Parts, Types
    <2>2. /\ tally'[p].discovered = tally[p].discovered
          /\ tally'[p].failed = tally[p].failed + 1
          /\ tally[p].failed \in Nat
      BY DEF FailTarget, Parts, Types
    <2>3. Accounted(p) /\ ~InHand(p)'
      BY <2>1 DEF AllAccounted, InHand
    <2>4. Cardinality(done[p]) \in Nat
      BY <2>3, FS_CardinalityType DEF Accounted
    <2>5. IsFiniteSet(todo[p]) => Cardinality(todo[p]) \in Nat
      BY FS_CardinalityType
    <2> QED
      BY <1>1, <2>1, <2>2, <2>3, <2>4, <2>5 DEF Accounted
  <1>2. CASE q # p
    BY <1>2, AccountedStable
       DEF FailTarget, history, Parts, Types, AllAccounted, InHand
  <1> QED
    BY <1>1, <1>2

\* The steps that move no target from one place to another.
LEMMA QuietAccounted ==
  ASSUME Parts, AllAccounted, NEW p \in Procs,
         \/ RecordDiscovered(p) \/ Fetch(p) \/ Normalize(p) \/ SkipShard(p)
         \/ NeedShard(p) \/ SinkLoad(p) \/ MarkLoaded(p)
  PROVE  AllAccounted'
  <1> SUFFICES ASSUME NEW q \in Procs PROVE Accounted(q)'
    BY DEF AllAccounted
  <1>1. todo'[q] = todo[q] /\ done'[q] = done[q] /\ tally'[q] = tally[q]
    BY DEF RecordDiscovered, Fetch, Normalize, SkipShard, NeedShard,
           SinkLoad, MarkLoaded, durable, history
  <1>2. InHand(q)' = InHand(q) /\ (pc'[q] = "idle" => pc[q] = "idle")
    BY DEF RecordDiscovered, Fetch, Normalize, SkipShard, NeedShard,
           SinkLoad, MarkLoaded, InHand, Parts, Types
  <1>3. doc'[q].target = doc[q].target
    <2>1. CASE SkipShard(p)
      BY <2>1, CursorOf, AdvanceCursor DEF SkipShard, Parts, Types
    <2>2. CASE MarkLoaded(p)
      BY <2>2, CursorOf, AdvanceCursor
         DEF MarkLoaded, Parts, Types, AllProgress, Progress
    <2>3. CASE Fetch(p)
      BY <2>3 DEF Fetch, Parts, Types, DocOK
    <2>4. CASE RecordDiscovered(p) \/ Normalize(p) \/ NeedShard(p) \/ SinkLoad(p)
      BY <2>4 DEF RecordDiscovered, Normalize, NeedShard, SinkLoad
    <2> QED
      BY <2>1, <2>2, <2>3, <2>4
  <1> QED
    BY <1>1, <1>2, <1>3, AccountedStable DEF AllAccounted

LEMMA NextAccounted == Parts /\ AllAccounted /\ [Next]_vars => AllAccounted'
  <1> SUFFICES ASSUME Parts, AllAccounted, [Next]_vars PROVE AllAccounted'
    OBVIOUS
  <1>1. CASE (\E t \in Targets : Amend(t)) \/ UNCHANGED vars
    BY <1>1, AccountedStable DEF Amend, vars, history, AllAccounted, InHand
  <1>2. ASSUME NEW p \in Procs, StartRun(p) PROVE AllAccounted'
    BY <1>2, StartRunAccounted
  <1>3. ASSUME NEW p \in Procs, Step(p) PROVE AllAccounted'
    BY <1>3, TakeTargetAccounted, CompleteTargetAccounted, QuietAccounted,
       LeaveAccounted DEF Step, FinishRun
  <1>4. ASSUME NEW p \in Procs, FailTarget(p) PROVE AllAccounted'
    BY <1>4, FailTargetAccounted
  <1>5. ASSUME NEW p \in Procs, FailRun(p) \/ Crash(p) PROVE AllAccounted'
    BY <1>5, LeaveAccounted DEF FailRun, Crash
  <1> QED
    BY <1>1, <1>2, <1>3, <1>4, <1>5 DEF Next

\* The summary a run returns is honest: discovered targets are completed or
\* counted as failed, and what is completed was delivered (_process_target and
\* run, with any number of concurrent processes, failures and crashes).
THEOREM HonestSummary == Spec => []SummaryHonest
  <1>1. Parts /\ AllAccounted => SummaryHonest
    <2> SUFFICES ASSUME Parts, AllAccounted, NEW p \in Procs,
                        pc[p] = "next", todo[p] = {}
                 PROVE  /\ Cardinality(tally[p].discovered) =
                             Cardinality(done[p]) + tally[p].failed
                        /\ \A d \in done[p] : d[1] \in tally[p].discovered
                                              /\ RowsOf(d[2]) \subseteq delivered
      BY DEF SummaryHonest
    <2>1. Accounted(p) /\ ~InHand(p) /\ tally[p].failed \in Nat
      BY DEF AllAccounted, InHand, Parts, Types
    <2>2. Cardinality(done[p]) \in Nat
      BY <2>1, FS_CardinalityType DEF Accounted
    <2>3. IsFiniteSet(todo[p]) /\ Cardinality(todo[p]) = 0
      BY FS_EmptySet
    <2>4. Cardinality(tally[p].discovered) = Cardinality(done[p]) + tally[p].failed
      BY <2>1, <2>2, <2>3 DEF Accounted
    <2>5. \A d \in done[p] : d[1] \in tally[p].discovered
      BY <2>1 DEF Accounted
    <2> QED
      BY <2>4, <2>5 DEF Parts, DoneBacked
  <1>2. Parts /\ AllAccounted /\ [Next]_vars => (Parts /\ AllAccounted)'
    BY NextInvariant, NextAccounted
  <1>3. Init => Parts /\ AllAccounted
    BY InitInvariant, InitAccounted
  <1> QED
    BY <1>1, <1>2, <1>3, PTL DEF Spec
-----------------------------------------------------------------------------
(* Resume: what has its LOADED entry is not sent again.                    *)

\* The parts of ChunksMarked: completed documents, and one cursor.
SealedMarked ==
    \A x \in sealed : \A g \in Groups(x[1]) :
       \A s \in Starts(x[1], g, x[2]) : Marked(x[1], g, x[2], s)
CursorMarked(p) ==
    pc[p] \in {"load", "sink", "mark"} =>
      /\ MoreChunks(p) =>
           doc[p].offset \in Starts(doc[p].content, doc[p].group, batch[p])
      /\ \A g \in Groups(doc[p].content) :
           \A s \in Starts(doc[p].content, g, batch[p]) :
             \/ g < doc[p].group
             \/ g = doc[p].group /\ s < doc[p].offset
             => Marked(doc[p].content, g, batch[p], s)

LEMMA ChunksMarkedParts ==
  ChunksMarked <=> SealedMarked /\ \A p \in Procs : CursorMarked(p)
  BY DEF ChunksMarked, SealedMarked, CursorMarked

\* Entries are never removed, so what is loaded stays loaded.
LEMMA MarkedKept ==
  ASSUME manifest \subseteq manifest', NEW c, NEW g, NEW b, NEW s,
         Marked(c, g, b, s)
  PROVE  Marked(c, g, b, s)'
  BY DEF Marked, IsLoaded

LEMMA SealedMarkedStable ==
  ASSUME SealedMarked, manifest \subseteq manifest', sealed' = sealed
  PROVE  SealedMarked'
  BY MarkedKept DEF SealedMarked

LEMMA CursorMarkedStable ==
  ASSUME NEW q \in Procs, CursorMarked(q), manifest \subseteq manifest',
         pc[q] \in {"load", "sink", "mark"} \/ pc'[q] \notin {"load", "sink", "mark"},
         doc'[q] = doc[q], batch'[q] = batch[q]
  PROVE  CursorMarked(q)'
  BY MarkedKept DEF CursorMarked, MoreChunks

\* A group's first chunk starts at row 0.
LEMMA FirstStart ==
  ASSUME NEW c \in Contents, NEW g \in Groups(c), NEW b \in Nat \ {0}
  PROVE  0 \in Starts(c, g, b)
  <1>1. GroupSizes[c][g] \in Nat \ {0}
    BY GroupSize
  <1>2. 0 \in 0 .. 0 /\ 0 = 0 * b
    OBVIOUS
  <1> QED
    BY <1>1, <1>2 DEF Starts

\* Multiples of b: the next one comes b later, and none lies in between.
LEMMA NextMultiple ==
  ASSUME NEW b \in Nat \ {0}, NEW k \in Nat, NEW j \in Nat
  PROVE  /\ k * b + b = (k + 1) * b
         /\ j * b < k * b + b => j * b <= k * b
  <1>1. k * b \in Nat /\ j * b \in Nat /\ k * b + b = (k + 1) * b
    BY SMT
  <1>2. ASSUME j > k PROVE j * b >= k * b + b
    <2>1. PICK i \in Nat : j = k + 1 + i
      <3>1. j - k - 1 \in Nat /\ j = k + 1 + (j - k - 1)
        BY <1>2
      <3> QED
        BY <3>1
    <2>2. j * b = k * b + b + i * b
      BY <2>1, SMT
    <2>3. i * b \in Nat
      BY SMT
    <2> QED
      BY <1>1, <2>2, <2>3
  <1>3. ASSUME j <= k PROVE j * b <= k * b
    <2>1. PICK i \in Nat : k = j + i
      <3>1. k - j \in Nat /\ k = j + (k - j)
        BY <1>3
      <3> QED
        BY <3>1
    <2>2. k * b = j * b + i * b
      BY <2>1, SMT
    <2>3. i * b \in Nat
      BY SMT
    <2> QED
      BY <1>1, <2>2, <2>3
  <1> QED
    BY <1>1, <1>2, <1>3

\* The chunk after one that starts at o starts at o + b, and no chunk starts
\* in between.
LEMMA NextStart ==
  ASSUME NEW c \in Contents, NEW g \in Groups(c), NEW b \in Nat \ {0},
         NEW o \in Starts(c, g, b)
  PROVE  /\ o + b < GroupSizes[c][g] => o + b \in Starts(c, g, b)
         /\ \A s \in Starts(c, g, b) : s < o + b => s < o \/ s = o
  <1>1. GroupSizes[c][g] \in Nat \ {0}
    BY GroupSize
  <1>2. o \in 0 .. GroupSizes[c][g] - 1
    BY DEF Starts
  <1>3. PICK k \in 0 .. o : o = k * b
    BY DEF Starts
  <1>4. ASSUME o + b < GroupSizes[c][g] PROVE o + b \in Starts(c, g, b)
    <2>1. k + 1 \in 0 .. o + b
      BY <1>1, <1>2
    <2>2. o + b = (k + 1) * b
      BY <1>1, <1>2, <1>3, NextMultiple
    <2>3. o + b \in 0 .. GroupSizes[c][g] - 1
      BY <1>1, <1>2, <1>4
    <2> HIDE DEF Starts
    <2>4. \E m \in 0 .. o + b : o + b = m * b
      BY <2>1, <2>2
    <2> QED
      BY <2>3, <2>4 DEF Starts
  <1>5. ASSUME NEW s \in Starts(c, g, b), s < o + b PROVE s < o \/ s = o
    <2>1. s \in 0 .. GroupSizes[c][g] - 1 /\ \E m \in 0 .. s : s = m * b
      BY DEF Starts
    <2>2. PICK m \in 0 .. s : s = m * b
      BY <2>1
    <2>3. m \in Nat /\ k \in Nat
      BY <1>1, <1>2, <2>1
    <2>4. m * b < k * b + b => m * b <= k * b
      BY <2>3, NextMultiple
    <2>5. s <= o
      BY <1>3, <1>5, <2>2, <2>4
    <2> QED
      BY <1>1, <1>2, <2>1, <2>5
  <1> QED
    BY <1>4, <1>5

\* The identity of the chunk at a cursor, as ChunksMarked names it.
LEMMA ShardMarked ==
  ASSUME NEW p \in Procs
  PROVE  IsLoaded(Shard(p)) <=>
           Marked(doc[p].content, doc[p].group, batch[p], doc[p].offset)
  BY DEF Marked, Shard, ChunkEnd, Size

\* Where the cursor goes, field by field.
LEMMA AdvancedFields ==
  ASSUME NEW p \in Procs, CursorIn(p)
  PROVE  /\ Advanced(p).content = doc[p].content
         /\ doc[p].offset + batch[p] < Size(p) =>
              /\ Advanced(p).group = doc[p].group
              /\ Advanced(p).offset = doc[p].offset + batch[p]
         /\ ~(doc[p].offset + batch[p] < Size(p)) =>
              /\ Advanced(p).group = doc[p].group + 1
              /\ Advanced(p).offset = 0
  <1>1. PICK d : d = doc[p]
    OBVIOUS
  <1>2. d \in [target : Targets \cup {0}, content : Contents \cup {None},
               group : Nat \ {0}, offset : Nat]
    BY <1>1 DEF CursorIn, DocOK
  <1>3. Size(p) \in Nat /\ batch[p] \in Nat /\ doc[p].offset \in Nat
    BY ChunkBounds DEF CursorIn
  <1>4. CASE doc[p].offset + batch[p] < Size(p)
    <2>1. Advanced(p) = [d EXCEPT !.offset = doc[p].offset + batch[p]]
      BY <1>1, <1>3, <1>4 DEF Advanced, ChunkEnd
    <2> QED
      BY <1>1, <1>2, <1>4, <2>1
  <1>5. CASE ~(doc[p].offset + batch[p] < Size(p))
    <2>1. ~(ChunkEnd(p) < Size(p))
      BY <1>3, <1>5 DEF ChunkEnd
    <2>2. Advanced(p) = [d EXCEPT !.group = @ + 1, !.offset = 0]
      BY <1>1, <2>1, Zenon DEF Advanced
    <2> QED
      BY <1>1, <1>2, <1>5, <2>2
  <1> QED
    BY <1>4, <1>5

\* Moving the cursor past a chunk that has its entry: the starts before the
\* new position are those before the old one, and the old one itself.
LEMMA AdvanceMarked ==
  ASSUME Parts, NEW p \in Procs, CursorIn(p), CursorMarked(p),
         pc[p] \in {"load", "sink", "mark"}, manifest \subseteq manifest',
         NEW c, c = doc[p].content, NEW g, g = doc[p].group,
         NEW b, b = batch[p],       NEW o, o = doc[p].offset,
         Marked(c, g, b, o)',
         doc'[p] = Advanced(p), batch'[p] = batch[p]
  PROVE  CursorMarked(p)'
  <1>1. /\ c \in Contents /\ g \in Groups(c) /\ b \in Nat \ {0} /\ o \in Nat
        /\ GroupSizes[c][g] \in Nat \ {0} /\ Size(p) = GroupSizes[c][g]
        /\ g \in Nat \ {0}
    BY GroupSize, ChunkBounds DEF CursorIn, MoreChunks, Size
  <1>2. /\ o \in Starts(c, g, b)
        /\ \A h \in Groups(c) : \A s \in Starts(c, h, b) :
             h < g \/ (h = g /\ s < o) => Marked(c, h, b, s)
    BY DEF CursorMarked, CursorIn
  <1>3. doc'[p].content = c /\ batch'[p] = b
    BY AdvancedFields
  <1>4. \A h \in Groups(c) : \A s \in Starts(c, h, b) :
             h < g \/ (h = g /\ (s < o \/ s = o)) => Marked(c, h, b, s)'
    BY <1>2, MarkedKept
  <1>5. \A h \in Groups(c) : h \in Nat
    BY DEF Groups
  <1>6. CASE o + b < GroupSizes[c][g]
    <2>1. doc'[p].group = g /\ doc'[p].offset = o + b
      BY <1>1, <1>6, AdvancedFields
    <2>2. o + b \in Starts(c, g, b) /\ \A s \in Starts(c, g, b) : s < o + b => s < o \/ s = o
      BY <1>1, <1>2, <1>6, NextStart
    <2>3. \A h \in Groups(c) : \A s \in Starts(c, h, b) :
             h < g \/ (h = g /\ s < o + b) => Marked(c, h, b, s)'
      BY <1>4, <2>2
    <2> QED
      BY <1>3, <2>1, <2>2, <2>3 DEF CursorMarked
  <1>7. CASE ~(o + b < GroupSizes[c][g])
    <2>1. doc'[p].group = g + 1 /\ doc'[p].offset = 0
      BY <1>1, <1>7, AdvancedFields
    <2>2. \A s \in Starts(c, g, b) : s < o \/ s = o
      <3>1. \A s \in Starts(c, g, b) : s \in 0 .. GroupSizes[c][g] - 1
        BY DEF Starts
      <3>2. \A s \in Starts(c, g, b) : s < o + b
        BY <1>1, <1>7, <3>1
      <3> QED
        BY <1>1, <1>2, <3>2, NextStart
    <2>3. g + 1 \in Groups(c) => 0 \in Starts(c, g + 1, b)
      BY <1>1, FirstStart
    <2>4. \A h \in Groups(c) : \A s \in Starts(c, h, b) : ~(s < 0)
      <3>1. \A h \in Groups(c) : GroupSizes[c][h] \in Nat
        BY <1>1, GroupSize
      <3> QED
        BY <3>1 DEF Starts
    <2>5. \A h \in Groups(c) : \A s \in Starts(c, h, b) :
             h < g + 1 \/ (h = g + 1 /\ s < 0) => Marked(c, h, b, s)'
      <3> SUFFICES ASSUME NEW h \in Groups(c), NEW s \in Starts(c, h, b),
                          h < g + 1 \/ (h = g + 1 /\ s < 0)
                   PROVE  Marked(c, h, b, s)'
        OBVIOUS
      <3>1. h < g \/ h = g
        <4>1. ~(s < 0) /\ h \in Nat
          BY <1>5, <2>4, Zenon
        <4> QED
          BY <1>1, <4>1
      <3> QED
        BY <1>4, <2>2, <3>1
    <2>6. MoreChunks(p)' => doc'[p].offset \in Starts(c, g + 1, b)
      BY <1>3, <2>1, <2>3 DEF MoreChunks
    <2> QED
      BY <1>3, <2>1, <2>5, <2>6 DEF CursorMarked
  <1> QED
    BY <1>6, <1>7

AllMarked == SealedMarked /\ \A p \in Procs : CursorMarked(p)

LEMMA InitMarked == Init => AllMarked
  BY DEF Init, AllMarked, SealedMarked, CursorMarked

\* The steps that leave the load loop alone, or leave it.
LEMMA QuietMarked ==
  ASSUME AllMarked, NEW p \in Procs, manifest \subseteq manifest',
         sealed' = sealed,
         \A q \in Procs \ {p} : /\ pc'[q] = pc[q] /\ doc'[q] = doc[q]
                                /\ batch'[q] = batch[q],
         CursorMarked(p)'
  PROVE  AllMarked'
  <1>1. ASSUME NEW q \in Procs \ {p} PROVE CursorMarked(q)'
    BY CursorMarkedStable DEF AllMarked
  <1> QED
    BY <1>1, SealedMarkedStable DEF AllMarked

\* A normalized document starts at its first row, with nothing before it.
LEMMA NormalizeMarked ==
  ASSUME Parts, AllMarked, NEW p \in Procs, Normalize(p)
  PROVE  AllMarked'
  <1> DEFINE c == doc[p].content
  <1>1. /\ c \in Contents /\ doc[p].group = 1 /\ doc[p].offset = 0
        /\ batch[p] \in Nat \ {0}
    BY DEF Normalize, Parts, Types, AllProgress, Progress
  <1>2. doc' = doc /\ batch' = batch /\ manifest \subseteq manifest'
    BY DEF Normalize, AppendEntry
  <1>3. MoreChunks(p)' => 0 \in Starts(c, 1, batch[p])
    BY <1>1, <1>2, FirstStart DEF MoreChunks
  <1>4. ASSUME NEW g \in Groups(c), NEW s \in Starts(c, g, batch[p])
        PROVE  ~(g < 1) /\ ~(s < 0)
    <2>1. GroupSizes[c][g] \in Nat /\ g \in Nat \ {0}
      BY <1>1, GroupSize
    <2> QED
      BY <2>1 DEF Starts
  <1>5. CursorMarked(p)'
    BY <1>1, <1>2, <1>3, <1>4 DEF CursorMarked
  <1> QED
    BY <1>2, <1>5, QuietMarked DEF Normalize, history, Parts, Types

\* A shard is skipped because its entry is there, and after a transaction its
\* entry is written before the cursor moves.
LEMMA LoopMarked ==
  ASSUME Parts, AllMarked, NEW p \in Procs, SkipShard(p) \/ MarkLoaded(p)
  PROVE  AllMarked'
  <1>1. CursorIn(p) /\ pc[p] \in {"load", "sink", "mark"}
    BY CursorOf DEF SkipShard, MarkLoaded, Parts, AllProgress, Progress
  <1>2. /\ doc'[p] = Advanced(p) /\ batch' = batch /\ sealed' = sealed
        /\ \A q \in Procs \ {p} : pc'[q] = pc[q] /\ doc'[q] = doc[q]
    BY DEF SkipShard, MarkLoaded, history, Parts, Types
  <1>3. manifest \subseteq manifest'
    BY DEF SkipShard, MarkLoaded, AppendEntry, durable
  <1>4. PICK c, g, b, o : /\ c = doc[p].content /\ g = doc[p].group
                          /\ b = batch[p] /\ o = doc[p].offset
    OBVIOUS
  <1>5. Marked(c, g, b, o)'
    <2>1. CASE SkipShard(p)
      BY <1>3, <1>4, <2>1, ShardMarked, MarkedKept DEF SkipShard
    <2>2. CASE MarkLoaded(p)
      <3>1. Shard(p) = ShardId(c, g, o, IF o + b < GroupSizes[c][g]
                                          THEN o + b ELSE GroupSizes[c][g])
        BY <1>4 DEF Shard, ChunkEnd, Size
      <3>2. Entry("loaded", "loaded", Shard(p), c) \in manifest'
        BY <1>4, <2>2 DEF MarkLoaded, AppendEntry
      <3> QED
        BY <3>1, <3>2 DEF Marked, IsLoaded, Entry
    <2> QED
      BY <2>1, <2>2
  <1>6. CursorMarked(p)'
    BY <1>1, <1>2, <1>3, <1>4, <1>5, AdvanceMarked DEF AllMarked
  <1> QED
    BY <1>2, <1>3, <1>6, QuietMarked

\* A document is completed when its cursor is behind every start.
LEMMA CompleteTargetMarked ==
  ASSUME Parts, AllMarked, NEW p \in Procs, CompleteTarget(p)
  PROVE  AllMarked'
  <1>1. PICK c, b : c = doc[p].content /\ b = batch[p]
    OBVIOUS
  <1>2. manifest \subseteq manifest'
    BY DEF CompleteTarget, AppendEntry
  <1>3. sealed' = sealed \cup {<<c, b>>}
    BY <1>1 DEF CompleteTarget
  <1>4. \A g \in Groups(c) : \A s \in Starts(c, g, b) : Marked(c, g, b, s)
    <2>1. /\ c \in Contents /\ doc[p].group \in 1 .. Len(GroupSizes[c]) + 1
          /\ doc[p].group \notin Groups(c) /\ Len(GroupSizes[c]) \in Nat
      BY <1>1, SizesAssumption
         DEF CompleteTarget, Parts, AllProgress, Progress, MoreChunks
    <2>2. \A g \in Groups(c) : g < doc[p].group
      BY <2>1 DEF Groups
    <2> QED
      BY <1>1, <2>2 DEF CompleteTarget, AllMarked, CursorMarked
  <1>5. SealedMarked'
    <2> SUFFICES ASSUME NEW x \in sealed', NEW g \in Groups(x[1]),
                        NEW s \in Starts(x[1], g, x[2])
                 PROVE  Marked(x[1], g, x[2], s)'
      BY DEF SealedMarked
    <2>1. CASE x \in sealed
      BY <1>2, <2>1, MarkedKept DEF AllMarked, SealedMarked
    <2>2. CASE x = <<c, b>>
      BY <1>2, <1>4, <2>2, MarkedKept
    <2> QED
      BY <1>3, <2>1, <2>2
  <1>6. ASSUME NEW q \in Procs PROVE CursorMarked(q)'
    <2>1. CASE q = p
      BY <2>1 DEF CompleteTarget, CursorMarked, Parts, Types
    <2>2. CASE q # p
      BY <1>2, <2>2, CursorMarkedStable
         DEF CompleteTarget, Parts, Types, AllMarked
    <2> QED
      BY <2>1, <2>2
  <1> QED
    BY <1>5, <1>6 DEF AllMarked

LEMMA LeaveMarked ==
  ASSUME Parts, AllMarked, NEW p \in Procs, Leave(p), manifest \subseteq manifest'
  PROVE  AllMarked'
  <1>1. CursorMarked(p)'
    BY DEF Leave, CursorMarked, Parts, Types
  <1> QED
    BY <1>1, QuietMarked DEF Leave, Parts, Types

\* The manifest never loses an entry.
LEMMA ManifestGrows == [Next]_vars => manifest \subseteq manifest'
  BY DEF Next, Step, vars, Amend, StartRun, TakeTarget, RecordDiscovered,
         Fetch, Normalize, SkipShard, NeedShard, SinkLoad, MarkLoaded,
         CompleteTarget, FinishRun, FailTarget, FailRun, Failing, Crash,
         AppendEntry, durable, history

LEMMA NextMarked == Parts /\ AllMarked /\ [Next]_vars => AllMarked'
  <1> SUFFICES ASSUME Parts, AllMarked, [Next]_vars PROVE AllMarked'
    OBVIOUS
  <1>1. manifest \subseteq manifest'
    BY ManifestGrows
  <1>2. CASE (\E t \in Targets : Amend(t)) \/ UNCHANGED vars
    <2>1. sealed' = sealed /\ pc' = pc /\ doc' = doc /\ batch' = batch
      BY <1>2 DEF Amend, vars, history
    <2> QED
      BY <1>1, <2>1, SealedMarkedStable, CursorMarkedStable DEF AllMarked
  <1>3. ASSUME NEW p \in Procs,
               \/ StartRun(p) \/ TakeTarget(p) \/ RecordDiscovered(p)
               \/ Fetch(p) \/ FailTarget(p)
        PROVE  AllMarked'
    <2>1. /\ sealed' = sealed
          /\ pc'[p] \notin {"load", "sink", "mark"}
          /\ \A q \in Procs \ {p} : /\ pc'[q] = pc[q] /\ doc'[q] = doc[q]
                                    /\ batch'[q] = batch[q]
      BY <1>3 DEF StartRun, TakeTarget, RecordDiscovered, Fetch, FailTarget,
                  history, Parts, Types
    <2>2. CursorMarked(p)'
      BY <2>1 DEF CursorMarked
    <2> QED
      BY <1>1, <2>1, <2>2, QuietMarked
  <1>4. ASSUME NEW p \in Procs, NeedShard(p) \/ SinkLoad(p) PROVE AllMarked'
    <2>1. /\ sealed' = sealed /\ doc' = doc /\ batch' = batch
          /\ pc[p] \in {"load", "sink", "mark"}
          /\ \A q \in Procs \ {p} : pc'[q] = pc[q]
      BY <1>4 DEF NeedShard, SinkLoad, history, Parts, Types
    <2>2. CursorMarked(p)'
      BY <1>1, <2>1, CursorMarkedStable DEF AllMarked
    <2> QED
      BY <1>1, <2>1, <2>2, QuietMarked
  <1>5. ASSUME NEW p \in Procs, Normalize(p) PROVE AllMarked'
    BY <1>5, NormalizeMarked
  <1>6. ASSUME NEW p \in Procs, SkipShard(p) \/ MarkLoaded(p) PROVE AllMarked'
    BY <1>6, LoopMarked
  <1>7. ASSUME NEW p \in Procs, CompleteTarget(p) PROVE AllMarked'
    BY <1>7, CompleteTargetMarked
  <1>8. ASSUME NEW p \in Procs, FinishRun(p) \/ FailRun(p) \/ Crash(p)
        PROVE  AllMarked'
    BY <1>1, <1>8, LeaveMarked DEF FinishRun, FailRun, Crash
  <1> QED
    BY <1>2, <1>3, <1>4, <1>5, <1>6, <1>7, <1>8 DEF Next, Step

\* With one process, the answer of is_loaded is still true when it is acted
\* on: nobody else can have written the entry in between.
LEMMA NextUnmarked ==
  ASSUME \A p, q \in Procs : p = q, Parts, SinkUnmarked, [Next]_vars
  PROVE  SinkUnmarked'
  <1> SUFFICES ASSUME NEW p \in Procs, pc'[p] = "sink"
               PROVE  ~IsLoaded(Shard(p))'
    BY DEF SinkUnmarked
  <1>1. CASE NeedShard(p)
    <2>1. manifest' = manifest /\ Shard(p)' = Shard(p) /\ ~IsLoaded(Shard(p))
      BY <1>1 DEF NeedShard, durable, Shard, ChunkEnd, Size
    <2> QED
      BY <2>1 DEF IsLoaded
  <1>2. CASE (\E t \in Targets : Amend(t)) \/ UNCHANGED vars
    <2>1. /\ manifest' = manifest /\ Shard(p)' = Shard(p) /\ pc[p] = "sink"
      BY <1>2 DEF Amend, vars, Shard, ChunkEnd, Size
    <2> QED
      BY <2>1 DEF SinkUnmarked, IsLoaded
  <1>3. ASSUME NEW q \in Procs, StartRun(q) \/ Step(q) \/ FailTarget(q)
                                \/ FailRun(q) \/ Crash(q)
        PROVE  NeedShard(p)
    <2>1. q = p
      OBVIOUS
    <2> QED
      BY <1>3, <2>1
         DEF Step, StartRun, TakeTarget, RecordDiscovered, Fetch, Normalize,
             SkipShard, SinkLoad, MarkLoaded, CompleteTarget, FinishRun,
             FailTarget, FailRun, Crash, Leave, durable, Parts, Types
  <1> QED
    BY <1>1, <1>2, <1>3 DEF Next

\* A completed document keeps the LOADED entries of all its chunks, and no
\* cursor leaves a chunk without one (any number of processes).
THEOREM MarksComplete == Spec => []ChunksMarked
  <1>1. Parts /\ AllMarked => ChunksMarked
    BY ChunksMarkedParts DEF AllMarked
  <1>2. Parts /\ AllMarked /\ [Next]_vars => (Parts /\ AllMarked)'
    BY NextInvariant, NextMarked
  <1>3. Init => Parts /\ AllMarked
    BY InitInvariant, InitMarked
  <1> QED
    BY <1>1, <1>2, <1>3, PTL DEF Spec

\* With one process, no row of a normalized document that some run completed
\* with the same batch size is sent to the destination again, whatever
\* crashes, failures and other runs lie in between (_process_target, 274-287).
THEOREM NoReload ==
  ASSUME \A p, q \in Procs : p = q
  PROVE  Spec => SealedNotReloaded
  <1> DEFINE Inv == Parts /\ AllMarked /\ SinkUnmarked
             Resumes == \A p \in Procs : pc[p] = "sink" /\ pc'[p] = "mark" =>
                          <<doc[p].content, batch[p]>> \notin sealed
  <1>1. Init => Inv
    BY InitInvariant, InitMarked DEF Init, SinkUnmarked
  <1>2. Inv /\ [Next]_vars => Inv'
    BY NextInvariant, NextMarked, NextUnmarked
  <1>3. Inv => [Resumes]_vars
    <2> SUFFICES ASSUME Parts, AllMarked, SinkUnmarked,
                        NEW p \in Procs, pc[p] = "sink",
                        <<doc[p].content, batch[p]>> \in sealed
                 PROVE  FALSE
      BY DEF Resumes
    <2>1. MoreChunks(p) /\ ~IsLoaded(Shard(p))
      BY DEF Parts, AllProgress, Progress, SinkUnmarked
    <2>2. doc[p].offset \in Starts(doc[p].content, doc[p].group, batch[p])
      BY <2>1 DEF AllMarked, CursorMarked
    <2>3. Marked(doc[p].content, doc[p].group, batch[p], doc[p].offset)
      BY <2>1, <2>2 DEF AllMarked, SealedMarked, MoreChunks
    <2> QED
      BY <2>1, <2>3, ShardMarked
  <1> HIDE DEF Inv
  <1>4. Spec => []Inv
    BY <1>1, <1>2, PTL DEF Spec
  <1> QED
    BY <1>3, <1>4, PTL DEF Spec, SealedNotReloaded
-----------------------------------------------------------------------------
(* The graph: what a run completed is what its positions hold.             *)

\* Every normalized record carries its source document id, so two targets
\* never yield the same normalized content, unless it has no rows.
SeparateDocuments ==
    \A t, u \in Targets : t # u =>
       \A c \in Yields[t] \cap Yields[u] : Groups(c) = {}

\* The parts of GraphNewest: upstream and graph against the rows delivered,
\* the version in hand, and the versions this run completed.
NewestAt(t) ==
    /\ upstream[t] \in Yields[t]
    /\ \A r \in Seen(t) : r[1] <= upstream[t] /\ r[1] <= graph[<<t, r[2], r[3]>>]
HoldsSeen ==
    \A k \in Positions :
       graph[k] # None => <<graph[k], k[2], k[3]>> \in Seen(k[1])
NewestInHand(p) ==
    pc[p] \in {"normalize", "load", "sink", "mark"} =>
      /\ doc[p].content \in Yields[doc[p].target]
      /\ doc[p].content <= upstream[doc[p].target]
      /\ \A r \in Seen(doc[p].target) : r[1] <= doc[p].content
NewestDone(p) ==
    \A d \in done[p] :
       d[2] \in Yields[d[1]] /\ \A r \in Seen(d[1]) : r[1] <= d[2]
AllNewest == /\ \A t \in Targets : NewestAt(t)
             /\ HoldsSeen
             /\ \A p \in Procs : NewestInHand(p) /\ NewestDone(p)

LEMMA GraphNewestParts == GraphNewest <=> AllNewest
  BY Zenon DEF GraphNewest, AllNewest, NewestAt, HoldsSeen, NewestInHand, NewestDone

\* Rows, their versions and their positions.
LEMMA RowFacts ==
  ASSUME NEW r \in AllRows
  PROVE  /\ r[1] \in Contents /\ r[1] \in Nat \ {0}
         /\ r = <<r[1], r[2], r[3]>>
         /\ \A t \in Targets : <<t, r[2], r[3]>> \in Positions
  <1>1. PICK c \in Contents : r \in RowsOf(c)
    BY DEF AllRows
  <1>2. PICK g \in Groups(c) : \E i \in 1 .. GroupSizes[c][g] : r = <<c, g, i>>
    BY <1>1, InRows
  <1>3. PICK i \in 1 .. GroupSizes[c][g] : r = <<c, g, i>>
    BY <1>2
  <1>4. r[1] = c /\ r = <<r[1], r[2], r[3]>>
    BY <1>3
  <1> QED
    BY <1>4, ContentsAssumption DEF Positions

\* A step that delivers nothing and leaves the graph and upstream alone.
LEMMA QuietNewest ==
  ASSUME AllNewest, NEW p \in Procs,
         delivered' = delivered, graph' = graph, upstream' = upstream,
         \A q \in Procs \ {p} : /\ pc'[q] = pc[q] /\ doc'[q] = doc[q]
                                /\ done'[q] = done[q],
         NewestInHand(p)', NewestDone(p)'
  PROVE  AllNewest'
  <1>1. \A t : Seen(t)' = Seen(t)
    BY DEF Seen
  <1>2. HoldsSeen' /\ \A t \in Targets : NewestAt(t)'
    BY <1>1 DEF AllNewest, HoldsSeen, NewestAt
  <1>3. ASSUME NEW q \in Procs \ {p} PROVE NewestInHand(q)' /\ NewestDone(q)'
    BY <1>1 DEF AllNewest, NewestInHand, NewestDone
  <1> QED
    BY <1>2, <1>3 DEF AllNewest

\* The same for a step that keeps the document in hand.
LEMMA SameDocument ==
  ASSUME AllNewest, NEW p \in Procs,
         delivered' = delivered, graph' = graph, upstream' = upstream,
         \A q \in Procs \ {p} : /\ pc'[q] = pc[q] /\ doc'[q] = doc[q]
                                /\ done'[q] = done[q],
         done'[p] = done[p],
         \/ pc'[p] \notin {"normalize", "load", "sink", "mark"}
         \/ /\ pc[p] \in {"normalize", "load", "sink", "mark"}
            /\ doc'[p].target = doc[p].target /\ doc'[p].content = doc[p].content
  PROVE  AllNewest'
  <1>1. \A t : Seen(t)' = Seen(t)
    BY DEF Seen
  <1>2. NewestInHand(p)' /\ NewestDone(p)'
    BY <1>1 DEF AllNewest, NewestInHand, NewestDone
  <1> QED
    BY <1>2, QuietNewest

LEMMA InitNewest == Init => AllNewest
  BY DEF Init, AllNewest, NewestAt, HoldsSeen, NewestInHand, NewestDone, Seen

\* A target moves on to a newer version: everything older stays older.
LEMMA AmendNewest ==
  ASSUME Reversible = FALSE, Parts, AllNewest, NEW t \in Targets, Amend(t)
  PROVE  AllNewest'
  <1>1. PICK c \in Yields[t] : /\ c > upstream[t]
                               /\ upstream' = [upstream EXCEPT ![t] = c]
    BY DEF Amend
  <1>2. /\ c \in Nat /\ upstream[t] \in Nat
        /\ upstream'[t] = c
        /\ \A u \in Targets \ {t} : upstream'[u] = upstream[u]
    BY <1>1, YieldsAssumption, ContentsAssumption DEF Parts, Types
  <1>3. /\ delivered' = delivered /\ graph' = graph /\ pc' = pc /\ doc' = doc
        /\ done' = done
    BY DEF Amend, history
  <1>4. \A u : Seen(u)' = Seen(u)
    BY <1>3 DEF Seen
  <1>5. \A r \in delivered : r[1] \in Nat
    BY RowFacts DEF Parts, Types
  <1>6. ASSUME NEW u \in Targets PROVE NewestAt(u)'
    <2>1. CASE u = t
      BY <1>1, <1>2, <1>3, <1>4, <1>5, <2>1 DEF AllNewest, NewestAt, Seen
    <2>2. CASE u # t
      BY <1>2, <1>3, <1>4, <2>2 DEF AllNewest, NewestAt
    <2> QED
      BY <2>1, <2>2
  <1>7. HoldsSeen'
    BY <1>3, <1>4 DEF AllNewest, HoldsSeen
  <1>8. ASSUME NEW p \in Procs PROVE NewestInHand(p)'
    <2> SUFFICES ASSUME pc[p] \in {"normalize", "load", "sink", "mark"}
                 PROVE  /\ doc[p].content \in Yields[doc[p].target]
                        /\ doc[p].content <= upstream'[doc[p].target]
                        /\ \A r \in Seen(doc[p].target) : r[1] <= doc[p].content
      BY <1>3, <1>4 DEF NewestInHand
    <2>1. /\ doc[p].content \in Yields[doc[p].target]
          /\ doc[p].content <= upstream[doc[p].target]
          /\ \A r \in Seen(doc[p].target) : r[1] <= doc[p].content
      BY DEF AllNewest, NewestInHand
    <2>2. doc[p].target \in Targets /\ doc[p].content \in Nat
      BY ContentsAssumption DEF Parts, AllProgress, Progress
    <2>3. CASE doc[p].target = t
      BY <1>1, <1>2, <2>1, <2>2, <2>3
    <2>4. CASE doc[p].target # t
      BY <1>2, <2>1, <2>2, <2>4
    <2> QED
      BY <2>1, <2>3, <2>4
  <1>9. \A p \in Procs : NewestDone(p)'
    BY <1>3, <1>4 DEF AllNewest, NewestDone
  <1> QED
    BY <1>6, <1>7, <1>8, <1>9 DEF AllNewest

\* The version in hand is the one published now, the newest of all.
LEMMA FetchNewest ==
  ASSUME Parts, AllNewest, NEW p \in Procs, Fetch(p)
  PROVE  AllNewest'
  <1>1. PICK t, c : t = doc[p].target /\ c = upstream[t]
    OBVIOUS
  <1>2. t \in Targets /\ c \in Contents /\ c \in Nat
    BY <1>1, ContentsAssumption DEF Fetch, Parts, Types, AllProgress, Progress
  <1>3. doc'[p].target = t /\ doc'[p].content = c
    BY <1>1, <1>2 DEF Fetch, Parts, Types, DocOK
  <1>4. /\ delivered' = delivered /\ graph' = graph /\ upstream' = upstream
        /\ done' = done
        /\ \A q \in Procs \ {p} : pc'[q] = pc[q] /\ doc'[q] = doc[q]
    BY DEF Fetch, history, Parts, Types
  <1>5. \A u : Seen(u)' = Seen(u)
    BY <1>4 DEF Seen
  <1>6. NewestInHand(p)'
    <2>1. NewestAt(t)
      BY <1>2 DEF AllNewest
    <2>2. c \in Yields[t] /\ \A r \in Seen(t) : r[1] <= c
      BY <1>1, <2>1 DEF NewestAt
    <2>3. Seen(t)' = Seen(t)
      BY <1>5, Zenon
    <2>4. c <= upstream'[t]
      BY <1>1, <1>2, <1>4
    <2> QED
      BY <1>3, <2>2, <2>3, <2>4 DEF NewestInHand
  <1>7. NewestDone(p)'
    BY <1>4, <1>5 DEF AllNewest, NewestDone
  <1> QED
    BY <1>4, <1>6, <1>7, QuietNewest

\* The transaction writes the version in hand over older ones only, and, as
\* no other target has its content, at the positions of its target only.
LEMMA SinkLoadNewest ==
  ASSUME \A p, q \in Procs : p = q, SeparateDocuments,
         Parts, AllAccounted, AllNewest, NEW p \in Procs, SinkLoad(p)
  PROVE  AllNewest'
  <1>1. PICK t, c : t = doc[p].target /\ c = doc[p].content
    OBVIOUS
  <1>2. /\ t \in Targets /\ c \in Contents /\ c \in Nat \ {0}
        /\ CursorIn(p) /\ Groups(c) # {}
    BY <1>1, CursorOf, ContentsAssumption
       DEF SinkLoad, Parts, AllProgress, Progress, MoreChunks
  <1>3. /\ c \in Yields[t] /\ c <= upstream[t]
        /\ \A r \in Seen(t) : r[1] <= c
    BY <1>1 DEF SinkLoad, AllNewest, NewestInHand
  <1>4. /\ delivered' = delivered \cup Chunk(p) /\ upstream' = upstream
        /\ done' = done /\ doc' = doc
        /\ graph' = [k \in Positions |->
                       IF k[1] = t /\ <<c, k[2], k[3]>> \in Chunk(p)
                         THEN c ELSE graph[k]]
    BY <1>1 DEF SinkLoad
  <1>5. /\ \A r \in Chunk(p) : r \in AllRows /\ r[1] = c
        /\ \A r \in delivered : r \in AllRows
    <2>1. Chunk(p) \subseteq RowsOf(c)
      BY <1>1, <1>2, ChunkBounds
    <2>2. \A r \in Chunk(p) : r[1] = c
      BY <1>1, InSlice DEF Chunk
    <2> QED
      BY <1>2, <2>1, <2>2 DEF AllRows, Parts, Types
  <1>6. \A u \in Targets \ {t} : Seen(u)' = Seen(u)
    <2>1. \A u \in Targets \ {t} : c \notin Yields[u]
      BY <1>2, <1>3 DEF SeparateDocuments
    <2> QED
      BY <1>4, <1>5, <2>1 DEF Seen
  <1>7. Seen(t)' = Seen(t) \cup Chunk(p)
    BY <1>3, <1>4, <1>5 DEF Seen
  <1>8. ASSUME NEW u \in Targets PROVE NewestAt(u)'
    <2>1. CASE u # t
      <3>1. NewestAt(u)
        BY DEF AllNewest
      <3>2. \A r \in Seen(u) : graph'[<<u, r[2], r[3]>>] = graph[<<u, r[2], r[3]>>]
        BY <1>4, <1>5, <2>1, RowFacts DEF Seen
      <3> QED
        BY <1>4, <1>6, <2>1, <3>1, <3>2 DEF NewestAt
    <2>2. CASE u = t
      <3>1. NewestAt(t)
        BY <1>2 DEF AllNewest
      <3>2. ASSUME NEW r \in Seen(t)
            PROVE  r[1] <= upstream[t] /\ r[1] <= graph'[<<t, r[2], r[3]>>]
        <4>1. <<t, r[2], r[3]>> \in Positions
          BY <1>2, <1>5, RowFacts DEF Seen
        <4>2. r[1] <= c /\ r[1] <= graph[<<t, r[2], r[3]>>] /\ r[1] <= upstream[t]
          BY <1>3, <3>1 DEF NewestAt
        <4> QED
          BY <1>4, <4>1, <4>2
      <3>3. ASSUME NEW r \in Chunk(p)
            PROVE  r[1] <= upstream[t] /\ r[1] <= graph'[<<t, r[2], r[3]>>]
        <4>1. <<t, r[2], r[3]>> \in Positions /\ r = <<c, r[2], r[3]>>
          BY <1>2, <1>5, RowFacts
        <4>2. graph'[<<t, r[2], r[3]>>] = c
          BY <1>4, <4>1
        <4> QED
          BY <1>2, <1>3, <1>5, <4>2
      <3> QED
        BY <1>4, <1>7, <2>2, <3>1, <3>2, <3>3 DEF NewestAt
    <2> QED
      BY <2>1, <2>2
  <1>9. HoldsSeen'
    <2> SUFFICES ASSUME NEW k \in Positions, graph'[k] # None
                 PROVE  <<graph'[k], k[2], k[3]>> \in Seen(k[1])'
      BY DEF HoldsSeen
    <2>1. CASE k[1] = t /\ <<c, k[2], k[3]>> \in Chunk(p)
      BY <1>4, <1>7, <2>1
    <2>2. CASE ~(k[1] = t /\ <<c, k[2], k[3]>> \in Chunk(p))
      <3>1. graph'[k] = graph[k]
        BY <1>4, <2>2
      <3>2. <<graph[k], k[2], k[3]>> \in Seen(k[1])
        BY <3>1 DEF AllNewest, HoldsSeen
      <3> QED
        BY <1>4, <3>1, <3>2 DEF Seen
    <2> QED
      BY <2>1, <2>2
  <1>10. NewestInHand(p)'
    <2>1. \A r \in Seen(t)' : r[1] <= c
      BY <1>2, <1>3, <1>5, <1>7
    <2> QED
      BY <1>1, <1>3, <1>4, <2>1 DEF NewestInHand
  <1>11. NewestDone(p)'
    <2>1. \A d \in done[p] : d[1] \in Targets \ {t}
      BY <1>1 DEF SinkLoad, AllAccounted, Accounted, InHand, Parts, Types
    <2> QED
      BY <1>4, <1>6, <2>1 DEF AllNewest, NewestDone
  <1>12. \A q \in Procs : q = p
    OBVIOUS
  <1> QED
    BY <1>8, <1>9, <1>10, <1>11, <1>12 DEF AllNewest

\* The version in hand joins the completed ones.
LEMMA CompleteTargetNewest ==
  ASSUME Parts, AllNewest, NEW p \in Procs, CompleteTarget(p)
  PROVE  AllNewest'
  <1>1. PICK t, c : t = doc[p].target /\ c = doc[p].content
    OBVIOUS
  <1>2. c \in Yields[t] /\ \A r \in Seen(t) : r[1] <= c
    BY <1>1 DEF CompleteTarget, AllNewest, NewestInHand
  <1>3. /\ delivered' = delivered /\ graph' = graph /\ upstream' = upstream
        /\ pc'[p] = "next" /\ done'[p] = done[p] \cup {<<t, c>>}
        /\ \A q \in Procs \ {p} : /\ pc'[q] = pc[q] /\ doc'[q] = doc[q]
                                  /\ done'[q] = done[q]
    BY <1>1 DEF CompleteTarget, Parts, Types
  <1>4. \A u : Seen(u)' = Seen(u)
    BY <1>3 DEF Seen
  <1>5. NewestDone(p)'
    <2>1. \A d \in done[p] : d[2] \in Yields[d[1]] /\ \A r \in Seen(d[1]) : r[1] <= d[2]
      BY DEF AllNewest, NewestDone
    <2> QED
      BY <1>2, <1>3, <1>4, <2>1 DEF NewestDone
  <1>6. NewestInHand(p)'
    BY <1>3 DEF NewestInHand
  <1> QED
    BY <1>3, <1>5, <1>6, QuietNewest

LEMMA LeaveNewest ==
  ASSUME Parts, AllNewest, NEW p \in Procs, Leave(p), UNCHANGED <<upstream, graph>>
  PROVE  AllNewest'
  <1>1. /\ delivered' = delivered /\ pc'[p] = "idle" /\ done'[p] = {}
        /\ \A q \in Procs \ {p} : /\ pc'[q] = pc[q] /\ doc'[q] = doc[q]
                                  /\ done'[q] = done[q]
    BY DEF Leave, Parts, Types
  <1>2. NewestInHand(p)' /\ NewestDone(p)'
    BY <1>1 DEF NewestInHand, NewestDone
  <1> QED
    BY <1>1, <1>2, QuietNewest

LEMMA NextNewest ==
  ASSUME \A p, q \in Procs : p = q, Reversible = FALSE, SeparateDocuments,
         Parts, AllAccounted, AllNewest, [Next]_vars
  PROVE  AllNewest'
  <1>1. CASE \E t \in Targets : Amend(t)
    BY <1>1, AmendNewest
  <1>2. CASE UNCHANGED vars
    BY <1>2 DEF vars, AllNewest, NewestAt, HoldsSeen, NewestInHand, NewestDone,
                Seen
  <1>3. ASSUME NEW p \in Procs,
               \/ StartRun(p) \/ TakeTarget(p) \/ RecordDiscovered(p)
               \/ FailTarget(p) \/ Normalize(p) \/ NeedShard(p)
        PROVE  AllNewest'
    <2>1. /\ delivered' = delivered /\ graph' = graph /\ upstream' = upstream
          /\ done' = done
          /\ \A q \in Procs \ {p} : pc'[q] = pc[q] /\ doc'[q] = doc[q]
      BY <1>3 DEF StartRun, TakeTarget, RecordDiscovered, FailTarget, Failing,
                  Normalize, NeedShard, durable, history, Parts, Types
    <2>2. \/ pc'[p] \notin {"normalize", "load", "sink", "mark"}
          \/ pc[p] \in {"normalize", "load", "sink", "mark"} /\ doc' = doc
      BY <1>3 DEF StartRun, TakeTarget, RecordDiscovered, FailTarget,
                  Normalize, NeedShard, Parts, Types
    <2> QED
      BY <2>1, <2>2, SameDocument
  <1>4. ASSUME NEW p \in Procs, SkipShard(p) \/ MarkLoaded(p)
        PROVE  AllNewest'
    <2>1. /\ delivered' = delivered /\ graph' = graph /\ upstream' = upstream
          /\ done' = done /\ pc[p] \in {"load", "mark"}
          /\ doc'[p] = Advanced(p)
          /\ \A q \in Procs \ {p} : pc'[q] = pc[q] /\ doc'[q] = doc[q]
      BY <1>4 DEF SkipShard, MarkLoaded, durable, history, Parts, Types
    <2>2. CursorIn(p)
      BY <1>4, CursorOf DEF SkipShard, MarkLoaded, Parts, AllProgress, Progress
    <2>3. doc'[p].target = doc[p].target /\ doc'[p].content = doc[p].content
      BY <2>1, <2>2, AdvanceCursor
    <2> QED
      BY <2>1, <2>3, SameDocument
  <1>5. ASSUME NEW p \in Procs, Fetch(p) PROVE AllNewest'
    BY <1>5, FetchNewest
  <1>6. ASSUME NEW p \in Procs, SinkLoad(p) PROVE AllNewest'
    BY <1>6, SinkLoadNewest
  <1>7. ASSUME NEW p \in Procs, CompleteTarget(p) PROVE AllNewest'
    BY <1>7, CompleteTargetNewest
  <1>8. ASSUME NEW p \in Procs, FinishRun(p) \/ FailRun(p) \/ Crash(p)
        PROVE  AllNewest'
    BY <1>8, LeaveNewest DEF FinishRun, FailRun, Failing, Crash, durable
  <1> QED
    BY <1>1, <1>2, <1>3, <1>4, <1>5, <1>6, <1>7, <1>8 DEF Next, Step

\* Everything the three promises of a run rest on, in one invariant.
THEOREM RunInvariance ==
  ASSUME \A p, q \in Procs : p = q, Reversible = FALSE, SeparateDocuments
  PROVE  Spec => []RunInv
  <1> DEFINE Inv == Parts /\ AllAccounted /\ AllNewest /\ AllMarked /\ SinkUnmarked
  <1>1. Init => Inv
    BY InitInvariant, InitAccounted, InitNewest, InitMarked DEF Init, SinkUnmarked
  <1>2. Inv /\ [Next]_vars => Inv'
    BY NextInvariant, NextAccounted, NextNewest, NextMarked, NextUnmarked
  <1>3. Inv => RunInv
    BY GraphNewestParts, ChunksMarkedParts DEF RunInv, AllAccounted, AllMarked
  <1> HIDE DEF Inv
  <1> QED
    BY <1>1, <1>2, <1>3, PTL DEF Spec

\* With one process and versions that only move forward, the positions of a
\* document this run completed hold that version's values: no shard that was
\* skipped or sent again leaves an older value behind (_process_target with
\* load_holdings_rows).
THEOREM CurrentGraph ==
  ASSUME \A p, q \in Procs : p = q, Reversible = FALSE, SeparateDocuments
  PROVE  Spec => []GraphCurrent
  <1>1. Parts /\ AllNewest => GraphCurrent
    <2> SUFFICES ASSUME Parts, AllNewest, NEW p \in Procs, NEW d \in done[p],
                        NEW r \in RowsOf(d[2])
                 PROVE  graph[<<d[1], r[2], r[3]>>] = d[2]
      BY DEF GraphCurrent
    <2> DEFINE k == <<d[1], r[2], r[3]>>
    <2>1. d[1] \in Targets /\ d[2] \in Contents /\ d[2] \in Nat \ {0}
      <3>1. done[p] \subseteq Targets \X Contents
        BY DEF Parts, Types
      <3> QED
        BY <3>1, ContentsAssumption
    <2>2. r \in AllRows /\ r[1] = d[2]
      BY <2>1, InRows DEF AllRows
    <2>3. k \in Positions /\ graph[k] \in Nat
      BY <2>1, <2>2, RowFacts, ContentsAssumption DEF Parts, Types, None
    <2>4. r \in Seen(d[1]) /\ \A s \in Seen(d[1]) : s[1] <= d[2]
      BY <2>2 DEF Parts, DoneBacked, AllNewest, NewestDone, Seen
    <2>5. d[2] <= graph[k]
      BY <2>1, <2>2, <2>4 DEF AllNewest, NewestAt
    <2>6. <<graph[k], r[2], r[3]>> \in Seen(d[1])
      BY <2>1, <2>3, <2>5 DEF AllNewest, HoldsSeen, None
    <2>7. graph[k] <= d[2]
      BY <2>4, <2>6
    <2> QED
      BY <2>1, <2>3, <2>5, <2>7
  <1>2. RunInv => AllNewest
    BY GraphNewestParts DEF RunInv
  <1>3. Spec => []Parts
    BY Invariance, Regroup, PTL
  <1> QED
    BY <1>1, <1>2, <1>3, RunInvariance, PTL
=============================================================================
