----------------------- MODULE SourceCollectionProofs -----------------------
(***************************************************************************)
(* Proofs about SourceCollection, for every configuration, pacing, fault   *)
(* and number of runs: the inductive invariant IInv, and from it type      *)
(* correctness, the manifest's promise, the pacing of requests and the     *)
(* truth of what the commands print.                                       *)
(***************************************************************************)
EXTENDS SourceCollection, SequenceTheorems, TLAPS

LEMMA BackoffType ==
    ASSUME NEW k \in 0 .. RetryCount
    PROVE  Backoff(k) \in Nat
<1>1. 2 ^ k \in Nat
  BY PowerAssumption
<1>2. \A x \in Nat : BackoffBase * x \in Nat
  BY PaceAssumption
<1> QED  BY <1>1, <1>2, PaceAssumption DEF Backoff

\* What a window selects is a set of document ids.
LEMMA SelectedType ==
    ASSUME NEW c \in Configs, NEW w
    PROVE  /\ Ids(target_window(RowsOf[c], w)) \subseteq DocumentIds
           /\ Ids(discover(target_window(RowsOf[c], w), w)) \subseteq DocumentIds
  BY DEF Ids, target_window, discover, DocumentIds

ChunkType == [entry : Entries, part : Parts]

LEMMA ChunkIn ==
    ASSUME NEW e \in Entries, NEW part \in Parts
    PROVE  Chunk(e, part) \in ChunkType
  BY DEF Chunk, ChunkType

\* An append, whole or not, extends the manifest by at most one chunk of e.
LEMMA LeftoverForms ==
    ASSUME NEW l \in Seq(ChunkType), NEW e \in Entries,
           NEW m \in Leftovers(l, e) \cup {Appended(l, e)}
    PROVE  /\ m \in Seq(ChunkType)
           /\ \A i \in DOMAIN l : i \in DOMAIN m /\ m[i] = l[i]
           /\ \A i \in DOMAIN m : i \in DOMAIN l \/ m[i].entry = e
<1>1. CASE m = l
  BY <1>1
<1>2. CASE m # l
  <2>1. PICK part \in Parts : m = Append(l, Chunk(e, part))
    BY <1>2 DEF Leftovers, Appended, Parts
  <2>2. Chunk(e, part) \in ChunkType
    BY ChunkIn
  <2>3. m \in Seq(ChunkType)
    BY <2>1, <2>2
  <2>4. \A i \in DOMAIN l : i \in DOMAIN m /\ m[i] = l[i]
    BY <2>1, <2>2
  <2>5. \A i \in DOMAIN m : i \in DOMAIN l \/ m[i] = Chunk(e, part)
    BY <2>1, <2>2
  <2> QED  BY <2>3, <2>4, <2>5 DEF Chunk
<1> QED  BY <1>1, <1>2

\* The last chunk of a whole append.
LEMMA AppendedEnds ==
    ASSUME NEW l \in Seq(ChunkType), NEW e \in Entries
    PROVE  \E i \in DOMAIN Appended(l, e) : Appended(l, e)[i] = Chunk(e, "line")
<1>1. Chunk(e, "line") \in ChunkType
  BY ChunkIn DEF Parts
<1>2. Appended(l, e) = Append(l, Chunk(e, "line"))
  BY DEF Appended
<1>3. Len(l) + 1 \in DOMAIN Append(l, Chunk(e, "line"))
  BY <1>1
<1>4. Append(l, Chunk(e, "line"))[Len(l) + 1] = Chunk(e, "line")
  BY <1>1
<1> QED  BY <1>2, <1>3, <1>4

LEMMA Prefix ==
    ASSUME NEW l \in Seq(ChunkType), NEW n \in 0 .. Len(l)
    PROVE  /\ SubSeq(l, 1, n) \in Seq(ChunkType)
           /\ Len(SubSeq(l, 1, n)) = n
           /\ \A i \in 1 .. n : SubSeq(l, 1, n)[i] = l[i]
  BY SubSeqProperties

\* A truncated manifest holds no entry that was not there.
LEMMA TruncationForms ==
    ASSUME NEW l \in Seq(ChunkType), NEW m \in Truncations(l)
    PROVE  /\ m \in Seq(ChunkType)
           /\ \A i \in DOMAIN m : i \in DOMAIN l /\ m[i].entry = l[i].entry
<1>1. CASE \E n \in 0 .. Len(l) : m = SubSeq(l, 1, n)
  <2>1. PICK n \in 0 .. Len(l) : m = SubSeq(l, 1, n)
    BY <1>1
  <2>2. m \in Seq(ChunkType) /\ Len(m) = n /\ \A i \in 1 .. n : m[i] = l[i]
    BY <2>1, Prefix
  <2> QED  BY <2>2
<1>2. CASE \E n \in DOMAIN l, part \in {"torn", "unended"} :
              m = Append(SubSeq(l, 1, n - 1), Chunk(l[n].entry, part))
  <2>1. PICK n \in DOMAIN l, part \in {"torn", "unended"} :
              m = Append(SubSeq(l, 1, n - 1), Chunk(l[n].entry, part))
    BY <1>2
  <2> DEFINE s == SubSeq(l, 1, n - 1)
  <2>2. s \in Seq(ChunkType) /\ Len(s) = n - 1 /\ \A i \in 1 .. n - 1 : s[i] = l[i]
    <3>1. PICK k \in 0 .. Len(l) : k = n - 1
      OBVIOUS
    <3>2. /\ SubSeq(l, 1, k) \in Seq(ChunkType)
          /\ Len(SubSeq(l, 1, k)) = k
          /\ \A i \in 1 .. k : SubSeq(l, 1, k)[i] = l[i]
      BY Prefix
    <3>3. s = SubSeq(l, 1, k)
      BY <3>1
    <3> HIDE DEF s
    <3>4. n \in Int /\ k \in Int
      OBVIOUS
    <3>5. \A i \in 1 .. n - 1 : s[i] = l[i]
      BY <3>1, <3>2, <3>3, <3>4
    <3>6. Len(s) = n - 1
      BY <3>1, <3>2, <3>3, <3>4
    <3>7. s \in Seq(ChunkType)
      BY <3>2, <3>3
    <3> QED  BY <3>5, <3>6, <3>7
  <2>3. l[n].entry \in Entries
    <3>1. l[n] \in ChunkType
      OBVIOUS
    <3> QED  BY <3>1 DEF ChunkType
  <2>4. Chunk(l[n].entry, part) \in ChunkType
    BY <2>3, ChunkIn DEF Parts
  <2> HIDE DEF s
  <2>5. m = Append(s, Chunk(l[n].entry, part))
    BY <2>1 DEF s
  <2>6. /\ m \in Seq(ChunkType) /\ Len(m) = n
        /\ \A i \in 1 .. n - 1 : m[i] = l[i]
        /\ m[n] = Chunk(l[n].entry, part)
    BY <2>2, <2>4, <2>5
  <2>7. m[n].entry = l[n].entry
    BY <2>6 DEF Chunk
  <2> QED  BY <2>6, <2>7
<1> QED  BY <1>1, <1>2 DEF Truncations

-----------------------------------------------------------------------------
(* What the steps have in common.                                          *)

LEMMA EntryType ==
    ASSUME IInv, pc \in {"seal", "fail"}, NEW phase \in {"ready", "failed"}
    PROVE  Entry(phase) \in Entries /\ Entry(phase).phase = phase
<1>1. job \in Jobs /\ runs \in 0 .. MaxRuns
  BY DEF IInv, TypeOK
<1>2. target \in DocumentIds
  BY DEF IInv, Accounted, InHand
<1> QED  BY <1>1, <1>2 DEF Entry, Entries, Jobs

\* Nothing is printed.
LEMMA SilentKeeps ==
    ASSUME Silent
    PROVE  /\ ReportsTrue'
           /\ summary' \in Summaries \cup {None}
           /\ report' \in Reports \cup {None}
           /\ verdict' \in Verdicts \cup {None}
  BY DEF Silent, Prints, ReportsTrue

\* The end of a process.
LEMMA EndedKeeps ==
    ASSUME IInv, Ended
    PROVE  /\ Paced' /\ BackedOff' /\ Accounted'
           /\ pc' = "idle" /\ job' = None /\ target' = None /\ failed' = {}
           /\ attempt' \in 0 .. RetryCount /\ hop' \in 0 .. MAX_REDIRECTS
           /\ clock' \in Nat /\ slot' \in Nat
           /\ reads' \in Nat /\ began' \in Nat /\ refusedAt' \in Nat
           /\ overslept' = 0
<1>1. reads' = 0 /\ slot' = 0 /\ pc' = "idle" /\ attempt' = 0
  BY DEF Ended
<1>2. Paced' /\ BackedOff' /\ Accounted'
  BY <1>1 DEF Paced, BackedOff, Accounted, InHand, Fetching
<1> QED  BY <1>1, <1>2, PaceAssumption DEF Ended

\* An append of e, whole or not, by whomever.
LEMMA AppendKeeps ==
    ASSUME IInv, NEW e \in Entries,
           log' \in Leftovers(log, e) \cup {Appended(log, e)},
           sent' = sent \cup Ready({e}),
           \/ acked' = acked /\ taken' = taken /\ e \notin taken
           \/ /\ log' = Appended(log, e)
              /\ acked' = acked \cup Ready({e}) /\ taken' = taken \ {e}
    PROVE  /\ LogBacked' /\ Kept \subseteq Kept'
           /\ log' \in Seq([entry : Entries, part : Parts])
           /\ sent' \subseteq Ready(Entries) /\ acked' \subseteq Ready(Entries)
           /\ taken' \subseteq acked'
<1>1. log \in Seq(ChunkType)
  BY DEF IInv, TypeOK, ChunkType
<1>2. /\ log' \in Seq(ChunkType)
      /\ \A i \in DOMAIN log : i \in DOMAIN log' /\ log'[i] = log[i]
      /\ \A i \in DOMAIN log' : i \in DOMAIN log \/ log'[i].entry = e
  BY <1>1, LeftoverForms
<1>3. Ready({e}) \subseteq {e} /\ (e.phase = "ready" => e \in Ready({e}))
  BY DEF Ready
<1>4. /\ taken \subseteq acked /\ acked \subseteq sent
      /\ e \notin taken' /\ taken' \subseteq taken
  BY DEF IInv, TypeOK, LogBacked
<1>5. acked' \subseteq sent' /\ taken' \subseteq acked' /\ Kept \subseteq Kept'
  BY <1>4 DEF Kept
<1>6. ASSUME NEW i \in DOMAIN log', log'[i].entry.phase = "ready"
      PROVE  log'[i].entry \in sent'
  BY <1>2, <1>3, <1>6 DEF IInv, LogBacked
<1>7. ASSUME NEW x \in acked', x \notin taken'
      PROVE  \E i \in DOMAIN log' : log'[i].entry = x /\ log'[i].part # "torn"
  <2>1. CASE x \in Kept
    <3>1. PICK i \in DOMAIN log : log[i].entry = x /\ log[i].part # "torn"
      BY <2>1 DEF IInv, LogBacked, Holds
    <3> QED  BY <3>1, <1>2
  <2>2. CASE x \notin Kept
    <3>1. x = e /\ log' = Appended(log, e)
      BY <1>3, <1>7, <2>2 DEF Kept
    <3>2. PICK i \in DOMAIN log' : log'[i] = Chunk(e, "line")
      BY <3>1, <1>1, AppendedEnds
    <3> QED  BY <3>1, <3>2 DEF Chunk
  <2> QED  BY <2>1, <2>2
<1>8. ASSUME NEW x \in taken', NEW i \in DOMAIN log', log'[i].entry = x
      PROVE  log'[i].part = "torn"
  <2>1. i \in DOMAIN log /\ log'[i] = log[i]
    BY <1>2, <1>4, <1>8
  <2> QED  BY <2>1, <1>4, <1>8 DEF IInv, LogBacked, Holds
<1>9. LogBacked'
  BY <1>5, <1>6, <1>7, <1>8 DEF LogBacked, Kept, Holds
<1>10. Ready({e}) \subseteq Ready(Entries)
  BY DEF Ready
<1> QED  BY <1>2, <1>5, <1>9, <1>10 DEF ChunkType, IInv, TypeOK

\* A step that leaves the manifest and its history alone.
LEMMA LogKeeps ==
    ASSUME IInv, UNCHANGED <<log, appends>>
    PROVE  LogBacked' /\ Kept' = Kept
<1>1. log' = log /\ sent' = sent /\ acked' = acked /\ taken' = taken
  BY DEF appends
<1>2. Kept' = Kept
  BY <1>1 DEF Kept
<1> QED  BY <1>1, <1>2 DEF IInv, LogBacked, Holds

\* The run goes on, or there is none; nothing more is taken from it.
LEMMA TakenKeeps ==
    ASSUME IInv, runs' = runs, pc' # "idle" => pc # "idle",
           taken' \subseteq taken, \A e \in sent' : e \in sent \/ e.run <= runs
    PROVE  Taken'
  BY DEF IInv, Taken

\* What a reader of the manifest gets.
LEMMA Reading ==
    ASSUME IInv
    PROVE  ReadAllOrRefuse
<1> DEFINE entries == {log[i].entry : i \in DOMAIN log}
<1> SUFFICES ASSUME Readable(log)
    PROVE  Kept \subseteq entries /\ Ready(entries) \subseteq sent \ taken
  BY DEF ReadAllOrRefuse, read_manifest
<1>1. Kept \subseteq entries
  BY DEF IInv, LogBacked, Holds
<1>2. ASSUME NEW e \in Ready(entries) PROVE e \in sent \ taken
  <2>1. PICK i \in DOMAIN log : log[i].entry = e
    BY <1>2 DEF Ready
  <2>2. log[i].part # "torn"
    BY DEF Readable
  <2>3. e \notin taken
    BY <2>1, <2>2 DEF IInv, LogBacked, Holds
  <2> QED  BY <1>2, <2>1, <2>3 DEF Ready, IInv, LogBacked
<1> QED  BY <1>1, <1>2

-----------------------------------------------------------------------------
(* The steps.                                                              *)

\* The initial states satisfy the invariant.
LEMMA Start == Init => IInv
<1> SUFFICES ASSUME Init PROVE IInv
  OBVIOUS
<1>1. TypeOK
  BY PaceAssumption, BoundAssumption DEF Init, TypeOK, Ready
<1>2. LogBacked /\ Taken
  BY DEF Init, LogBacked, Taken, Kept
<1>3. Paced /\ Accounted /\ BackedOff /\ ReportsTrue
  BY DEF Init, Paced, Accounted, BackedOff, ReportsTrue, InHand, Fetching
<1> QED  BY <1>1, <1>2, <1>3 DEF IInv

LEMMA EditInputsKeeps == IInv /\ EditInputs => IInv'
<1> SUFFICES ASSUME IInv, EditInputs PROVE IInv'
  OBVIOUS
<1>1. Silent /\ UNCHANGED <<log, pc, job, fetching, pacing, failed, appends,
                            runs, foreign, faults>>
  BY DEF EditInputs
<1>2. TypeOK'
  BY <1>1, SilentKeeps DEF IInv, TypeOK, EditInputs, fetching, pacing, appends
<1>3. LogBacked' /\ Kept' = Kept /\ Taken'
  BY <1>1, LogKeeps, TakenKeeps DEF appends
<1>4. Paced' /\ Accounted' /\ BackedOff'
  BY <1>1, <1>3 DEF IInv, Paced, Accounted, BackedOff, Backoff, InHand, Fetching,
                    fetching, pacing
<1> QED  BY <1>1, <1>2, <1>3, <1>4, SilentKeeps DEF IInv

\* The read-only commands change nothing but what they print.
LEMMA QuietKeeps ==
    ASSUME IInv, UNCHANGED <<inputs, log, pc, job, fetching, pacing, failed, appends,
                             runs, foreign, faults>>
    PROVE  /\ LogBacked' /\ Taken' /\ Paced' /\ Accounted' /\ BackedOff'
           /\ Kept' = Kept
           /\ (/\ summary' \in Summaries \cup {None}
               /\ report' \in Reports \cup {None}
               /\ verdict' \in Verdicts \cup {None}) => TypeOK'
<1>1. LogBacked' /\ Kept' = Kept /\ Taken'
  BY LogKeeps, TakenKeeps DEF appends
<1>2. Paced' /\ Accounted' /\ BackedOff'
  BY <1>1 DEF IInv, Paced, Accounted, BackedOff, Backoff, InHand, Fetching,
              fetching, pacing
<1>3. (/\ summary' \in Summaries \cup {None}
       /\ report' \in Reports \cup {None}
       /\ verdict' \in Verdicts \cup {None}) => TypeOK'
  BY DEF IInv, TypeOK, inputs, fetching, pacing, appends
<1> QED  BY <1>1, <1>2, <1>3

LEMMA CatchUpKeeps == ASSUME NEW w, IInv, CatchUp(w) PROVE IInv'
<1> DEFINE r == catch_up_report(Selected(w))
<1>1. /\ summary' = None /\ verdict' = None /\ report' = r
      /\ UNCHANGED <<inputs, log, pc, job, fetching, pacing, failed, appends,
                     runs, foreign, faults>>
  BY DEF CatchUp, Prints
<1>2. config \in Configs /\ sent \subseteq Ready(Entries) /\ acked \subseteq Ready(Entries)
  BY DEF IInv, TypeOK
<1>3. Selected(w) \subseteq DocumentIds
  BY <1>2, SelectedType DEF Selected
<1>4. TargetsOf(Kept) \subseteq DocumentIds
  BY <1>2 DEF TargetsOf, Kept, Ready, Entries
<1>5. read_manifest(log).raised \in BOOLEAN
  BY DEF read_manifest
<1>6. r \in Reports
  BY <1>3, <1>4, <1>5 DEF catch_up_report, Reports
<1>7. ASSUME ~r.raised
      PROVE  /\ r.selected \ r.missing \subseteq TargetsOf(sent \ taken)
             /\ r.missing \cap r.known = {}
  <2> DEFINE entries == read_manifest(log).entries
  <2>1. Kept \subseteq entries /\ Ready(entries) \subseteq sent \ taken
    BY <1>7, Reading DEF ReadAllOrRefuse, catch_up_report
  <2>2. Kept \subseteq Ready(entries)
    BY <2>1, <1>2 DEF Ready, Kept
  <2>3. TargetsOf(Kept) \subseteq TargetsOf(Ready(entries))
        /\ TargetsOf(Ready(entries)) \subseteq TargetsOf(sent \ taken)
    BY <2>1, <2>2 DEF TargetsOf
  <2> QED  BY <2>3 DEF catch_up_report
<1> HIDE DEF r
<1>8. ReportsTrue'
  <2>1. /\ summary' = None /\ verdict' = None /\ report' = r
        /\ sent' = sent /\ taken' = taken
    BY <1>1 DEF appends
  <2>2. TargetsOf(sent \ taken)' = TargetsOf(sent \ taken)
    BY <2>1 DEF TargetsOf
  <2> QED  BY <2>1, <2>2, <1>7 DEF ReportsTrue
<1> QED  BY <1>1, <1>6, <1>8, QuietKeeps DEF IInv

LEMMA VerifyKeeps == ASSUME NEW w, IInv, Verify(w) PROVE IInv'
<1> DEFINE v == verify_collection(Selected(w))
           entries == read_manifest(log).entries
<1>1. /\ summary' = None /\ report' = None /\ verdict' = v
      /\ UNCHANGED <<inputs, log, pc, job, fetching, pacing, failed, appends,
                     runs, foreign, faults>>
  BY DEF Verify, Prints
<1>2. config \in Configs /\ crosswalk \in Crosswalks
  BY DEF IInv, TypeOK
<1>3. Selected(w) \subseteq DocumentIds
  BY <1>2, SelectedType DEF Selected
<1>4. v \in Verdicts
  BY <1>2, <1>3 DEF verify_collection, Verdicts
<1>5. ASSUME v.accepted, NEW t \in v.selected
      PROVE  \E e \in sent \ taken : /\ e.target = t /\ e.config = v.config
                                     /\ e.crosswalk = v.crosswalk
  <2>1. ~read_manifest(log).raised
        /\ t \in TargetsOf({e \in Ready(entries) :
                              e.config = config /\ e.crosswalk = crosswalk})
        /\ v.config = config /\ v.crosswalk = crosswalk
    BY <1>5 DEF verify_collection
  <2>2. PICK e \in Ready(entries) : e.target = t /\ e.config = config
                                    /\ e.crosswalk = crosswalk
    BY <2>1 DEF TargetsOf
  <2>3. e \in sent \ taken
    BY <2>1, <2>2, Reading DEF ReadAllOrRefuse
  <2> QED  BY <2>1, <2>2, <2>3
<1> HIDE DEF v
<1>6. ReportsTrue'
  BY <1>1, <1>5 DEF ReportsTrue, appends
<1> QED  BY <1>1, <1>4, <1>6, QuietKeeps DEF IInv

LEMMA StartCollectKeeps == ASSUME NEW w, IInv, StartCollect(w) PROVE IInv'
<1> DEFINE chosen == Ids(discover(target_window(RowsOf[config], w), w))
<1>1. PICK refresh, strict \in BOOLEAN :
        job' = [selected |-> chosen, todo |-> chosen, config |-> config,
                crosswalk |-> crosswalk, refresh |-> refresh, strict |-> strict]
  BY DEF StartCollect
<1>2. /\ pc = "idle" /\ pc' = "next" /\ Silent /\ runs' \in 0 .. MaxRuns
      /\ runs' = runs + 1
      /\ UNCHANGED <<inputs, log, fetching, pacing, failed, appends, foreign,
                     faults>>
  BY BoundAssumption DEF StartCollect, IInv, TypeOK
<1>3. config \in Configs /\ crosswalk \in Crosswalks
  BY DEF IInv, TypeOK
<1>4. chosen \subseteq DocumentIds
  BY <1>3, SelectedType
<1> HIDE DEF chosen
<1>5. job' \in Jobs
  BY <1>1, <1>3, <1>4 DEF Jobs
<1>6. job' # None
  BY <1>5, NoneAssumption
<1>7. TypeOK'
  BY <1>2, <1>5, <1>6, SilentKeeps DEF IInv, TypeOK, inputs, fetching, pacing, appends
<1>8. Accounted'
  BY <1>1, <1>2 DEF IInv, Accounted, InHand, Fetching, fetching
<1>9. Paced' /\ BackedOff'
  BY <1>2 DEF IInv, Paced, BackedOff, Fetching, fetching, pacing
<1>10. Taken'
  <2>1. ASSUME NEW e \in sent PROVE e.run \in Nat /\ e.run <= runs
    BY DEF IInv, TypeOK, Taken, Ready, Entries
  <2>2. sent' = sent /\ taken' = taken /\ taken \subseteq sent /\ runs \in Nat
    BY <1>2 DEF IInv, TypeOK, LogBacked, appends
  <2> QED  BY <1>2, <2>1, <2>2 DEF Taken
<1> QED  BY <1>2, <1>7, <1>8, <1>9, <1>10, LogKeeps, SilentKeeps DEF IInv

LEMMA NextTargetKeeps == ASSUME IInv, NextTarget PROVE IInv'
<1>1. PICK t \in job.todo : target' = t /\ job' = [job EXCEPT !.todo = @ \ {t}]
  BY DEF NextTarget
<1>2. /\ pc = "next" /\ pc' \in {"limit", "fail"} /\ Silent
      /\ UNCHANGED <<inputs, log, attempt, hop, pacing, failed, appends, runs,
                     foreign, faults>>
  BY DEF NextTarget
<1>3. job \in Jobs
  BY <1>2 DEF IInv, TypeOK
<1>4. /\ job' \in Jobs /\ t \in DocumentIds
      /\ job'.selected = job.selected /\ job'.todo = job.todo \ {t}
      /\ job'.config = job.config /\ job'.crosswalk = job.crosswalk
  BY <1>1, <1>3 DEF Jobs
<1>5. attempt = 0
  BY <1>2 DEF IInv, BackedOff, Fetching, TypeOK
<1>6. TypeOK'
  BY <1>1, <1>2, <1>4, SilentKeeps, NoneAssumption DEF IInv, TypeOK, inputs, pacing, appends
<1>7. Accounted'
  BY <1>1, <1>2, <1>4, <1>5, LogKeeps DEF IInv, Accounted, InHand, Fetching
<1>8. Paced' /\ BackedOff'
  BY <1>2, <1>5 DEF IInv, Paced, BackedOff, pacing
<1>9. Taken'
  BY <1>2, TakenKeeps DEF appends
<1> QED  BY <1>2, <1>6, <1>7, <1>8, <1>9, LogKeeps, SilentKeeps DEF IInv

LEMMA FinishKeeps == ASSUME IInv, Finish PROVE IInv'
<1> DEFINE s == [run |-> runs, selected |-> job.selected, failed |-> failed,
                 config |-> job.config, crosswalk |-> job.crosswalk]
<1>1. /\ pc = "next" /\ job.todo = {} /\ Ended
      /\ summary' = s /\ report' = None /\ verdict' = None
      /\ UNCHANGED <<inputs, log, appends, runs, foreign, faults>>
  BY DEF Finish, Prints
<1>2. job \in Jobs
  BY <1>1 DEF IInv, TypeOK
<1>3. s \in Summaries
  BY <1>2 DEF IInv, TypeOK, Jobs, Summaries
<1>4. ASSUME NEW t \in s.selected \ s.failed
      PROVE  \E e \in Kept : /\ e.run = s.run /\ e.target = t
                             /\ e.config = s.config /\ e.crosswalk = s.crosswalk
  BY <1>1, <1>4 DEF IInv, Accounted, InHand, Fetching
<1> HIDE DEF s
<1>5. ReportsTrue'
  BY <1>1, <1>4, LogKeeps DEF ReportsTrue
<1>6. TypeOK'
  BY <1>1, <1>3, EndedKeeps DEF IInv, TypeOK, inputs, appends
<1>7. Taken'
  BY <1>1, EndedKeeps, TakenKeeps DEF appends
<1> QED  BY <1>1, <1>5, <1>6, <1>7, EndedKeeps, LogKeeps DEF IInv

\* One more interval.
LEMMA OneMore == ASSUME NEW n \in Nat
                 PROVE  (n + 1) * Interval = n * Interval + Interval /\ n * Interval \in Nat
  BY PaceAssumption

\* Two slots, the later one not before it was due.
LEMMA SlotArithmetic ==
    ASSUME NEW now \in Nat, NEW due \in Nat, NEW before \in Nat, NEW late \in Nat,
           now >= due, due + late >= before + Interval
    PROVE  now + late >= before + Interval
  BY PaceAssumption

\* A sleep to the slot, and some more.
LEMMA SleepArithmetic ==
    ASSUME NEW now \in Nat, NEW due \in Nat, now < due, NEW late \in Nat
    PROVE  /\ due + late \in Nat /\ due + late >= now /\ due + late >= due
           /\ due + Interval \in Nat /\ due + Interval >= due + Interval
           /\ (due + Interval) + late >= (due + late) + Interval
  BY PaceAssumption

\* What a slot comes after, and what follows from it.
LEMMA SlotForms ==
    ASSUME IInv, RespectRateLimit
    PROVE  /\ pc = "limit" /\ pc' = "request" /\ Silent
           /\ UNCHANGED <<inputs, log, job, fetching, refusedAt, failed, appends,
                          runs, foreign, faults>>
           /\ reads' = reads + 1 /\ began' = clock'
           /\ clock' \in Nat /\ clock' >= clock /\ clock' >= slot
           /\ overslept' \in Nat
           /\ slot' \in Nat /\ slot' >= slot + Interval
           /\ slot' + overslept' >= began' + Interval
           /\ slot >= reads * Interval
           /\ reads > 0 => slot + overslept >= began + Interval
<1>1. /\ pc = "limit" /\ pc' = "request" /\ Silent
      /\ slot' = (IF clock < slot THEN slot ELSE clock) + Interval
      /\ reads' = reads + 1 /\ began' = clock'
      /\ UNCHANGED <<inputs, log, job, fetching, refusedAt, failed, appends,
                     runs, foreign, faults>>
  BY DEF RespectRateLimit, TakeSlot, Later
<1>2. /\ clock \in Nat /\ slot \in Nat /\ reads \in Nat /\ began \in Nat
      /\ overslept \in Nat /\ Interval \in Nat
  BY PaceAssumption DEF IInv, TypeOK
<1>3. /\ clock' \in Nat /\ clock' >= clock /\ clock' >= slot /\ overslept' \in Nat
      /\ slot' \in Nat /\ slot' >= slot + Interval
      /\ slot' + overslept' >= clock' + Interval
  <2>1. CASE clock >= slot /\ overslept' = 0 /\ clock' = clock
    BY <1>1, <1>2, <2>1
  <2>2. CASE clock < slot /\ overslept' \in Oversleeps /\ clock' = slot + overslept'
    <3>1. overslept' \in Nat
      BY <2>2, PaceAssumption
    <3>2. slot' = slot + Interval
      BY <1>1, <2>2
    <3>3. clock' = slot + overslept' /\ clock < slot
      BY <2>2
    <3> QED  BY <1>2, <3>1, <3>2, <3>3, SleepArithmetic
  <2> QED  BY <2>1, <2>2 DEF RespectRateLimit, TakeSlot, WaitForSlot
<1>4. /\ slot >= reads * Interval
      /\ reads > 0 => slot + overslept >= began + Interval
  <2>1. CASE reads = 0
    BY <1>2, <2>1 DEF IInv, Paced
  <2>2. CASE reads > 0
    BY <2>2 DEF IInv, Paced
  <2> QED  BY <1>2, <2>1, <2>2
<1> QED  BY <1>1, <1>3, <1>4

LEMMA RespectRateLimitKeeps == ASSUME IInv, RespectRateLimit PROVE IInv'
<1>1. /\ reads \in Nat /\ clock \in Nat /\ slot \in Nat /\ Interval \in Nat
      /\ refusedAt \in Nat /\ attempt \in 0 .. RetryCount
  BY PaceAssumption DEF IInv, TypeOK
<1>2. TypeOK'
  <2>1. reads' \in Nat /\ began' \in Nat
    BY <1>1, SlotForms
  <2> QED  BY <2>1, SlotForms, SilentKeeps DEF IInv, TypeOK, inputs, fetching, appends
<1>3. Paced'
  <2>1. slot' >= reads' * Interval
    BY <1>1, SlotForms, OneMore
  <2>2. reads' # 0
    BY <1>1, SlotForms
  <2> QED  BY <2>1, <2>2, SlotForms DEF Paced
<1>4. BackedOff'
  <2>1. attempt' = attempt /\ refusedAt' = refusedAt /\ pc' = "request"
    BY SlotForms DEF fetching
  <2>2. ASSUME attempt > 0 PROVE clock' >= refusedAt + Backoff(attempt - 1)
    <3>1. clock >= refusedAt + Backoff(attempt - 1)
      BY <2>2 DEF IInv, BackedOff
    <3>2. attempt - 1 \in 0 .. RetryCount
      BY <1>1, <2>2, PaceAssumption
    <3>3. Backoff(attempt - 1) \in Nat
      BY <3>2, BackoffType
    <3> QED  BY <3>1, <3>3, <1>1, SlotForms
  <2>3. Backoff(attempt - 1)' = Backoff(attempt' - 1)
    BY DEF Backoff
  <2> QED  BY <2>1, <2>2, <2>3 DEF BackedOff, Fetching
<1>5. LogBacked' /\ Kept' = Kept /\ Taken'
  BY SlotForms, LogKeeps, TakenKeeps DEF appends
<1>6. Accounted'
  BY <1>5, SlotForms DEF IInv, Accounted, InHand, Fetching, fetching
<1> QED  BY <1>2, <1>3, <1>4, <1>5, <1>6, SlotForms, SilentKeeps DEF IInv

\* The answer to a request, whichever it is.
LEMMA AnswerForms ==
    ASSUME IInv, Request
    PROVE  /\ pc' \in {"request", "limit", "seal", "fail"}
           /\ attempt' \in 0 .. RetryCount /\ hop' \in 0 .. MAX_REDIRECTS
           /\ clock' \in Nat /\ clock' >= clock /\ refusedAt' \in Nat
           /\ attempt' > 0 => /\ pc' \in {"limit", "request"}
                              /\ clock' >= refusedAt' + Backoff(attempt' - 1)
<1>1. /\ attempt \in 0 .. RetryCount /\ hop \in 0 .. MAX_REDIRECTS /\ clock \in Nat
      /\ refusedAt \in Nat /\ pc = "request"
      /\ attempt > 0 => clock >= refusedAt + Backoff(attempt - 1)
  BY DEF IInv, TypeOK, BackedOff, Request
<1>2. CASE Redirected
  <2>1. PICK delay \in Delays : clock' = clock + delay
    BY <1>2 DEF Redirected
  <2>2. delay \in Nat
    BY PaceAssumption
  <2>3. clock' \in Nat /\ clock' >= clock
    BY <2>1, <2>2, <1>1
  <2>4. /\ pc' = pc /\ attempt' = attempt /\ refusedAt' = refusedAt
        /\ hop' \in 0 .. MAX_REDIRECTS
    BY <1>1, <1>2, PaceAssumption DEF Redirected, MayFollow
  <2>5. ASSUME attempt > 0 PROVE clock' >= refusedAt + Backoff(attempt - 1)
    <3>1. attempt - 1 \in 0 .. RetryCount
      BY <2>5, <1>1, PaceAssumption
    <3>2. Backoff(attempt - 1) \in Nat
      BY <3>1, BackoffType
    <3> QED  BY <2>3, <2>5, <3>2, <1>1
  <2> QED  BY <2>3, <2>4, <2>5, <1>1
<1>3. CASE Retried
  <2>1. PICK delay \in Delays, late \in Oversleeps :
          /\ refusedAt' = clock + delay
          /\ clock' = refusedAt' + Backoff(attempt) + late
    BY <1>3 DEF Retried
  <2>2. delay \in Nat /\ late \in Nat /\ Backoff(attempt) \in Nat
    BY <1>1, PaceAssumption, BackoffType
  <2>3. /\ refusedAt' \in Nat /\ clock' \in Nat /\ clock' >= clock
        /\ clock' >= refusedAt' + Backoff(attempt)
    BY <2>1, <2>2, <1>1
  <2>4. /\ pc' = "limit" /\ attempt' \in 0 .. RetryCount /\ attempt' - 1 = attempt
        /\ hop' \in 0 .. MAX_REDIRECTS
    BY <1>1, <1>3, PaceAssumption DEF Retried
  <2> QED  BY <2>3, <2>4
<1>4. CASE Answered
  <2>1. PICK delay \in Delays : clock' = clock + delay
    BY <1>4 DEF Answered
  <2>2. delay \in Nat
    BY PaceAssumption
  <2> QED  BY <1>1, <1>4, <2>1, <2>2, PaceAssumption DEF Answered
<1> QED  BY <1>2, <1>3, <1>4 DEF Request

LEMMA RequestKeeps == ASSUME IInv, Request PROVE IInv'
<1>1. /\ pc = "request" /\ Silent
      /\ UNCHANGED <<inputs, log, job, target, slot, reads, began, overslept,
                     failed, appends, runs, foreign, faults>>
  BY DEF Request
<1>2. TypeOK'
  BY <1>1, AnswerForms, SilentKeeps DEF IInv, TypeOK, inputs, appends
<1>3. Paced'
  BY <1>1 DEF IInv, Paced
<1>4. BackedOff'
  <2>1. Backoff(attempt - 1)' = Backoff(attempt' - 1)
    BY DEF Backoff
  <2> QED  BY <2>1, AnswerForms DEF BackedOff, Fetching
<1>5. LogBacked' /\ Kept' = Kept /\ Taken'
  BY <1>1, LogKeeps, TakenKeeps DEF appends
<1>6. Accounted'
  BY <1>1, <1>5, AnswerForms DEF IInv, Accounted, InHand, Fetching
<1> QED  BY <1>1, <1>2, <1>3, <1>4, <1>5, <1>6, SilentKeeps DEF IInv

\* The READY and the FAILED entry in their sets; neither was taken.
LEMMA EntrySets ==
    ASSUME IInv, pc \in {"seal", "fail"}
    PROVE  /\ Ready({Entry("ready")}) = {Entry("ready")}
           /\ Ready({Entry("failed")}) = {}
           /\ Entry("ready") \notin taken /\ Entry("failed") \notin taken
<1>1. Ready({Entry("ready")}) = {Entry("ready")} /\ Ready({Entry("failed")}) = {}
  BY EntryType DEF Ready
<1>2. Entry("ready") \notin taken
  BY DEF IInv, Taken, Entry
<1>3. Entry("failed") \notin taken
  BY EntryType DEF IInv, TypeOK, Ready
<1> QED  BY <1>1, <1>2, <1>3

\* Outside a fetch the attempt counts nothing.
LEMMA NoAttempt ==
    ASSUME IInv, pc \in {"seal", "fail"}
    PROVE  attempt = 0
  BY DEF IInv, BackedOff, Fetching, TypeOK

LEMMA SealKeeps == ASSUME IInv, Seal PROVE IInv'
<1> DEFINE e == Entry("ready")
<1>1. /\ pc = "seal" /\ pc' \in {"next", "fail"} /\ Silent
      /\ UNCHANGED <<inputs, job, fetching, pacing, failed, runs, foreign>>
      /\ faults' \in 0 .. MaxFaults
  BY BoundAssumption DEF Seal, Fault, IInv, TypeOK
<1>2. e \in Entries /\ Ready({e}) = {e} /\ e \notin taken
  BY <1>1, EntryType, EntrySets
<1>3. \/ UNCHANGED <<log, appends>> /\ pc' = "fail"
      \/ /\ log' \in Leftovers(log, e) \cup {Appended(log, e)}
         /\ sent' = sent \cup Ready({e})
         /\ \/ acked' = acked /\ taken' = taken /\ pc' = "fail"
            \/ /\ log' = Appended(log, e)
               /\ acked' = acked \cup Ready({e}) /\ taken' = taken \ {e}
  BY <1>2 DEF Seal
<1>4. /\ e.run = runs /\ e.target = target /\ e.config = job.config
      /\ e.crosswalk = job.crosswalk
  BY DEF Entry
<1> HIDE DEF e
<1>5. /\ LogBacked' /\ Kept \subseteq Kept'
      /\ log' \in Seq([entry : Entries, part : Parts])
      /\ sent' \subseteq Ready(Entries) /\ acked' \subseteq Ready(Entries)
      /\ taken' \subseteq acked'
  <2>1. CASE UNCHANGED <<log, appends>>
    BY <2>1, LogKeeps DEF IInv, TypeOK, appends
  <2>2. CASE ~UNCHANGED <<log, appends>>
    BY <1>2, <1>3, <2>2, AppendKeeps
  <2> QED  BY <2>1, <2>2
<1>6. TypeOK'
  BY <1>1, <1>5, SilentKeeps DEF IInv, TypeOK, inputs, fetching, pacing
<1>7. Accounted'
  <2>1. pc' = "next" => e \in Kept'
    BY <1>2, <1>3 DEF Kept
  <2> QED  BY <1>1, <1>5, <2>1, <1>4 DEF IInv, Accounted, InHand, Fetching, fetching
<1>8. Paced' /\ BackedOff'
  BY <1>1, NoAttempt DEF IInv, Paced, BackedOff, pacing, fetching
<1>9. Taken'
  <2>1. runs \in Nat /\ runs' = runs
    BY <1>1 DEF IInv, TypeOK
  <2>2. taken' \subseteq taken /\ \A x \in sent' : x \in sent \/ x = e
    BY <1>2, <1>3 DEF appends
  <2>3. \A x \in sent' : x \in sent \/ x.run <= runs
    BY <2>1, <2>2, <1>4
  <2> QED  BY <1>1, <2>1, <2>2, <2>3, TakenKeeps
<1> QED  BY <1>1, <1>5, <1>6, <1>7, <1>8, <1>9, SilentKeeps DEF IInv

LEMMA RecordFailureKeeps == ASSUME IInv, RecordFailure PROVE IInv'
<1> DEFINE e == Entry("failed")
<1>1. /\ pc = "fail" /\ Silent /\ UNCHANGED <<inputs, appends, runs, foreign>>
      /\ faults' \in 0 .. MaxFaults
  BY BoundAssumption DEF RecordFailure, Fault, Ended, IInv, TypeOK
<1>2. e \in Entries /\ Ready({e}) = {} /\ e \notin taken
  BY <1>1, EntryType, EntrySets
<1>3. /\ log' \in Leftovers(log, e) \cup {Appended(log, e)}
      /\ \/ Ended
         \/ /\ pc' = "next" /\ failed' = failed \cup {target}
            /\ UNCHANGED <<job, fetching, pacing>>
  BY DEF RecordFailure
<1> HIDE DEF e
<1>4. /\ LogBacked' /\ log' \in Seq([entry : Entries, part : Parts])
  <2>1. sent' = sent \cup Ready({e}) /\ acked' = acked /\ taken' = taken
    BY <1>1, <1>2 DEF appends
  <2> QED  BY <2>1, <1>2, <1>3, AppendKeeps
<1>5. CASE Ended
  <2>1. TypeOK'
    BY <1>1, <1>4, <1>5, EndedKeeps, SilentKeeps DEF IInv, TypeOK, inputs, appends
  <2>2. Taken'
    BY <1>1, <1>5, EndedKeeps, TakenKeeps DEF appends
  <2> QED  BY <1>1, <1>4, <1>5, <2>1, <2>2, EndedKeeps, SilentKeeps DEF IInv
<1>6. CASE /\ pc' = "next" /\ failed' = failed \cup {target}
           /\ UNCHANGED <<job, fetching, pacing>>
  <2>1. target \in DocumentIds
    BY <1>1 DEF IInv, Accounted, InHand
  <2>2. TypeOK'
    BY <1>1, <1>4, <1>6, <2>1, SilentKeeps
    DEF IInv, TypeOK, inputs, fetching, pacing, appends
  <2>3. Accounted' /\ Taken'
    <3>1. Kept' = Kept
      BY <1>1 DEF Kept, appends
    <3>2. Taken'
      BY <1>1, TakenKeeps DEF appends
    <3> QED  BY <1>1, <1>6, <3>1, <3>2 DEF IInv, Accounted, InHand, Fetching, fetching
  <2>4. Paced' /\ BackedOff'
    BY <1>1, <1>6, NoAttempt DEF IInv, Paced, BackedOff, pacing, fetching
  <2> QED  BY <1>1, <1>4, <2>2, <2>3, <2>4, SilentKeeps DEF IInv
<1> QED  BY <1>3, <1>5, <1>6

LEMMA KillKeeps == ASSUME IInv, Kill PROVE IInv'
<1>1. /\ Ended /\ Silent /\ faults' \in 0 .. MaxFaults
      /\ UNCHANGED <<inputs, acked, taken, runs, foreign>>
  BY BoundAssumption DEF Kill, Fault, IInv, TypeOK
<1>2. /\ LogBacked' /\ log' \in Seq([entry : Entries, part : Parts])
      /\ sent' \subseteq Ready(Entries) /\ Taken'
  <2>1. CASE pc = "seal" /\ log' \in Leftovers(log, Entry("ready"))
             /\ sent' = sent \cup {Entry("ready")}
    <3>1. /\ LogBacked' /\ log' \in Seq([entry : Entries, part : Parts])
          /\ sent' \subseteq Ready(Entries)
      BY <1>1, <2>1, EntryType, EntrySets, AppendKeeps
    <3>2. Entry("ready").run = runs /\ runs \in Nat
      BY DEF Entry, IInv, TypeOK
    <3>3. \A x \in sent' : x \in sent \/ x.run <= runs
      BY <2>1, <3>2
    <3>4. runs' = runs /\ taken' = taken /\ pc' = "idle"
      BY <1>1, EndedKeeps
    <3> QED  BY <3>1, <3>3, <3>4, TakenKeeps
  <2>2. CASE pc = "fail" /\ log' \in Leftovers(log, Entry("failed"))
             /\ sent' = sent
    <3>1. /\ Entry("failed") \in Entries /\ Ready({Entry("failed")}) = {}
          /\ Entry("failed") \notin taken
      BY <2>2, EntryType, EntrySets
    <3>2. /\ LogBacked' /\ log' \in Seq([entry : Entries, part : Parts])
          /\ sent' \subseteq Ready(Entries)
      BY <1>1, <2>2, <3>1, AppendKeeps
    <3> QED  BY <1>1, <2>2, <3>2, EndedKeeps, TakenKeeps
  <2>3. CASE UNCHANGED <<log, sent>>
    <3>1. LogBacked'
      BY <1>1, <2>3, LogKeeps DEF appends
    <3> QED  BY <1>1, <2>3, <3>1, EndedKeeps, TakenKeeps DEF IInv, TypeOK
  <2> QED  BY <2>1, <2>2, <2>3 DEF Kill
<1>3. TypeOK'
  BY <1>1, <1>2, EndedKeeps, SilentKeeps DEF IInv, TypeOK, inputs
<1> QED  BY <1>1, <1>2, <1>3, EndedKeeps, SilentKeeps DEF IInv

\* What is lost with the tail of the manifest is taken, the rest still stands.
LEMMA PowerLossKeeps == ASSUME IInv, PowerLoss PROVE IInv'
<1>1. /\ Ended /\ Silent /\ faults' \in 0 .. MaxFaults
      /\ log' \in Truncations(log)
      /\ taken' = {e \in acked : ~Holds(log', e)}
      /\ sent' = sent /\ acked' = acked
      /\ UNCHANGED <<inputs, runs, foreign>>
  BY BoundAssumption DEF PowerLoss, Fault, IInv, TypeOK
<1>2. log \in Seq(ChunkType)
  BY DEF IInv, TypeOK, ChunkType
<1>3. /\ log' \in Seq(ChunkType)
      /\ \A i \in DOMAIN log' : i \in DOMAIN log /\ log'[i].entry = log[i].entry
  BY <1>1, <1>2, TruncationForms
<1>4. LogBacked'
  <2>1. \A e \in acked' \ taken' : Holds(log', e)
    BY <1>1
  <2>2. \A e \in taken' : ~Holds(log', e)
    BY <1>1
  <2>3. acked' \subseteq sent'
    BY <1>1 DEF IInv, LogBacked
  <2>4. \A i \in DOMAIN log' : log'[i].entry.phase = "ready" => log'[i].entry \in sent'
    BY <1>1, <1>3 DEF IInv, LogBacked
  <2> QED  BY <2>1, <2>2, <2>3, <2>4 DEF LogBacked, Kept, Holds
<1>5. TypeOK'
  BY <1>1, <1>3, EndedKeeps, SilentKeeps DEF IInv, TypeOK, inputs, ChunkType
<1>6. Taken'
  BY <1>1, EndedKeeps DEF IInv, Taken
<1> QED  BY <1>1, <1>4, <1>5, <1>6, EndedKeeps, SilentKeeps DEF IInv

LEMMA ForeignAppendKeeps == ASSUME IInv, ForeignAppend PROVE IInv'
<1>1. PICK e \in ForeignEntries :
        /\ log' = Appended(log, e) /\ sent' = sent \cup Ready({e})
        /\ acked' = acked \cup Ready({e}) /\ taken' = taken \ {e}
  BY DEF ForeignAppend
<1>2. /\ Silent /\ foreign' \in 0 .. MaxForeign
      /\ UNCHANGED <<inputs, pc, job, fetching, pacing, failed, runs, faults>>
  BY BoundAssumption DEF ForeignAppend, IInv, TypeOK
<1>3. e \in Entries /\ e.run = 0
  BY ForeignAssumption
<1>4. /\ LogBacked' /\ log' \in Seq([entry : Entries, part : Parts])
      /\ sent' \subseteq Ready(Entries) /\ acked' \subseteq Ready(Entries)
      /\ taken' \subseteq acked' /\ Kept \subseteq Kept'
  BY <1>1, <1>3, AppendKeeps
<1>5. TypeOK'
  BY <1>2, <1>4, SilentKeeps DEF IInv, TypeOK, inputs, fetching, pacing
<1>6. Accounted'
  BY <1>4, <1>2 DEF IInv, Accounted, InHand, Fetching, fetching
<1>7. Paced' /\ BackedOff'
  <2>1. Paced'
    BY <1>2 DEF IInv, Paced, pacing
  <2>2. BackedOff'
    BY <1>2 DEF IInv, BackedOff, Backoff, Fetching, pacing, fetching
  <2> QED  BY <2>1, <2>2
<1>8. Taken'
  <2>1. runs \in Nat /\ Ready({e}) \subseteq {e}
    BY DEF IInv, TypeOK, Ready
  <2>2. \A x \in sent' : x \in sent \/ x.run <= runs
    BY <1>1, <1>3, <2>1
  <2> QED  BY <1>1, <1>2, <2>2, TakenKeeps
<1> QED  BY <1>2, <1>4, <1>5, <1>6, <1>7, <1>8, SilentKeeps DEF IInv

LEMMA StutterKeeps == ASSUME IInv, UNCHANGED vars PROVE IInv'
<1>1. /\ UNCHANGED <<inputs, log, pc, job, fetching, pacing, failed, appends,
                     runs, foreign, faults>>
      /\ summary' = summary /\ report' = report /\ verdict' = verdict
  BY DEF vars, answers
<1>2. ReportsTrue'
  BY <1>1 DEF IInv, ReportsTrue, TargetsOf, Kept, appends
<1> QED  BY <1>1, <1>2, QuietKeeps DEF IInv, TypeOK

\* Every step keeps the invariant.
LEMMA Preservation == IInv /\ [Next]_vars => IInv'
<1> SUFFICES ASSUME IInv, [Next]_vars PROVE IInv'
  OBVIOUS
<1>1. CASE EditInputs
  BY <1>1, EditInputsKeeps
<1>2. ASSUME NEW w \in Windows, StartCollect(w) \/ CatchUp(w) \/ Verify(w)
      PROVE  IInv'
  BY <1>2, StartCollectKeeps, CatchUpKeeps, VerifyKeeps
<1>3. CASE Step
  BY <1>3, NextTargetKeeps, FinishKeeps, RespectRateLimitKeeps, RequestKeeps,
     SealKeeps, RecordFailureKeeps DEF Step
<1>4. CASE Kill \/ PowerLoss \/ ForeignAppend
  BY <1>4, KillKeeps, PowerLossKeeps, ForeignAppendKeeps
<1>5. CASE UNCHANGED vars
  BY <1>5, StutterKeeps
<1> QED  BY <1>1, <1>2, <1>3, <1>4, <1>5 DEF Next

-----------------------------------------------------------------------------
(* The theorems.                                                           *)

\* The inductive invariant holds in every reachable state.
THEOREM Invariance == Spec => []IInv
  BY Start, Preservation, PTL DEF Spec

\* The state has its types, and the retry and redirect loops stay within
\* their bounds (nport.py:348, http_fetch.py:75).
THEOREM TypeCorrect == Spec => []TypeOK
<1>1. IInv => TypeOK
  BY DEF IInv
<1> QED  BY <1>1, Invariance, PTL

\* A reader of the manifest gets an exception, or every reported entry that
\* no loss of power has cut off and no READY entry besides those that were
\* written (manifest.py:72-95).
THEOREM ManifestPromise == Spec => []ReadAllOrRefuse
<1>1. IInv => ReadAllOrRefuse
  BY Reading
<1> QED  BY <1>1, Invariance, PTL

\* A slot is taken by RespectRateLimit only.
LEMMA SlotTaken ==
    ASSUME IInv, [Next]_vars, reads' > reads
    PROVE  RespectRateLimit
<1>1. reads \in Nat
  BY DEF IInv, TypeOK
<1>2. ASSUME Ended PROVE FALSE
  BY <1>1, <1>2 DEF Ended
<1>3. ASSUME UNCHANGED reads PROVE FALSE
  BY <1>1, <1>3
<1>4. CASE EditInputs
  BY <1>3, <1>4 DEF EditInputs, pacing
<1>5. ASSUME NEW w, StartCollect(w) \/ CatchUp(w) \/ Verify(w) PROVE FALSE
  BY <1>3, <1>5 DEF StartCollect, CatchUp, Verify, pacing
<1>6. CASE NextTarget \/ Request \/ Seal
  BY <1>3, <1>6 DEF NextTarget, Request, Seal, pacing
<1>7. CASE Finish \/ RecordFailure
  BY <1>2, <1>3, <1>7 DEF Finish, RecordFailure, pacing
<1>8. CASE Kill \/ PowerLoss
  BY <1>2, <1>8 DEF Kill, PowerLoss
<1>9. CASE ForeignAppend
  BY <1>3, <1>9 DEF ForeignAppend, pacing
<1>10. CASE UNCHANGED vars
  BY <1>3, <1>10 DEF vars, pacing
<1> QED  BY <1>4, <1>5, <1>6, <1>7, <1>8, <1>9, <1>10 DEF Next, Step

\* The attempts of one process are an interval apart, less what the sleep
\* before the earlier one really lasted too long, and repeated after their
\* backoff, however long answers and sleeps take (nport.py:348-379).
THEOREM PolitePacing == Spec => PoliteFetch
<1> DEFINE polite ==
      reads' > reads =>
          /\ began' >= reads * Interval
          /\ reads > 0 => began' + overslept >= began + Interval
          /\ attempt > 0 => began' >= refusedAt + Backoff(attempt - 1)
<1>1. ASSUME IInv, [Next]_vars PROVE polite
  <2> SUFFICES ASSUME reads' > reads
      PROVE /\ began' >= reads * Interval
            /\ reads > 0 => began' + overslept >= began + Interval
            /\ attempt > 0 => began' >= refusedAt + Backoff(attempt - 1)
    OBVIOUS
  <2>1. RespectRateLimit
    BY <1>1, SlotTaken
  <2>2. /\ reads \in Nat /\ clock \in Nat /\ slot \in Nat /\ began \in Nat
        /\ overslept \in Nat /\ refusedAt \in Nat /\ Interval \in Nat
        /\ attempt \in 0 .. RetryCount
    BY <1>1, PaceAssumption DEF IInv, TypeOK
  <2>3. /\ began' = clock' /\ clock' \in Nat /\ clock' >= slot /\ clock' >= clock
        /\ slot >= reads * Interval
        /\ reads > 0 => slot + overslept >= began + Interval
    BY <1>1, <2>1, SlotForms
  <2>4. began' >= reads * Interval
    BY <2>2, <2>3, OneMore
  <2>5. ASSUME reads > 0 PROVE began' + overslept >= began + Interval
    <3>1. slot + overslept >= began + Interval /\ began' \in Nat /\ began' >= slot
      BY <2>3, <2>5
    <3> QED  BY <2>2, <3>1, SlotArithmetic
  <2>6. ASSUME attempt > 0 PROVE began' >= refusedAt + Backoff(attempt - 1)
    <3>1. clock >= refusedAt + Backoff(attempt - 1)
      BY <1>1, <2>6 DEF IInv, BackedOff
    <3>2. attempt - 1 \in 0 .. RetryCount
      BY <2>2, <2>6, PaceAssumption
    <3>3. Backoff(attempt - 1) \in Nat
      BY <3>2, BackoffType
    <3> QED  BY <3>1, <3>3, <2>2, <2>3
  <2> QED  BY <2>4, <2>5, <2>6
<1>2. IInv /\ [Next]_vars => [polite]_vars
  BY <1>1
<1> QED  BY <1>2, Invariance, PTL DEF Spec, PoliteFetch

\* What collect, catch-up and verify-collection print agrees with what was
\* recorded (collection.py:62-142, ingest_cli.py:134).
THEOREM TruthfulReports == Spec => []ReportsTrue
<1>1. IInv => ReportsTrue
  BY DEF IInv
<1> QED  BY <1>1, Invariance, PTL
=============================================================================
