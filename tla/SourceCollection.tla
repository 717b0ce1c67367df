-------------------------- MODULE SourceCollection --------------------------
(***************************************************************************)
(* mirae-ingest collect against a live source, and the two commands that   *)
(* read what it recorded: catch-up, and the manifest half of               *)
(* verify-collection.                                                      *)
(*                                                                         *)
(* collect fetches the selected targets one by one: requests are spaced,   *)
(* redirects are followed hop by hop, retriable statuses are repeated with *)
(* backoff.  It appends READY or FAILED for each target.  Appends fail and *)
(* processes die, so the manifest may end in part of a line; nobody        *)
(* repairs it.  Other processes (a second collect, a load) append to the   *)
(* same file.                                                              *)
(*                                                                         *)
(* Abstractions.  `clock' counts from the start of the process.  It moves  *)
(* only where the process sleeps or waits for an answer, by chosen delays. *)
(* What goes wrong in a request without an HTTP status (DNS, a refused or  *)
(* missing Location, a timeout) is one answer, "refused".  The files are   *)
(* whole and normalize as they do in BundlePipeline; versions of a         *)
(* document are not told apart.  Name_Bug is Name with one plausible       *)
(* mistake, never part of Spec.                                            *)
(***************************************************************************)
EXTENDS TargetPolicy, ManifestLog

CONSTANTS Configs,        \* target config files, by their digest
          RowsOf,         \* RowsOf[c]: the rows of file c
          Crosswalks,     \* crosswalk files, by their digest
          Windows,        \* --start, --end, --cutoff
          Interval,       \* spacing of requests
          RetryCount,     \* retry_count
          BackoffBase, BackoffMax,
          MAX_REDIRECTS,
          Delays,         \* how long an answer may take
          Oversleeps,     \* how much longer than asked a sleep may last
          MaxRuns,        \* bound: collects that are started
          ForeignEntries, \* what other processes append
          MaxForeign,     \* bound: how often they do
          MaxFaults,      \* bound: failed appends, kills, losses of power
          None            \* no target, no report, no distance

ASSUME ConfigAssumption == RowsOf \in [Configs -> Seq(Rows)]
ASSUME WindowAssumption == Windows \subseteq WindowBounds
ASSUME PaceAssumption ==
    /\ Interval \in Nat /\ RetryCount \in Nat /\ MAX_REDIRECTS \in Nat
    /\ BackoffBase \in Nat /\ BackoffMax \in Nat
    /\ Delays \subseteq Nat /\ Oversleeps \subseteq Nat
\* A fact of arithmetic; the provers used here know nothing of ^.
ASSUME PowerAssumption == \A k \in 0 .. RetryCount : 2 ^ k \in Nat
ASSUME BoundAssumption ==
    MaxRuns \in Nat /\ MaxForeign \in Nat /\ MaxFaults \in Nat

VARIABLES
    config,     \* the target config file now
    crosswalk,  \* the crosswalk file now
    log,        \* the manifest
    (* the collect process *)
    pc,
    job,        \* what the command was started with, and its open targets
    target,     \* the target being collected
    attempt,    \* of fetch
    hop,        \* redirects followed in this attempt
    clock,      \* seconds since the process started
    slot,       \* _next_request_at
    failed,     \* targets counted as failed
    (* what the last command printed, until something else happens *)
    summary,    \* collect
    report,     \* catch-up
    verdict,    \* verify-collection
    (* history *)
    reads,      \* slots taken by this process
    began,      \* when the last of them began
    overslept,  \* how much longer than asked the sleep before it lasted
    refusedAt,  \* when the last retriable status came
    sent,       \* READY entries some append was called with
    acked,      \* READY entries whose append returned
    taken,      \* those of them a loss of power has removed from the manifest
    runs, foreign, faults

fetching == <<target, attempt, hop>>
pacing == <<clock, slot, reads, began, overslept, refusedAt>>
inputs == <<config, crosswalk>>
answers == <<summary, report, verdict>>
appends == <<sent, acked, taken>>
vars == <<inputs, log, pc, job, fetching, pacing, failed, answers, appends, runs, foreign, faults>>

DocumentIds == UNION {Ids({RowsOf[c][i] : i \in DOMAIN RowsOf[c]}) : c \in Configs}

\* run 0 stands for other processes.
Entries == [run : 0 .. MaxRuns, target : DocumentIds, config : Configs,
            crosswalk : Crosswalks, phase : {"ready", "failed"}]

Jobs == [selected : SUBSET DocumentIds, todo : SUBSET DocumentIds,
         config : Configs, crosswalk : Crosswalks,
         refresh : BOOLEAN, strict : BOOLEAN]

Ready(entries) == {e \in entries : e.phase = "ready"}
TargetsOf(entries) == {e.target : e \in entries}

\* Reported as written, and not taken by a loss of power since.
Kept == acked \ taken

ASSUME NoneAssumption == None \notin Jobs
ASSUME ForeignAssumption == ForeignEntries \subseteq {e \in Entries : e.run = 0}

-----------------------------------------------------------------------------
(* The read-only commands.                                                 *)

Selected(w) == Ids(target_window(RowsOf[config], w))

Accepts(w) == LoadsConfig(RowsOf[config]) /\ Narrows(w)

\* Entries of every phase count.
catch_up_report_Bug(selected) ==
    LET manifest == read_manifest(log) IN
    [raised   |-> manifest.raised,
     selected |-> selected,
     missing  |-> selected \ TargetsOf(manifest.entries),
     known    |-> TargetsOf(Kept)]

\* Any READY entry will do, whatever its inputs; `known' is history.
catch_up_report(selected) ==
    LET manifest == read_manifest(log) IN
    [raised   |-> manifest.raised,
     selected |-> selected,
     missing  |-> selected \ TargetsOf(Ready(manifest.entries)),
     known    |-> TargetsOf(Kept)]

\* verify_collection: it must have been written under today's inputs.
verify_collection(selected) ==
    LET manifest == read_manifest(log)
        matching == {e \in Ready(manifest.entries) :
                        e.config = config /\ e.crosswalk = crosswalk}
    IN [accepted  |-> ~manifest.raised /\ selected \subseteq TargetsOf(matching),
        selected  |-> selected,
        config    |-> config,
        crosswalk |-> crosswalk]

-----------------------------------------------------------------------------
Init ==
    /\ config \in Configs /\ crosswalk \in Crosswalks
    /\ log = <<>>
    /\ pc = "idle" /\ job = None /\ target = None
    /\ attempt = 0 /\ hop = 0 /\ clock = 0 /\ slot = 0
    /\ failed = {}
    /\ summary = None /\ report = None /\ verdict = None
    /\ reads = 0 /\ began = 0 /\ overslept = 0 /\ refusedAt = 0
    /\ sent = {} /\ acked = {} /\ taken = {}
    /\ runs = 0 /\ foreign = 0 /\ faults = 0

-----------------------------------------------------------------------------
(* The operator.                                                           *)

Prints(s, r, v) == summary' = s /\ report' = r /\ verdict' = v
Silent == Prints(None, None, None)

\* A process that ends takes its memory with it.
Ended ==
    /\ pc' = "idle" /\ job' = None /\ failed' = {}
    /\ target' = None /\ attempt' = 0 /\ hop' = 0
    /\ clock' = 0 /\ slot' = 0
    /\ reads' = 0 /\ began' = 0 /\ overslept' = 0 /\ refusedAt' = 0

\* The inputs may be edited between two commands.
EditInputs ==
    /\ pc = "idle"
    /\ config' \in Configs /\ crosswalk' \in Crosswalks
    /\ Silent
    /\ UNCHANGED <<log, pc, job, fetching, pacing, failed, appends,
                   runs, foreign, faults>>

\* catch-up.
CatchUp(w) ==
    /\ pc = "idle"
    /\ Accepts(w)
    /\ Prints(None, catch_up_report(Selected(w)), None)
    /\ UNCHANGED <<inputs, log, pc, job, fetching, pacing, failed, appends,
                   runs, foreign, faults>>

\* verify-collection.
Verify(w) ==
    /\ pc = "idle"
    /\ Accepts(w)
    /\ Prints(None, None, verify_collection(Selected(w)))
    /\ UNCHANGED <<inputs, log, pc, job, fetching, pacing, failed, appends,
                   runs, foreign, faults>>

-----------------------------------------------------------------------------
(* collect.                                                                *)

\* A new process, with a clock and an adapter of its own.
StartCollect(w) ==
    /\ pc = "idle"
    /\ runs < MaxRuns
    /\ Accepts(w)
    /\ runs' = runs + 1
    /\ \E refresh, strict \in BOOLEAN :
          LET chosen == Ids(discover(target_window(RowsOf[config], w), w)) IN
          job' = [selected |-> chosen, todo |-> chosen, config |-> config,
                  crosswalk |-> crosswalk, refresh |-> refresh,
                  strict |-> strict]
    /\ pc' = "next"
    /\ Silent
    /\ UNCHANGED <<inputs, log, fetching, pacing, failed, appends, foreign,
                   faults>>

\* fetch refuses to touch the network without --refresh.
NextTarget ==
    /\ pc = "next"
    /\ \E t \in job.todo :
          /\ \A u \in job.todo : t <= u
          /\ target' = t
          /\ job' = [job EXCEPT !.todo = @ \ {t}]
    /\ pc' = IF job.refresh THEN "limit" ELSE "fail"
    /\ Silent
    /\ UNCHANGED <<inputs, log, attempt, hop, pacing, failed, appends,
                   runs, foreign, faults>>

\* The summary is printed and the process ends.
Finish ==
    /\ pc = "next"
    /\ job.todo = {}
    /\ Prints([run |-> runs, selected |-> job.selected, failed |-> failed,
               config |-> job.config, crosswalk |-> job.crosswalk], None, None)
    /\ Ended
    /\ UNCHANGED <<inputs, log, appends, runs, foreign, faults>>

Later(a, b) == IF a < b THEN b ELSE a

\* Nothing to wait for, or a sleep of at least the wait.
WaitForSlot ==
    \/ clock >= slot /\ overslept' = 0 /\ UNCHANGED clock
    \/ clock < slot /\ overslept' \in Oversleeps /\ clock' = slot + overslept'

\* The slot is taken, and the request of an attempt follows at once.
TakeSlot ==
    /\ pc = "limit"
    /\ WaitForSlot
    /\ pc' = "request"
    /\ reads' = reads + 1
    /\ began' = clock'
    /\ Silent
    /\ UNCHANGED <<inputs, log, job, fetching, refusedAt, failed, appends,
                   runs, foreign, faults>>

\* The next slot counted from the last one, not from now.
RespectRateLimit_Bursts ==
    TakeSlot /\ slot' = slot + Interval

\* A loop around the wait that never reads the clock again.
RespectRateLimit_Spins ==
    IF clock < slot THEN pc = "limit" /\ UNCHANGED vars
    ELSE RespectRateLimit_Bursts

\* now is the slot after a sleep, however long it was.
RespectRateLimit ==
    TakeSlot /\ slot' = Later(clock, slot) + Interval

MayFollow_Bug == hop <= MAX_REDIRECTS

\* Another hop is allowed.
MayFollow == hop < MAX_REDIRECTS

Backoff(k) ==
    IF BackoffBase * 2 ^ k < BackoffMax THEN BackoffBase * 2 ^ k ELSE BackoffMax

\* One request of read_with_validated_redirects, and what fetch makes of its
\* answer.  `attempt', `hop' and the history of the attempt end with the fetch.
Redirected ==
    /\ MayFollow
    /\ hop' = hop + 1
    /\ \E delay \in Delays : clock' = clock + delay
    /\ UNCHANGED <<pc, attempt, refusedAt>>

\* 429, 500, 502, 503 or 504.
Retried ==
    /\ attempt < RetryCount
    /\ attempt' = attempt + 1
    /\ hop' = 0
    /\ \E delay \in Delays, late \in Oversleeps :
          /\ refusedAt' = clock + delay
          /\ clock' = refusedAt' + Backoff(attempt) + late
    /\ pc' = "limit"

\* The payload; or any answer that ends the fetch with an exception: the last
\* retriable status, one redirect too many, another status, a refused hop, no
\* answer.
Answered ==
    /\ pc' \in {"seal", "fail"}
    /\ attempt' = 0 /\ hop' = 0 /\ refusedAt' = 0
    /\ \E delay \in Delays : clock' = clock + delay

Request ==
    /\ pc = "request"
    /\ Redirected \/ Retried \/ Answered
    /\ Silent
    /\ UNCHANGED <<inputs, log, job, target, slot, reads, began, overslept,
                   failed, appends, runs, foreign, faults>>

Entry(phase) ==
    [run |-> runs, target |-> target, config |-> job.config,
     crosswalk |-> job.crosswalk, phase |-> phase]

\* Something goes wrong once more.
Fault == faults < MaxFaults /\ faults' = faults + 1

\* normalize, and the READY entry; an append that fails counts as a failure.
Seal ==
    /\ pc = "seal"
    /\ \/ /\ log' = Appended(log, Entry("ready"))
          /\ sent' = sent \cup {Entry("ready")}
          /\ acked' = acked \cup {Entry("ready")}
          /\ taken' = taken \ {Entry("ready")}
          /\ pc' = "next"
          /\ UNCHANGED faults
       \/ /\ Fault
          /\ log' \in Leftovers(log, Entry("ready"))
          /\ sent' = sent \cup {Entry("ready")}
          /\ pc' = "fail"
          /\ UNCHANGED <<acked, taken>>
       \/ /\ pc' = "fail"
          /\ UNCHANGED <<log, appends, faults>>
    /\ Silent
    /\ UNCHANGED <<inputs, job, fetching, pacing, failed, runs, foreign>>

\* The FAILED entry.  Without --continue-on-error it is the last; its own
\* failure ends the command too.
RecordFailure ==
    /\ pc = "fail"
    /\ \/ /\ log' = Appended(log, Entry("failed"))
          /\ ~job.strict
          /\ pc' = "next"
          /\ failed' = failed \cup {target}
          /\ UNCHANGED <<job, fetching, pacing, faults>>
       \/ /\ log' = Appended(log, Entry("failed"))
          /\ job.strict
          /\ Ended
          /\ UNCHANGED faults
       \/ /\ Fault
          /\ log' \in Leftovers(log, Entry("failed"))
          /\ Ended
    /\ Silent
    /\ UNCHANGED <<inputs, appends, runs, foreign>>

Step == NextTarget \/ Finish \/ RespectRateLimit \/ Request \/ Seal
          \/ RecordFailure

-----------------------------------------------------------------------------
(* Faults and other processes.                                             *)

\* Death in an append leaves what a failed append leaves.
Kill ==
    /\ pc # "idle"
    /\ Fault
    /\ \/ pc = "seal" /\ log' \in Leftovers(log, Entry("ready"))
          /\ sent' = sent \cup {Entry("ready")}
       \/ pc = "fail" /\ log' \in Leftovers(log, Entry("failed"))
          /\ UNCHANGED sent
       \/ UNCHANGED <<log, sent>>
    /\ Ended
    /\ Silent
    /\ UNCHANGED <<inputs, acked, taken, runs, foreign>>

\* e stands in l as a whole object.
Holds(l, e) == \E i \in DOMAIN l : l[i].entry = e /\ l[i].part # "torn"

\* The tail of the manifest goes, entries that were reported with it.
PowerLoss ==
    /\ Fault
    /\ log' \in Truncations(log)
    /\ taken' = {e \in acked : ~Holds(log', e)}
    /\ Ended
    /\ Silent
    /\ UNCHANGED <<inputs, sent, acked, runs, foreign>>

\* Another collect's entry, or the LOADED entry of a load, which no reader
\* here looks at and which stands as a FAILED one.
ForeignAppend ==
    /\ foreign < MaxForeign
    /\ foreign' = foreign + 1
    /\ \E e \in ForeignEntries :
          /\ log' = Appended(log, e)
          /\ sent' = sent \cup Ready({e})
          /\ acked' = acked \cup Ready({e})
          /\ taken' = taken \ {e}
    /\ Silent
    /\ UNCHANGED <<inputs, pc, job, fetching, pacing, failed, runs,
                   faults>>

Next ==
    \/ EditInputs
    \/ \E w \in Windows : StartCollect(w) \/ CatchUp(w) \/ Verify(w)
    \/ Step
    \/ Kill \/ PowerLoss \/ ForeignAppend

\* A started process goes on: every request is answered or times out.
Spec == Init /\ [][Next]_vars /\ WF_vars(Step)
-----------------------------------------------------------------------------
(* Properties.                                                             *)

Summaries == [run : 0 .. MaxRuns, selected : SUBSET DocumentIds,
              failed : SUBSET DocumentIds, config : Configs,
              crosswalk : Crosswalks]
Reports == [raised : BOOLEAN, selected : SUBSET DocumentIds,
            missing : SUBSET DocumentIds, known : SUBSET DocumentIds]
Verdicts == [accepted : BOOLEAN, selected : SUBSET DocumentIds,
             config : Configs, crosswalk : Crosswalks]

\* Types of the state; within them the bounds of the retry and redirect loops
\* (nport.py:348, http_fetch.py:75).
TypeOK ==
    /\ config \in Configs /\ crosswalk \in Crosswalks
    /\ log \in Seq([entry : Entries, part : Parts])
    /\ pc \in {"idle", "next", "limit", "request", "seal", "fail"}
    /\ job \in Jobs \cup {None} /\ (job = None <=> pc = "idle")
    /\ target \in DocumentIds \cup {None}
    /\ attempt \in 0 .. RetryCount
    /\ hop \in 0 .. MAX_REDIRECTS
    /\ clock \in Nat /\ slot \in Nat
    /\ failed \subseteq DocumentIds
    /\ summary \in Summaries \cup {None}
    /\ report \in Reports \cup {None}
    /\ verdict \in Verdicts \cup {None}
    /\ reads \in Nat /\ began \in Nat /\ refusedAt \in Nat
    /\ overslept \in Nat
    /\ sent \subseteq Ready(Entries) /\ acked \subseteq Ready(Entries)
    /\ taken \subseteq acked
    /\ runs \in 0 .. MaxRuns /\ foreign \in 0 .. MaxForeign
    /\ faults \in 0 .. MaxFaults

\* Whatever failed appends, killed processes, lost power and other writers
\* have left in the manifest, a reader gets an exception, or every entry that
\* was reported as written and that no loss of power has cut off, and no other
\* READY entry than those somebody wrote.  So no damaged line hides an entry;
\* what disappears without an exception is a whole tail that was never synced
\* (manifest.py:72-95).
ReadAllOrRefuse ==
    LET manifest == read_manifest(log) IN
    ~manifest.raised =>
        /\ Kept \subseteq manifest.entries
        /\ Ready(manifest.entries) \subseteq sent \ taken

\* One slot is taken per attempt.  However long answers and sleeps take, a
\* process takes its n-th slot not before n - 1 intervals; a slot follows the
\* last after an interval, less what the sleep before the last lasted too
\* long, and no less; and a repeated attempt comes after the whole backoff.
\* The redirects within an attempt take no slot (nport.py:348-379).
PoliteFetch ==
    [][reads' > reads =>
          /\ began' >= reads * Interval
          /\ reads > 0 => began' + overslept >= began + Interval
          /\ attempt > 0 => began' >= refusedAt + Backoff(attempt - 1)]_vars

\* The adapters say that all requests of a process are an interval apart
\* (basket_kr.py:476, 671; nport.py:373).  Then a redirect would be followed
\* no sooner than an interval after the request that was redirected, and no
\* slot be taken sooner than an interval after the last.
RequestsSpaced ==
    [][/\ hop' > hop => clock' >= clock + Interval
       /\ reads' > reads /\ reads > 0 => began' >= began + Interval]_vars

\* The three answers an operator acts on agree with what happened: a collect
\* that ends has recorded as READY each target it does not count as failed;
\* catch-up calls ready only targets some collect sealed and missing none
\* whose sealing was reported and kept; a verified target was sealed under the
\* inputs it was verified for.  Nothing lost with the power counts as sealed
\* (collection.py:62-142, ingest_cli.py:134).
ReportsTrue ==
    /\ summary # None =>
          \A t \in summary.selected \ summary.failed :
              \E e \in Kept : /\ e.run = summary.run /\ e.target = t
                             /\ e.config = summary.config
                             /\ e.crosswalk = summary.crosswalk
    /\ report # None /\ ~report.raised =>
          /\ report.selected \ report.missing \subseteq TargetsOf(sent \ taken)
          /\ report.missing \cap report.known = {}
    /\ verdict # None /\ verdict.accepted =>
          \A t \in verdict.selected :
              \E e \in sent \ taken : /\ e.target = t
                                     /\ e.config = verdict.config
                                     /\ e.crosswalk = verdict.crosswalk

\* A collect ends, whatever the source answers.
CollectEnds == pc # "idle" ~> pc = "idle"

-----------------------------------------------------------------------------
(* The inductive invariant of the proofs.                                  *)

\* The manifest holds what was reported and kept, and no READY entry that was
\* not sent or that was taken.
LogBacked ==
    /\ acked \subseteq sent
    /\ \A e \in Kept : Holds(log, e)
    /\ \A e \in taken : ~Holds(log, e)
    /\ \A i \in DOMAIN log : log[i].entry.phase = "ready" => log[i].entry \in sent

\* A loss of power ends the run whose entries it takes.
Taken ==
    /\ \A e \in sent : e.run <= runs
    /\ pc # "idle" => \A e \in taken : e.run # runs

\* The next slot lies an interval behind the last, overslept time aside.
Paced ==
    /\ reads = 0 => slot = 0
    /\ reads > 0 => /\ slot >= reads * Interval
                    /\ slot + overslept >= began + Interval

Fetching == pc \in {"limit", "request"}
InHand == Fetching \/ pc \in {"seal", "fail"}

\* Every selected target is still open, in hand, counted as failed, or READY.
Accounted ==
    /\ pc # "idle" => \A t \in job.selected :
          \/ t \in job.todo
          \/ t = target /\ InHand
          \/ t \in failed
          \/ \E e \in Kept : /\ e.run = runs /\ e.target = t
                            /\ e.config = job.config
                            /\ e.crosswalk = job.crosswalk
    /\ InHand => target \in DocumentIds

\* A repeated attempt has its backoff behind it.
BackedOff ==
    attempt > 0 => Fetching /\ clock >= refusedAt + Backoff(attempt - 1)

IInv == TypeOK /\ LogBacked /\ Taken /\ Paced /\ Accounted /\ BackedOff /\ ReportsTrue
=============================================================================
