--------------------------- MODULE BundlePipeline ---------------------------
(***************************************************************************)
(* The commands of mirae-ingest on one source: `collect' (CollectionRunner)*)
(* fetches and normalizes targets and seals each artifact with a READY     *)
(* entry; `load' verifies the selected targets offline (verify_collection) *)
(* and loads exactly the records it verified, shard by shard.              *)
(*                                                                         *)
(* Several commands run at the same time on shared files and one shared    *)
(* manifest, and may die at any point.  Sources publish amendments, the    *)
(* operator changes the normalization inputs (target config, crosswalk),   *)
(* the normalizer's own code changes, and files on disk get edited or lost.*)
(*                                                                         *)
(* Abstractions.  Bytes are known by what they are: a raw content, a       *)
(* normalized content <<target, parsed, inputs, release, doc>> (the bytes  *)
(* its records were parsed from and the document id they carry, which come *)
(* from two reads of one file), or Junk, bytes that nobody published and   *)
(* that may or may not parse.  A content equals its SHA-256 digest, its    *)
(* size included, and so names its file in its target's directory.  The    *)
(* records file stands for the quarantine file next to it as well.  The    *)
(* manifest is three sets, one per kind of entry, without run ids and      *)
(* times.  Counters of the summary are left out.  Files are written in one *)
(* step: see ArtifactStore.                                                *)
(*                                                                         *)
(* Name_Bug is Name with one plausible mistake, never part of Spec.        *)
(***************************************************************************)
EXTENDS Integers, Sequences, FiniteSets

CONSTANTS Collectors, Loaders,  \* processes running collect, and load
          Targets,              \* reviewed targets, in repr() order
          Raws,                 \* raw documents, all targets
          Publishes,            \* Publishes[t]: documents t may serve
          Inputs,               \* (config digest, crosswalk digest) pairs
          Releases,             \* releases of the normalizer's code
          RowCount,             \* RowCount[<<b, i>>]: records b yields under i
          BatchSizes,           \* --batch-size
          Destinations,         \* graph databases a load may be pointed at
          SharedDocument,       \* TRUE: all versions of a target share one
                                \* document id (N-PORT accession); FALSE:
                                \* the id contains the raw digest (manager)
          MaxCollects, MaxLoads, MaxDamages   \* bounds

Junk == 0
Absent == -1
Bytes == Raws \cup {Junk}
RawNames == {x \in Targets \X Raws : x[2] \in Publishes[x[1]]}
Contents(t) == Publishes[t] \cup {Junk}
Doc(t, raw) == IF SharedDocument THEN <<t>> ELSE <<t, raw>>
DocIds == {Doc(t, b) : t \in Targets, b \in Bytes}
Norms == {n \in Targets \X Bytes \X Inputs \X Releases \X DocIds :
            /\ n[2] \in Contents(n[1])
            /\ \E b \in Contents(n[1]) : n[5] = Doc(n[1], b)}

ASSUME TargetsAssumption == Targets \subseteq Nat
ASSUME RawsAssumption == Raws \subseteq Nat \ {0}
ASSUME PublishesAssumption ==
    Publishes \in [Targets -> SUBSET Raws] /\ \A t \in Targets : Publishes[t] # {}
ASSUME CountAssumption == RowCount \in [Bytes \X Inputs -> Nat]
ASSUME BatchAssumption == BatchSizes \subseteq Nat \ {0}
ASSUME BoundAssumption ==
    SharedDocument \in BOOLEAN /\ MaxCollects \in Nat /\ MaxLoads \in Nat
                               /\ MaxDamages \in Nat

VARIABLES
    upstream,     \* upstream[t]: the document t serves now
    rawfile,      \* rawfile[<<t, r>>]: bytes under t's raw name r
    normfile,     \* normfile[n]: bytes under the normalized name n
    ready,        \* manifest: READY entries
    failed,       \* manifest: targets with FAILED entries
    loaded,       \* manifest: LOADED entries
    delivered,    \* rows committed: <<destination, normalized content, row>>
    collector,    \* one running collect per process
    loader,       \* one running load per process
    collects, loads, damages,  \* how often each has happened
    swaps         \* history: edits and losses of each raw file

files == <<rawfile, normfile>>
entries == <<ready, failed, loaded>>
counts == <<collects, loads, damages, swaps>>
vars == <<upstream, files, entries, delivered, collector, loader, counts>>

-----------------------------------------------------------------------------
\* Records a normalized content holds; edited bytes hold one.
Rows(n) == IF n = <<Junk>> THEN 1 ELSE RowCount[<<n[2], n[3]>>]
JunkNorm == <<Junk>>
Gone == <<>>

\* The check of records against a target, and of their number against the
\* one counted when `name' was published; edited bytes may pass it.
Carries(n, name, doc, t) ==
    n # JunkNorm => /\ Rows(n) = Rows(name)
                    /\ Rows(n) # 0 => n[1] = t /\ n[5] = doc

\* What normalizing untouched files of t yields.
Honest(t) == {<<t, b, i, v, Doc(t, b)>> :
                 b \in Publishes[t], i \in Inputs, v \in Releases}

\* READY entries: the identity of a normalization, and the evidence that
\* must agree when one identity is sealed twice (all of the entry).
Identity_NoInputs(e) == <<e.target, e.doc, e.raw>>
Identity(e) == <<e.target, e.doc, e.raw, e.inputs>>
Conflicting(S) == \E e, f \in S : Identity(e) = Identity(f) /\ e # f

IdleCollector == [pc |-> "idle", todo |-> {}, strict |-> FALSE, inputs |-> 0,
                  release |-> 0, target |-> 0, path |-> <<>>, raw |-> 0,
                  parsed |-> 0, norm |-> Gone]
IdleLoader == [pc |-> "idle", selected |-> {}, inputs |-> 0, batch |-> 1,
               dest |-> "none", todo |-> {}, evidence |-> {}, verified |-> <<>>,
               item |-> 1, offset |-> 0, verdict |-> "none"]

Init ==
    /\ upstream \in {u \in [Targets -> Raws] :
                        \A t \in Targets : u[t] \in Publishes[t]}
    /\ rawfile = [r \in RawNames |-> Absent]
    /\ normfile = [n \in Norms |-> Gone]
    /\ ready = {} /\ failed = {} /\ loaded = {}
    /\ delivered = {}
    /\ collector = [p \in Collectors |-> IdleCollector]
    /\ loader = [p \in Loaders |-> IdleLoader]
    /\ collects = 0 /\ loads = 0 /\ damages = 0
    /\ swaps = [r \in RawNames |-> 0]

-----------------------------------------------------------------------------
(* The world outside the program.                                          *)

Amend(t) == /\ \E r \in Publishes[t] \ {upstream[t]} :
                  upstream' = [upstream EXCEPT ![t] = r]
            /\ UNCHANGED <<files, entries, delivered, collector, loader,
                           counts>>

\* A stored file is edited or lost.
DamageRaw(r) == /\ damages < MaxDamages
                /\ rawfile[r] # Absent
                /\ \E bytes \in ({Junk, Absent} \cup Publishes[r[1]])
                                  \ {rawfile[r]} :
                      rawfile' = [rawfile EXCEPT ![r] = bytes]
                /\ damages' = damages + 1
                /\ swaps' = [swaps EXCEPT ![r] = @ + 1]
                /\ UNCHANGED <<upstream, normfile, entries, delivered,
                               collector, loader, collects, loads>>

\* Or overwritten with the records of another version of its target.
DamageNorm(n) == /\ damages < MaxDamages
                 /\ normfile[n] # Gone
                 /\ \E bytes \in ({JunkNorm, Gone} \cup Honest(n[1]))
                                   \ {normfile[n]} :
                       normfile' = [normfile EXCEPT ![n] = bytes]
                 /\ damages' = damages + 1
                 /\ UNCHANGED <<upstream, rawfile, entries, delivered,
                                collector, loader, collects, loads, swaps>>

-----------------------------------------------------------------------------
(* collect.                                                                *)

CollectorAt(p, pc) == collector[p].pc = pc

StartCollect(p) ==
    /\ CollectorAt(p, "idle")
    /\ collects < MaxCollects
    /\ collects' = collects + 1
    /\ \E found \in SUBSET Targets, i \in Inputs, v \in Releases,
          s \in BOOLEAN :
        collector' = [collector EXCEPT ![p] =
            [IdleCollector EXCEPT !.pc = "next", !.todo = found,
                !.inputs = i, !.release = v, !.strict = s]]
    /\ UNCHANGED <<upstream, files, entries, delivered, loader, loads,
                   damages, swaps>>

TakeTarget(p) ==
    /\ CollectorAt(p, "next")
    /\ \E t \in collector[p].todo :
        /\ \A u \in collector[p].todo : t <= u
        /\ collector' = [collector EXCEPT ![p].pc = "fetch",
                            ![p].todo = @ \ {t}, ![p].target = t]
    /\ UNCHANGED <<upstream, files, entries, delivered, loader, counts>>

\* adapter.fetch: an existing file under the payload's digest is kept as it
\* is, whatever it holds.
Fetch(p) ==
    /\ CollectorAt(p, "fetch")
    /\ LET t == collector[p].target
           r == <<t, upstream[t]>>
       IN
        /\ rawfile' = [rawfile EXCEPT ![r] =
                          IF @ = Absent THEN upstream[t] ELSE @]
        /\ collector' = [collector EXCEPT ![p].pc = "hash", ![p].path = r]
    /\ UNCHANGED <<upstream, normfile, entries, delivered, loader, counts>>

\* file_sha256(raw_path): the digest of the bytes on disk, not of the name.
Hash(p) ==
    /\ CollectorAt(p, "hash")
    /\ rawfile[collector[p].path] # Absent
    /\ collector' = [collector EXCEPT ![p].pc = "parse",
                        ![p].raw = rawfile[collector[p].path]]
    /\ UNCHANGED <<upstream, files, entries, delivered, loader, counts>>

\* adapter.normalize parses the raw file ...
Parse(p) ==
    /\ CollectorAt(p, "parse")
    /\ rawfile[collector[p].path] # Absent
    /\ collector' = [collector EXCEPT ![p].pc = "normalize",
                        ![p].parsed = rawfile[collector[p].path]]
    /\ UNCHANGED <<upstream, files, entries, delivered, loader, counts>>

\* The records name the digest the raw file had before it was parsed.
Output_HashedId(c) ==
    <<c.target, c.parsed, c.inputs, c.release, Doc(c.target, c.raw)>>

\* ... and, where the document id contains a digest, reads it once more for
\* that: what it parsed, under the id of what the file holds now.
Output(c) == <<c.target, c.parsed, c.inputs, c.release,
               Doc(c.target, rawfile[c.path])>>

\* The result is published under its digest; a name with other bytes is an
\* error.
Normalize(p) ==
    /\ CollectorAt(p, "normalize")
    /\ SharedDocument \/ rawfile[collector[p].path] # Absent
    /\ LET n == Output(collector[p])
       IN /\ normfile[n] \in {Gone, n}
          /\ normfile' = [normfile EXCEPT ![n] = n]
          /\ collector' = [collector EXCEPT ![p].pc = "validate", ![p].norm = n]
    /\ UNCHANGED <<upstream, rawfile, entries, delivered, loader, counts>>

\* The records are read back and checked against the target.
Validate(p) ==
    /\ CollectorAt(p, "validate")
    /\ LET c == collector[p] IN
        /\ normfile[c.norm] # Gone
        /\ Carries(normfile[c.norm], c.norm, Doc(c.target, c.raw), c.target)
    /\ collector' = [collector EXCEPT ![p].pc = "seal"]
    /\ UNCHANGED <<upstream, files, entries, delivered, loader, counts>>

Onward(c) == [IdleCollector EXCEPT !.pc = "next", !.todo = c.todo,
                !.strict = c.strict, !.inputs = c.inputs,
                !.release = c.release]

ReadyEntry_NamedId(c) ==
    [target |-> c.target, doc |-> Doc(c.target, c.path[2]), raw |-> c.raw,
     path |-> c.path, norm |-> normfile[c.norm], normpath |-> c.norm,
     inputs |-> c.inputs]

ReadyEntry(c) == [target |-> c.target, doc |-> Doc(c.target, c.raw),
                  raw |-> c.raw, path |-> c.path, norm |-> normfile[c.norm],
                  normpath |-> c.norm, inputs |-> c.inputs]

\* The READY entry carries the digest taken before parsing, and those of the
\* records as they are now.
Seal(p) ==
    /\ CollectorAt(p, "seal")
    /\ LET c == collector[p] IN
        /\ normfile[c.norm] # Gone
        /\ rawfile[c.path] # Absent
        /\ ready' = ready \cup {ReadyEntry(c)}
    /\ collector' = [collector EXCEPT ![p] = Onward(@)]
    /\ UNCHANGED <<upstream, files, failed, loaded, delivered, loader, counts>>

\* Any exception: FAILED is recorded, and the run goes on unless it is strict.
FailTarget(p) ==
    /\ collector[p].pc \in {"fetch", "hash", "parse", "normalize", "validate",
                            "seal"}
    /\ failed' = failed \cup {collector[p].target}
    /\ collector' = [collector EXCEPT ![p] =
          IF @.strict THEN IdleCollector ELSE Onward(@)]
    /\ UNCHANGED <<upstream, files, ready, loaded, delivered, loader, counts>>

\* The run ends, or the process dies.
StopCollect(p) ==
    /\ collector[p].pc # "idle"
    /\ collector' = [collector EXCEPT ![p] = IdleCollector]
    /\ UNCHANGED <<upstream, files, entries, delivered, loader, counts>>

-----------------------------------------------------------------------------
(* load: verify_collection, then the shard loop of _load.                  *)

LoaderAt(p, pc) == loader[p].pc = pc

StartLoad(p) ==
    /\ LoaderAt(p, "idle")
    /\ loads < MaxLoads
    /\ loads' = loads + 1
    /\ \E chosen \in SUBSET Targets, i \in Inputs, b \in BatchSizes,
          d \in Destinations :
        loader' = [loader EXCEPT ![p] =
            [IdleLoader EXCEPT !.pc = "evidence", !.selected = chosen,
                !.todo = chosen, !.inputs = i, !.batch = b, !.dest = d]]
    /\ UNCHANGED <<upstream, files, entries, delivered, collector, collects,
                   damages, swaps>>

\* The command ends with an error, before anything was written.
Refuse(p, verdict) ==
    loader' = [loader EXCEPT ![p] = [IdleLoader EXCEPT !.verdict = verdict]]

ReadManifest_NoConflicts(p) ==
    /\ LoaderAt(p, "evidence")
    /\ IF \E t \in loader[p].selected : \A e \in ready : e.target # t
         THEN Refuse(p, "missing")
         ELSE loader' = [loader EXCEPT ![p].pc = "verify",
                ![p].evidence = {e \in ready : /\ e.inputs = loader[p].inputs
                                               /\ e.target \in loader[p].selected}]
    /\ UNCHANGED <<upstream, files, entries, delivered, collector, counts>>

\* One pass over the manifest: conflicting evidence anywhere in it, or a
\* selected target without any READY entry, ends the command.
ReadManifest(p) ==
    /\ LoaderAt(p, "evidence")
    /\ IF Conflicting(ready) THEN Refuse(p, "conflict")
       ELSE IF \E t \in loader[p].selected : \A e \in ready : e.target # t
         THEN Refuse(p, "missing")
         ELSE loader' = [loader EXCEPT ![p].pc = "verify",
                ![p].evidence = {e \in ready : /\ e.inputs = loader[p].inputs
                                               /\ e.target \in loader[p].selected}]
    /\ UNCHANGED <<upstream, files, entries, delivered, collector, counts>>

\* The entry belongs to its target, and so do the records it seals.
Consistent(e) == /\ e.doc = Doc(e.target, e.raw)
                 /\ Carries(e.norm, e.normpath, e.doc, e.target)

\* The files of a READY entry still hold the bytes it names.
Intact(e) == /\ rawfile[e.path] = e.raw
             /\ normfile[e.normpath] = e.norm
             /\ Consistent(e)

VerifyTarget_SkipsBad(p) ==
    /\ LoaderAt(p, "verify")
    /\ \E t \in loader[p].todo :
        LET left == {e \in loader[p].evidence : e.target = t} IN
        IF \E e \in left : Intact(e)
          THEN \E e \in left :
                 /\ Intact(e)
                 /\ loader' = [loader EXCEPT ![p].verified = Append(@, e),
                        ![p].todo = @ \ {t}]
          ELSE loader' = [loader EXCEPT ![p].todo = @ \ {t}]
    /\ UNCHANGED <<upstream, files, entries, delivered, collector, counts>>

\* The next target in order: its entries are checked one after the other (in
\* the order of document id and digest) and their records kept in memory.
VerifyTarget(p) ==
    /\ LoaderAt(p, "verify")
    /\ \E t \in loader[p].todo :
        /\ \A u \in loader[p].todo : t <= u
        /\ LET left == {e \in loader[p].evidence : e.target = t} IN
           \/ left = {} /\ Refuse(p, "mismatch")
           \/ \E e \in left :
                IF Intact(e)
                  THEN loader' = [loader EXCEPT
                         ![p].verified = Append(@, e),
                         ![p].evidence = @ \ {e},
                         ![p].todo = IF left = {e} THEN @ \ {t} ELSE @]
                  ELSE Refuse(p, "damaged")
    /\ UNCHANGED <<upstream, files, entries, delivered, collector, counts>>

\* Every selected target is verified: the driver is opened.
BeginLoad(p) ==
    /\ LoaderAt(p, "verify")
    /\ loader[p].todo = {}
    /\ loader' = [loader EXCEPT ![p].pc = "load"]
    /\ UNCHANGED <<upstream, files, entries, delivered, collector, counts>>

\* The shard at the cursor of p.
MoreItems(p) == loader[p].item <= Len(loader[p].verified)
Current(p) == loader[p].verified[loader[p].item]
Held(p) == Rows(Current(p).norm)
End(p) == IF loader[p].offset + loader[p].batch < Held(p)
            THEN loader[p].offset + loader[p].batch ELSE Held(p)
ShardId_NoEnd(p) ==
    [inputs |-> Current(p).inputs, norm |-> Current(p).norm,
     start |-> loader[p].offset, end |-> Held(p)]
ShardId(p) ==
    [inputs |-> Current(p).inputs, norm |-> Current(p).norm,
     start |-> loader[p].offset, end |-> End(p)]

Advanced_NoReset(p) ==
    IF End(p) < Held(p)
      THEN [loader[p] EXCEPT !.pc = "load", !.offset = End(p)]
      ELSE [loader[p] EXCEPT !.pc = "load", !.item = @ + 1]

\* The next shard of this item, or the next item.
Advanced(p) == IF End(p) < Held(p)
                 THEN [loader[p] EXCEPT !.pc = "load", !.offset = End(p)]
                 ELSE [loader[p] EXCEPT !.pc = "load", !.item = @ + 1,
                                        !.offset = 0]

\* is_loaded: an entry for this shard, of whatever destination.
IsLoaded(id) == \E a \in loaded : a.id = id

CheckShard_MarksFirst(p) ==
    /\ LoaderAt(p, "load") /\ MoreItems(p)
    /\ loader' = [loader EXCEPT ![p] =
         IF Held(p) = 0 \/ IsLoaded(ShardId(p))
           THEN Advanced(p) ELSE [@ EXCEPT !.pc = "mark"]]
    /\ UNCHANGED <<upstream, files, entries, delivered, collector, counts>>

CheckShard(p) ==
    /\ LoaderAt(p, "load")
    /\ MoreItems(p)
    /\ loader' = [loader EXCEPT ![p] =
         IF Held(p) = 0 \/ IsLoaded(ShardId(p))
           THEN Advanced(p) ELSE [@ EXCEPT !.pc = "sink"]]
    /\ UNCHANGED <<upstream, files, entries, delivered, collector, counts>>

SinkLoad_Reread(p) ==
    /\ LoaderAt(p, "sink")
    /\ delivered' = delivered \cup
         {<<loader[p].dest, normfile[Current(p).normpath], i>> :
             i \in loader[p].offset + 1 .. End(p)}
    /\ loader' = [loader EXCEPT ![p].pc = "mark"]
    /\ UNCHANGED <<upstream, files, entries, collector, counts>>

\* One transaction with the verified records, taken from memory.
SinkLoad(p) ==
    /\ LoaderAt(p, "sink")
    /\ delivered' = delivered \cup
         {<<loader[p].dest, Current(p).norm, i>> :
             i \in loader[p].offset + 1 .. End(p)}
    /\ loader' = [loader EXCEPT ![p].pc = "mark"]
    /\ UNCHANGED <<upstream, files, entries, collector, counts>>

MarkLoaded(p) ==
    /\ LoaderAt(p, "mark")
    /\ loaded' = loaded \cup
         {[id |-> ShardId(p), target |-> Current(p).target,
           doc |-> Current(p).doc, raw |-> Current(p).raw]}
    /\ loader' = [loader EXCEPT ![p] = Advanced(p)]
    /\ UNCHANGED <<upstream, files, ready, failed, delivered, collector,
                   counts>>

\* The command reports its counts and exits with 0.
Report(p) ==
    /\ LoaderAt(p, "load")
    /\ ~MoreItems(p)
    /\ loader' = [loader EXCEPT ![p].pc = "idle", ![p].verdict = "loaded"]
    /\ UNCHANGED <<upstream, files, entries, delivered, collector, counts>>

\* Any other error, or the process dies.
AbortLoad(p) ==
    /\ loader[p].pc # "idle"
    /\ loader' = [loader EXCEPT ![p] = IdleLoader]
    /\ UNCHANGED <<upstream, files, entries, delivered, collector, counts>>

World == \/ \E t \in Targets : Amend(t)
         \/ \E r \in RawNames : DamageRaw(r)
         \/ \E n \in Norms : DamageNorm(n)

Collect(p) == \/ StartCollect(p) \/ TakeTarget(p) \/ Fetch(p) \/ Hash(p)
              \/ Parse(p) \/ Normalize(p) \/ Validate(p) \/ Seal(p)
              \/ FailTarget(p) \/ StopCollect(p)

Load(p) == \/ StartLoad(p) \/ ReadManifest(p) \/ VerifyTarget(p)
           \/ BeginLoad(p) \/ CheckShard(p) \/ SinkLoad(p) \/ MarkLoaded(p)
           \/ Report(p) \/ AbortLoad(p)

Next == \/ World
        \/ \E p \in Collectors : Collect(p)
        \/ \E p \in Loaders : Load(p)

Spec == Init /\ [][Next]_vars
-----------------------------------------------------------------------------
(* Properties.                                                             *)

Sealing == {"validate", "seal"}
Parsed == {"normalize"} \cup Sealing
Hashed == {"parse"} \cup Parsed
Fetched == {"hash"} \cup Hashed

CollectorType ==
    [pc : {"idle", "next", "fetch"} \cup Fetched,
     todo : SUBSET Targets, strict : BOOLEAN, inputs : Inputs \cup {0},
     release : Releases \cup {0}, target : Targets \cup {0},
     path : RawNames \cup {<<>>}, raw : Bytes, parsed : Bytes,
     norm : Norms \cup {Gone}]

CollectorOK(c) ==
    /\ c \in CollectorType
    /\ c.pc # "idle" => c.inputs \in Inputs /\ c.release \in Releases
    /\ c.pc \in {"fetch"} \cup Fetched => c.target \in Targets
    /\ c.pc \in Fetched => \E r \in Publishes[c.target] : c.path = <<c.target, r>>
    /\ c.pc \in Hashed => c.raw \in Contents(c.target)
    /\ c.pc \in Parsed => c.parsed \in Contents(c.target)
    /\ c.pc \in Sealing => c.norm \in Norms

EntryType ==
    [target : Targets, doc : DocIds,
     raw : Bytes, path : RawNames, norm : Norms \cup {JunkNorm},
     normpath : Norms, inputs : Inputs]

LoaderType ==
    [pc : {"idle", "evidence", "verify", "load", "sink", "mark"},
     selected : SUBSET Targets, inputs : Inputs \cup {0},
     batch : BatchSizes \cup {1}, dest : Destinations \cup {"none"},
     todo : SUBSET Targets, evidence : SUBSET ready, verified : Seq(ready),
     item : Nat \ {0}, offset : Nat,
     verdict : {"none", "conflict", "missing", "mismatch", "damaged", "loaded"}]

\* Types; of a READY entry, that its document id is the one of its target and
\* raw digest; of a loader, that it only holds entries of the manifest.
TypeOK ==
    /\ upstream \in [Targets -> Raws]
    /\ \A t \in Targets : upstream[t] \in Publishes[t]
    /\ rawfile \in [RawNames -> Bytes \cup {Absent}]
    /\ \A r \in RawNames : rawfile[r] \in Contents(r[1]) \cup {Absent}
    /\ normfile \in [Norms -> Norms \cup {JunkNorm, Gone}]
    /\ ready \subseteq EntryType
    /\ \A e \in ready : e.doc = Doc(e.target, e.raw)
    /\ failed \subseteq Targets
    /\ DOMAIN collector = Collectors
    /\ \A p \in Collectors : CollectorOK(collector[p])
    /\ loader \in [Loaders -> LoaderType]
    /\ collects \in Nat /\ loads \in Nat /\ damages \in Nat
    /\ swaps \in [RawNames -> Nat]

\* Whatever is edited on disk after it was sealed, a database only ever
\* receives records some READY entry attests, byte for byte: _load sends the
\* records verify_collection parsed, and never opens the file again.
OnlyAttestedDelivered ==
    \A row \in delivered : \E e \in ready :
        e.norm = row[2] /\ row[3] \in 1 .. Rows(e.norm)

\* Nothing is written before every selected target has passed verification:
\* a bundle with one bad, missing or mismatching target is refused whole.
WholeBundleFirst ==
    \A p \in Loaders : loader[p].pc \in {"load", "sink", "mark"} =>
        \A t \in loader[p].selected :
            \E k \in DOMAIN loader[p].verified :
                /\ loader[p].verified[k].target = t
                /\ loader[p].verified[k].inputs = loader[p].inputs

\* The identity a LOADED entry was verified under.
SealedAs(a) == <<a.target, a.doc, a.raw, a.id.inputs>>

\* One document version under one set of inputs reaches the databases in one
\* normalization only, even when releases of the normalizer disagree and
\* loads overlap: the second READY entry blocks verification for good.
OneNormalization ==
    \A a, b \in loaded :
        SealedAs(a) = SealedAs(b) => a.id.norm = b.id.norm

\* Records that a READY entry seals, and that carry its document id, were
\* made from the raw bytes it names, although normalize opens the raw file
\* twice after it was hashed: one edit or loss of the file never mislabels
\* records.  It takes two, the second between parsing and the second digest
\* (manager sources only; basket_kr.py:527, 542).
LineageTrue ==
    \A e \in ready :
        e.norm \in Norms /\ Rows(e.norm) # 0 /\ Consistent(e) =>
            e.norm[2] = e.raw \/ swaps[e.path] > 1

\* Two releases of the normalizer sealed different records of one document
\* version under one set of inputs.
ReleasesDisagree ==
    \E e, f \in ready :
        /\ e.target = f.target /\ e.doc = f.doc
        /\ e.raw = f.raw /\ e.inputs = f.inputs
        /\ e.norm[4] # f.norm[4]

\* Verification fails for a cause only: damage for a file that was edited or
\* lost, a conflict for that or for releases that disagree.  Collecting again,
\* amending a document or changing the crosswalk and back never invalidates a
\* sealed artifact (README 262-266).
RefusedForCause ==
    damages = 0 =>
        \A p \in Loaders :
            /\ loader[p].verdict # "damaged"
            /\ loader[p].verdict = "conflict" => ReleasesDisagree

\* Every READY entry a load has accepted, and not yet forgotten.
Accepted(l) == l.evidence \cup {l.verified[k] : k \in DOMAIN l.verified}

\* How far verification has come.
Progress(l) ==
    /\ l.pc = "evidence" => l.todo = l.selected /\ l.verified = << >>
    /\ l.pc \in {"verify", "load", "sink", "mark"} =>
        /\ \A e \in Accepted(l) : e.inputs = l.inputs
        /\ \A t \in l.selected \ l.todo :
             \E k \in DOMAIN l.verified : l.verified[k].target = t
    /\ l.pc \in {"load", "sink", "mark"} => l.todo = {}
    /\ l.pc \in {"sink", "mark"} => l.item <= Len(l.verified)

\* Loads that overlap agree on what they have accepted and loaded.
Agreement ==
    /\ \A p, q \in Loaders : \A e \in Accepted(loader[p]),
                                f \in Accepted(loader[q]) :
          Identity(e) = Identity(f) => e = f
    /\ \A p \in Loaders : \A e \in Accepted(loader[p]), a \in loaded :
          Identity(e) = SealedAs(a) => e.norm = a.id.norm

\* Whatever was loaded is still attested by the manifest.
LoadedAttested ==
    \A a \in loaded : \E e \in ready :
        Identity(e) = SealedAs(a) /\ e.norm = a.id.norm

\* The inductive invariant.
IInv ==
    /\ TypeOK
    /\ \A p \in Loaders : Progress(loader[p])
    /\ OnlyAttestedDelivered
    /\ OneNormalization
    /\ Agreement
    /\ LoadedAttested

\* A load that exits with 0 has delivered every record of every version it
\* verified to the database it was pointed at.
LoadDelivers ==
    [][\A p \in Loaders :
          loader[p].pc = "load" /\ loader'[p].verdict = "loaded" =>
            \A k \in DOMAIN loader[p].verified :
              LET n == loader[p].verified[k].norm IN
              \A i \in 1 .. Rows(n) : <<loader[p].dest, n, i>> \in delivered]_vars

\* What these rest on.  As long as no file is touched, names tell contents: a collector has in hand
\* what its files hold, and every READY entry still describes its files.
Named(c) == <<c.target, c.raw, c.inputs, c.release, Doc(c.target, c.raw)>>
InHand(c) ==
    /\ c.pc \in Hashed => c.raw = c.path[2] /\ rawfile[c.path] = c.raw
    /\ c.pc \in Parsed => c.parsed = c.raw
    /\ c.pc \in Sealing => c.norm = Named(c) /\ normfile[c.norm] = c.norm
Described(e) ==
    /\ e.path = <<e.target, e.raw>> /\ rawfile[e.path] = e.raw
    /\ \E v \in Releases :
          e.normpath = <<e.target, e.raw, e.inputs, v, Doc(e.target, e.raw)>>
    /\ e.norm = e.normpath /\ normfile[e.normpath] = e.norm
Pristine ==
    damages = 0 =>
        /\ \A r \in RawNames : rawfile[r] \in {Absent, r[2]}
        /\ \A n \in Norms : normfile[n] \in {Gone, n}
        /\ \A p \in Collectors : InHand(collector[p])
        /\ \A e \in ready : Described(e)
        /\ RefusedForCause

\* With one destination, a LOADED entry's rows are there, and so is everything
\* before a loader's cursor.
Holds(d, n, first, last) == \A i \in first .. last : <<d, n, i>> \in delivered
LoadedBacked ==
    \A a \in loaded, d \in Destinations :
        Holds(d, a.id.norm, a.id.start + 1, a.id.end)
CursorBacked(p) ==
    LET l == loader[p] IN
    /\ l.pc # "idle" => l.verdict = "none" /\ l.dest \in Destinations
    /\ l.pc \in {"evidence", "verify"} => l.item = 1 /\ l.offset = 0
    /\ l.pc \in {"load", "sink", "mark"} =>
         \A k \in DOMAIN l.verified :
           LET n == l.verified[k].norm IN
           /\ k < l.item => Holds(l.dest, n, 1, Rows(n))
           /\ k = l.item => Holds(l.dest, n, 1, l.offset)
    /\ l.pc = "mark" => Holds(l.dest, Current(p).norm, 1, End(p))

OutcomeInv == /\ Pristine /\ LoadedBacked
              /\ \A p \in Loaders : CursorBacked(p)

\* The load command against the same promise as the older runner: a LOADED
\* entry names no database, so it is a receipt for its rows in each of them.
CoverOf(a) == {<<d, a.id.norm, i>> :
                 d \in Destinations, i \in a.id.start + 1 .. a.id.end}
Records == Destinations \X (Norms \cup {JunkNorm}) \X Nat
Ledger == INSTANCE ReceiptLedger
            WITH Deliverable <- Records,
                 Cover <- CoverOf,
                 delivered <- delivered,
                 receipts <- loaded

\* With one destination, load keeps the ledger's promise, whatever the batch
\* sizes, overlapping loads and aborts between the transaction and the entry.
ImplementsLedger == Ledger!Spec
=============================================================================
