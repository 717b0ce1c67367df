------------------------ MODULE BundlePipelineProofs ------------------------
(***************************************************************************)
(* Proofs about BundlePipeline for any number of commands, targets,        *)
(* documents, inputs and releases.                                         *)
(***************************************************************************)
EXTENDS BundlePipeline, TLAPS

-----------------------------------------------------------------------------
(* Data.                                                                   *)

\* The record count of whatever an entry seals is a number.
LEMMA RowsNat ==
  ASSUME NEW n \in Norms \cup {JunkNorm}
  PROVE  Rows(n) \in Nat
  <1>1. CASE n = JunkNorm
    BY <1>1 DEF Rows, JunkNorm
  <1>2. CASE n \in Norms
    <2>1. <<n[2], n[3]>> \in Bytes \X Inputs
      BY <1>2 DEF Norms
    <2> QED
      BY <2>1, CountAssumption DEF Rows
  <1> QED
    BY <1>1, <1>2

\* A loader that holds manifest entries still does when the manifest grows.
LEMMA LoaderTypeGrows ==
  ASSUME ready \subseteq ready', NEW l \in LoaderType
  PROVE  l \in LoaderType'
  <1>1. l.verified \in Seq(ready')
    <2>1. l.verified \in Seq(ready)
      BY DEF LoaderType
    <2> QED
      BY <2>1
  <1>2. l.evidence \in SUBSET ready'
    BY DEF LoaderType
  <1> QED
    BY <1>1, <1>2 DEF LoaderType

\* Steps that leave the loads and the databases alone and at most append to
\* the manifest.
LEMMA ManifestGrows ==
  ASSUME IInv, TypeOK', ready \subseteq ready',
         UNCHANGED <<loaded, delivered, loader>>
  PROVE  IInv'
  <1>1. OnlyAttestedDelivered'
    BY DEF IInv, OnlyAttestedDelivered
  <1>2. OneNormalization' /\ Agreement' /\ LoadedAttested'
    BY DEF IInv, OneNormalization, Agreement, LoadedAttested, Accepted,
           SealedAs, Identity
  <1>3. \A p \in Loaders : Progress(loader[p])'
    BY DEF IInv, Progress, Accepted
  <1> QED
    BY <1>1, <1>2, <1>3 DEF IInv

-----------------------------------------------------------------------------
(* The outside world and collect.                                          *)

\* What a raw name holds, if anything, its target may serve, or is Junk.
LEMMA PathHolds ==
  ASSUME TypeOK, NEW c, CollectorOK(c), c.pc \in Fetched
  PROVE  /\ c.path \in RawNames /\ c.target \in Targets
         /\ rawfile[c.path] # Absent => /\ rawfile[c.path] \in Contents(c.target)
                                       /\ rawfile[c.path] \in Bytes
  <1>1. c.target \in Targets /\ \E r \in Publishes[c.target] : c.path = <<c.target, r>>
    BY DEF CollectorOK
  <1>2. c.path \in RawNames /\ c.path[1] = c.target
    BY <1>1, PublishesAssumption DEF RawNames
  <1> QED
    BY <1>1, <1>2, PublishesAssumption DEF TypeOK, Contents, Bytes

\* What the normalizer derives is a normalized content of its target.
LEMMA OutputIsNorm ==
  ASSUME TypeOK, NEW c, CollectorOK(c), c.pc = "normalize",
         SharedDocument \/ rawfile[c.path] # Absent
  PROVE  Output(c) \in Norms
  <1>1. /\ c.target \in Targets /\ c.inputs \in Inputs /\ c.release \in Releases
        /\ c.parsed \in Contents(c.target) /\ c.parsed \in Bytes
    BY DEF CollectorOK, CollectorType, Fetched, Hashed, Parsed
  <1>2. PICK b \in Contents(c.target) :
            b \in Bytes /\ Doc(c.target, rawfile[c.path]) = Doc(c.target, b)
    <2>1. CASE SharedDocument
      BY <1>1, <2>1 DEF Doc
    <2>2. CASE ~SharedDocument
      BY <2>2, PathHolds DEF Fetched, Hashed, Parsed
    <2> QED
      BY <2>1, <2>2
  <1>3. Doc(c.target, rawfile[c.path]) \in DocIds
    BY <1>1, <1>2 DEF DocIds
  <1> QED
    BY <1>1, <1>2, <1>3 DEF Output, Norms

\* So is what an honest run of it leaves.
LEMMA HonestIsNorm ==
  ASSUME NEW t \in Targets
  PROVE  Honest(t) \subseteq Norms
  <1> SUFFICES ASSUME NEW b \in Publishes[t], NEW i \in Inputs, NEW v \in Releases
               PROVE  <<t, b, i, v, Doc(t, b)>> \in Norms
    BY DEF Honest
  <1>1. b \in Bytes /\ b \in Contents(t)
    BY PublishesAssumption DEF Bytes, Contents
  <1>2. Doc(t, b) \in DocIds
    BY <1>1 DEF DocIds
  <1> QED
    BY <1>1, <1>2 DEF Norms

\* Amendments and damages respect the types.
LEMMA WorldType ==
  ASSUME TypeOK, World
  PROVE  TypeOK' /\ UNCHANGED <<ready, loaded, delivered, loader>>
  <1>1. ASSUME NEW t \in Targets, Amend(t)
        PROVE  TypeOK' /\ UNCHANGED <<ready, loaded, delivered, loader>>
    <2>1. /\ upstream' \in [Targets -> Raws]
          /\ \A u \in Targets : upstream'[u] \in Publishes[u]
      BY <1>1, PublishesAssumption DEF Amend, TypeOK
    <2>2. UNCHANGED <<files, entries, delivered, collector, loader, counts>>
      BY <1>1 DEF Amend
    <2> QED
      BY <2>1, <2>2 DEF TypeOK, files, entries, counts, CollectorOK, LoaderType
  <1>2. ASSUME NEW r \in RawNames, DamageRaw(r)
        PROVE  TypeOK' /\ UNCHANGED <<ready, loaded, delivered, loader>>
    <2>1. PICK b \in {Junk, Absent} \cup Publishes[r[1]] :
            rawfile' = [rawfile EXCEPT ![r] = b]
      BY <1>2 DEF DamageRaw
    <2>2. b \in Bytes \cup {Absent}
      BY PublishesAssumption DEF RawNames, Bytes
    <2>3. /\ rawfile' \in [RawNames -> Bytes \cup {Absent}]
          /\ \A q \in RawNames : rawfile'[q] \in Contents(q[1]) \cup {Absent}
      BY <2>1, <2>2 DEF TypeOK, Contents
    <2>4. damages' \in Nat /\ swaps' \in [RawNames -> Nat]
      BY <1>2 DEF DamageRaw, TypeOK
    <2>5. UNCHANGED <<upstream, normfile, entries, delivered, collector,
                      loader, collects, loads>>
      BY <1>2 DEF DamageRaw
    <2> QED
      BY <2>3, <2>4, <2>5 DEF TypeOK, entries, CollectorOK, LoaderType
  <1>3. ASSUME NEW n \in Norms, DamageNorm(n)
        PROVE  TypeOK' /\ UNCHANGED <<ready, loaded, delivered, loader>>
    <2>1. normfile' \in [Norms -> Norms \cup {JunkNorm, Gone}]
      <3>1. n[1] \in Targets
        BY DEF Norms
      <3> QED
        BY <1>3, <3>1, HonestIsNorm DEF DamageNorm, TypeOK
    <2>2. damages' \in Nat
      BY <1>3 DEF DamageNorm, TypeOK
    <2>3. UNCHANGED <<upstream, rawfile, entries, delivered, collector,
                      loader, collects, loads, swaps>>
      BY <1>3 DEF DamageNorm
    <2> QED
      BY <2>1, <2>2, <2>3 DEF TypeOK, entries, CollectorOK, LoaderType
  <1> QED
    BY <1>1, <1>2, <1>3 DEF World

\* Where a collector may be.
LEMMA Pcs ==
  /\ Sealing = {"validate", "seal"} /\ Parsed = {"normalize", "validate", "seal"}
  /\ Hashed = {"parse", "normalize", "validate", "seal"}
  /\ Fetched = {"hash", "parse", "normalize", "validate", "seal"}
  BY DEF Sealing, Parsed, Hashed, Fetched

LEMMA IdleCollectorOK == CollectorOK(IdleCollector)
  BY Pcs DEF IdleCollector, CollectorOK, CollectorType, Bytes, Junk

\* The steps of collect that leave the files and the manifest alone.
LEMMA CollectorQuiet ==
  ASSUME TypeOK, NEW p \in Collectors,
         StartCollect(p) \/ TakeTarget(p) \/ Hash(p) \/ Parse(p)
           \/ Validate(p) \/ StopCollect(p)
  PROVE  TypeOK' /\ UNCHANGED <<ready, loaded, delivered, loader>>
  <1>0. /\ collects \in Nat /\ loads \in Nat /\ damages \in Nat
       /\ swaps \in [RawNames -> Nat]
    BY DEF TypeOK
  <1>1. /\ UNCHANGED <<upstream, files, entries, delivered, loader>>
        /\ collects' \in Nat /\ loads' \in Nat /\ damages' \in Nat
        /\ swaps' \in [RawNames -> Nat]
    <2>1. CASE StartCollect(p)
      <3>1. collects' = collects + 1
        BY <2>1 DEF StartCollect
      <3>2. UNCHANGED <<upstream, files, entries, delivered, loader, loads,
                        damages, swaps>>
        BY <2>1 DEF StartCollect
      <3> QED
        BY <1>0, <3>1, <3>2 DEF files, entries
    <2>2. CASE TakeTarget(p)
      BY <1>0, <2>2 DEF TakeTarget, files, entries, counts
    <2>3. CASE Hash(p)
      BY <1>0, <2>3 DEF Hash, files, entries, counts
    <2>4. CASE StopCollect(p)
      BY <1>0, <2>4 DEF StopCollect, files, entries, counts
    <2>5. CASE Parse(p)
      BY <1>0, <2>5 DEF Parse, files, entries, counts
    <2>6. CASE Validate(p)
      BY <1>0, <2>6 DEF Validate, files, entries, counts
    <2> QED
      BY <2>1, <2>2, <2>3, <2>4, <2>5, <2>6
  <1>2. CollectorOK(collector[p])
    BY DEF TypeOK
  <1>3. /\ DOMAIN collector' = Collectors
        /\ \A q \in Collectors \ {p} : collector'[q] = collector[q]
    BY DEF TypeOK, StartCollect, TakeTarget, Hash, Parse, Validate, StopCollect
  <1>4. CollectorOK(collector'[p])
    <2>1. CASE StartCollect(p)
      <3>1. PICK found \in SUBSET Targets, i \in Inputs, v \in Releases,
                 s \in BOOLEAN :
              collector' = [collector EXCEPT ![p] =
                 [IdleCollector EXCEPT !.pc = "next", !.todo = found,
                    !.inputs = i, !.release = v, !.strict = s]]
        BY <2>1 DEF StartCollect
      <3>2. collector'[p] = [IdleCollector EXCEPT !.pc = "next",
               !.todo = found, !.inputs = i, !.release = v, !.strict = s]
        BY <3>1 DEF TypeOK
      <3>3. IdleCollector \in CollectorType
        BY IdleCollectorOK DEF CollectorOK
      <3>4. collector'[p] \in CollectorType
        BY <3>2, <3>3 DEF CollectorType
      <3>5. /\ collector'[p].pc = "next" /\ collector'[p].inputs = i
            /\ collector'[p].release = v
        BY <3>2 DEF IdleCollector
      <3> QED
        BY <3>4, <3>5, Pcs DEF CollectorOK
    <2>2. CASE TakeTarget(p)
      <3>1. PICK t \in collector[p].todo :
              collector' = [collector EXCEPT ![p].pc = "fetch",
                              ![p].todo = @ \ {t}, ![p].target = t]
        BY <2>2 DEF TakeTarget
      <3>2. collector[p].pc = "next"
        BY <2>2 DEF TakeTarget, CollectorAt
      <3> QED
        BY <1>2, <3>1, <3>2, Pcs DEF TypeOK, CollectorOK, CollectorType
    <2>3. CASE Hash(p)
      <3> DEFINE c == collector[p]
      <3>1. c.pc = "hash" /\ c.pc \in Fetched
        BY <2>3 DEF Hash, CollectorAt, Fetched
      <3>2. rawfile[c.path] \in Contents(c.target) /\ rawfile[c.path] \in Bytes
        BY <1>2, <2>3, <3>1, PathHolds DEF Hash
      <3>3. collector'[p] = [c EXCEPT !.pc = "parse", !.raw = rawfile[c.path]]
        BY <2>3 DEF Hash, TypeOK
      <3> QED
        BY <1>2, <3>1, <3>2, <3>3, Pcs DEF CollectorOK, CollectorType
    <2>4. CASE Parse(p)
      <3> DEFINE c == collector[p]
      <3>1. c.pc = "parse" /\ c.pc \in Fetched /\ c.pc \in Hashed
        BY <2>4 DEF Parse, CollectorAt, Fetched, Hashed
      <3>2. rawfile[c.path] \in Contents(c.target) /\ rawfile[c.path] \in Bytes
        BY <1>2, <2>4, <3>1, PathHolds DEF Parse
      <3>3. collector'[p] = [c EXCEPT !.pc = "normalize", !.parsed = rawfile[c.path]]
        BY <2>4 DEF Parse, TypeOK
      <3> QED
        BY <1>2, <3>1, <3>2, <3>3, Pcs DEF CollectorOK, CollectorType
    <2>5. CASE Validate(p)
      <3>1. collector[p].pc = "validate"
        BY <2>5 DEF Validate, CollectorAt
      <3>2. collector'[p] = [collector[p] EXCEPT !.pc = "seal"]
        BY <2>5 DEF Validate, TypeOK
      <3> QED
        BY <1>2, <3>1, <3>2, Pcs DEF CollectorOK, CollectorType
    <2>6. CASE StopCollect(p)
      BY <2>6, IdleCollectorOK DEF StopCollect, TypeOK
    <2> QED
      BY <2>1, <2>2, <2>3, <2>4, <2>5, <2>6
  <1>5. \A q \in Collectors : CollectorOK(collector[q])'
    <2> SUFFICES ASSUME NEW q \in Collectors
                 PROVE  CollectorOK(collector'[q])
      BY DEF CollectorOK, CollectorType
    <2> QED
      BY <1>3, <1>4 DEF TypeOK
  <1> QED
    BY <1>1, <1>3, <1>5 DEF TypeOK, files, entries, LoaderType

\* A collect that goes on to its next target, or that is over.
LEMMA OnwardOK ==
  ASSUME NEW c, CollectorOK(c), c.pc # "idle"
  PROVE  CollectorOK(Onward(c)) /\ CollectorOK(IdleCollector)
  <1>1. IdleCollector \in CollectorType
    BY IdleCollectorOK DEF CollectorOK
  <1>2. Onward(c) \in CollectorType
    BY <1>1 DEF Onward, CollectorOK, CollectorType
  <1>3. /\ Onward(c).pc = "next" /\ Onward(c).inputs = c.inputs
        /\ Onward(c).release = c.release /\ IdleCollector.pc = "idle"
    BY DEF Onward, IdleCollector
  <1> QED
    BY <1>1, <1>2, <1>3, Pcs DEF CollectorOK

\* When one collector has moved to a legal state, all are in legal states.
LEMMA OneCollectorMoves ==
  ASSUME TypeOK, NEW p \in Collectors, NEW c,
         collector' = [collector EXCEPT ![p] = c], CollectorOK(c)
  PROVE  DOMAIN collector' = Collectors /\ \A q \in Collectors : CollectorOK(collector[q])'
  <1> SUFFICES ASSUME NEW q \in Collectors
               PROVE  CollectorOK(collector'[q])
    BY DEF TypeOK, CollectorOK, CollectorType
  <1> QED
    BY DEF TypeOK

\* fetch writes at most its own raw name, with the document's bytes.
LEMMA FetchType ==
  ASSUME TypeOK, NEW p \in Collectors, Fetch(p)
  PROVE  TypeOK' /\ UNCHANGED <<ready, loaded, delivered, loader>>
  <1> DEFINE c == collector[p]
             t == c.target
             r == <<t, upstream[t]>>
             d == [c EXCEPT !.pc = "hash", !.path = r]
  <1>1. CollectorOK(c) /\ c.pc = "fetch" /\ t \in Targets
    BY Pcs DEF TypeOK, Fetch, CollectorAt, CollectorOK
  <1>2. r \in RawNames /\ upstream[t] \in Publishes[t] /\ upstream[t] \in Bytes
    BY <1>1 DEF TypeOK, RawNames, Bytes
  <1>3. rawfile' = [rawfile EXCEPT ![r] = IF rawfile[r] = Absent
                                            THEN upstream[t] ELSE rawfile[r]]
    BY DEF Fetch
  <1>4. /\ rawfile' \in [RawNames -> Bytes \cup {Absent}]
        /\ \A q \in RawNames : rawfile'[q] \in Contents(q[1]) \cup {Absent}
    BY <1>2, <1>3 DEF TypeOK, Contents
  <1>5. collector' = [collector EXCEPT ![p] = d]
    BY DEF Fetch, TypeOK
  <1>6. CollectorOK(d)
    BY <1>1, <1>2, Pcs DEF CollectorOK, CollectorType
  <1>7. UNCHANGED <<upstream, normfile, entries, delivered, loader, counts>>
    BY DEF Fetch
  <1>8. DOMAIN collector' = Collectors /\ \A q \in Collectors : CollectorOK(collector[q])'
    BY <1>5, <1>6, OneCollectorMoves
  <1> QED
    BY <1>4, <1>7, <1>8 DEF TypeOK, entries, counts, LoaderType

\* normalize publishes a normalized content under its own name.
LEMMA NormalizeType ==
  ASSUME TypeOK, NEW p \in Collectors, Normalize(p)
  PROVE  TypeOK' /\ UNCHANGED <<ready, loaded, delivered, loader>>
  <1> DEFINE c == collector[p]
             n == Output(c)
             d == [c EXCEPT !.pc = "validate", !.norm = n]
  <1>1. CollectorOK(c) /\ c.pc = "normalize"
    BY DEF TypeOK, Normalize, CollectorAt
  <1>2. n \in Norms
    BY <1>1, OutputIsNorm DEF Normalize
  <1>3. normfile' = [normfile EXCEPT ![n] = n]
        /\ collector' = [collector EXCEPT ![p] = d]
    BY DEF Normalize, TypeOK
  <1>4. normfile' \in [Norms -> Norms \cup {JunkNorm, Gone}]
    BY <1>2, <1>3 DEF TypeOK
  <1>5. CollectorOK(d)
    BY <1>1, <1>2, Pcs DEF CollectorOK, CollectorType
  <1>6. UNCHANGED <<upstream, rawfile, entries, delivered, loader, counts>>
    BY DEF Normalize
  <1>7. DOMAIN collector' = Collectors /\ \A q \in Collectors : CollectorOK(collector[q])'
    BY <1>3, <1>5, OneCollectorMoves
  <1> QED
    BY <1>4, <1>6, <1>7 DEF TypeOK, entries, counts, LoaderType

\* Sealing appends one well-formed READY entry.
LEMMA SealType ==
  ASSUME TypeOK, NEW p \in Collectors, Seal(p)
  PROVE  /\ TypeOK' /\ ready \subseteq ready'
         /\ UNCHANGED <<loaded, delivered, loader>>
  <1> DEFINE c == collector[p]
             e == ReadyEntry(c)
  <1>1. /\ CollectorOK(c) /\ c.pc = "seal" /\ c.target \in Targets
        /\ c.inputs \in Inputs /\ c.norm \in Norms /\ c.raw \in Bytes
        /\ \E r \in Publishes[c.target] : c.path = <<c.target, r>>
    BY Pcs DEF TypeOK, Seal, CollectorAt, CollectorOK, CollectorType
  <1>2. c.path \in RawNames
    BY <1>1, PublishesAssumption DEF RawNames
  <1>3. /\ normfile[c.norm] # Gone
        /\ ready' = ready \cup {e}
        /\ collector' = [collector EXCEPT ![p] = Onward(c)]
        /\ UNCHANGED <<upstream, files, failed, loaded, delivered, loader,
                       counts>>
    BY DEF Seal
  <1>4. normfile[c.norm] \in Norms \cup {JunkNorm}
    BY <1>1, <1>3 DEF TypeOK
  <1>5. e \in EntryType /\ e.doc = Doc(e.target, e.raw)
    BY <1>1, <1>2, <1>4 DEF ReadyEntry, EntryType, DocIds
  <1>6. ready' \subseteq EntryType /\ \A f \in ready' : f.doc = Doc(f.target, f.raw)
    BY <1>3, <1>5 DEF TypeOK
  <1>7. DOMAIN collector' = Collectors /\ \A q \in Collectors : CollectorOK(collector[q])'
    BY <1>1, <1>3, OnwardOK, OneCollectorMoves
  <1>8. loader' \in [Loaders -> LoaderType']
    <2>1. ready \subseteq ready'
      BY <1>3
    <2>2. \A l \in LoaderType : l \in LoaderType'
      BY <2>1, LoaderTypeGrows
    <2> QED
      BY <1>3, <2>2 DEF TypeOK
  <1> QED
    BY <1>3, <1>6, <1>7, <1>8 DEF TypeOK, files, counts

\* A failed target leaves a FAILED entry.
LEMMA FailTargetType ==
  ASSUME TypeOK, NEW p \in Collectors, FailTarget(p)
  PROVE  TypeOK' /\ UNCHANGED <<ready, loaded, delivered, loader>>
  <1> DEFINE c == collector[p]
             d == IF c.strict THEN IdleCollector ELSE Onward(c)
  <1>1. CollectorOK(c) /\ c.pc # "idle" /\ c.target \in Targets
    BY Pcs DEF TypeOK, FailTarget, CollectorOK
  <1>2. /\ failed' = failed \cup {c.target}
        /\ collector' = [collector EXCEPT ![p] = d]
        /\ UNCHANGED <<upstream, files, ready, loaded, delivered, loader,
                       counts>>
    BY DEF FailTarget
  <1>3. CollectorOK(d)
    BY <1>1, OnwardOK
  <1>4. DOMAIN collector' = Collectors /\ \A q \in Collectors : CollectorOK(collector[q])'
    BY <1>2, <1>3, OneCollectorMoves
  <1> QED
    BY <1>1, <1>2, <1>4 DEF TypeOK, files, counts, LoaderType

\* collect and the outside world preserve the invariant.
LEMMA CollectStep ==
  ASSUME IInv, World \/ \E p \in Collectors : Collect(p)
  PROVE  IInv'
  <1>1. TypeOK
    BY DEF IInv
  <1>2. /\ TypeOK' /\ ready \subseteq ready'
        /\ UNCHANGED <<loaded, delivered, loader>>
    <2>1. CASE World
      BY <1>1, <2>1, WorldType
    <2>2. ASSUME NEW p \in Collectors, Collect(p)
          PROVE  /\ TypeOK' /\ ready \subseteq ready'
                 /\ UNCHANGED <<loaded, delivered, loader>>
      BY <1>1, <2>2, CollectorQuiet, FetchType, NormalizeType, SealType,
         FailTargetType DEF Collect
    <2> QED
      BY <2>1, <2>2
  <1> QED
    BY <1>2, ManifestGrows

-----------------------------------------------------------------------------
(* load.                                                                   *)

\* One loader moves to a legal state; the files and the READY entries stay.
LEMMA LoaderTyped ==
  ASSUME TypeOK, \A q \in Loaders : Progress(loader[q]),
         NEW p \in Loaders, NEW l \in LoaderType, Progress(l),
         loader' = [loader EXCEPT ![p] = l],
         UNCHANGED <<upstream, files, ready, failed, collector>>,
         collects' \in Nat, loads' \in Nat, damages' \in Nat,
         swaps' \in [RawNames -> Nat]
  PROVE  TypeOK' /\ \A q \in Loaders : Progress(loader[q])'
  <1>1. loader' \in [Loaders -> LoaderType]
    BY DEF TypeOK
  <1>2. loader' \in [Loaders -> LoaderType']
    BY <1>1 DEF LoaderType
  <1>3. ASSUME NEW q \in Loaders
        PROVE  Progress(loader'[q])
    BY DEF TypeOK
  <1>4. \A q \in Loaders : Progress(loader[q])'
    BY <1>3 DEF Progress, Accepted
  <1> QED
    BY <1>2, <1>4 DEF TypeOK, files, CollectorOK, CollectorType, EntryType

\* A loader that accepts nothing new.
LEMMA LoaderAccepts ==
  ASSUME IInv, NEW p \in Loaders, NEW l \in LoaderType, Progress(l),
         loader' = [loader EXCEPT ![p] = l],
         Accepted(l) \subseteq Accepted(loader[p]),
         UNCHANGED <<upstream, files, ready, failed, loaded, collector>>,
         collects' \in Nat, loads' \in Nat, damages' \in Nat,
         swaps' \in [RawNames -> Nat]
  PROVE  /\ TypeOK' /\ \A q \in Loaders : Progress(loader[q])'
         /\ OneNormalization' /\ Agreement' /\ LoadedAttested'
  <1>1. TypeOK' /\ \A q \in Loaders : Progress(loader[q])'
    BY LoaderTyped DEF IInv
  <1>2. OneNormalization' /\ LoadedAttested'
    BY DEF IInv, OneNormalization, LoadedAttested, SealedAs, Identity
  <1>3. \A q \in Loaders : Accepted(loader'[q]) \subseteq Accepted(loader[q])
    BY DEF IInv, TypeOK
  <1>4. Agreement'
    <2>1. ASSUME NEW a \in Loaders, NEW b \in Loaders,
                 NEW e \in Accepted(loader'[a]), NEW f \in Accepted(loader'[b]),
                 Identity(e) = Identity(f)
          PROVE  e = f
      BY <1>3, <2>1 DEF IInv, Agreement
    <2>2. ASSUME NEW b \in Loaders, NEW e \in Accepted(loader'[b]),
                 NEW a \in loaded', Identity(e) = SealedAs(a)
          PROVE  e.norm = a.id.norm
      BY <1>3, <2>2 DEF IInv, Agreement
    <2> QED
      BY <2>1, <2>2 DEF Agreement, Accepted, Identity, SealedAs
  <1> QED
    BY <1>1, <1>2, <1>4

\* A loader that accepts nothing new and writes nothing.
LEMMA LoaderMoves ==
  ASSUME IInv, NEW p \in Loaders, NEW l \in LoaderType, Progress(l),
         loader' = [loader EXCEPT ![p] = l],
         Accepted(l) \subseteq Accepted(loader[p]),
         UNCHANGED <<upstream, files, ready, failed, loaded, delivered,
                     collector>>,
         collects' \in Nat, loads' \in Nat, damages' \in Nat,
         swaps' \in [RawNames -> Nat]
  PROVE  IInv'
  <1>1. OnlyAttestedDelivered'
    BY DEF IInv, OnlyAttestedDelivered
  <1> QED
    BY <1>1, LoaderAccepts DEF IInv

LEMMA IdleLoaderType == IdleLoader \in LoaderType
  <1>1. << >> \in Seq(ready)
    OBVIOUS
  <1>2. {} \in SUBSET ready /\ {} \in SUBSET Targets /\ 1 \in Nat \ {0}
    OBVIOUS
  <1> QED
    BY <1>1, <1>2 DEF IdleLoader, LoaderType

\* A command that has ended holds nothing.
LEMMA IdleLoaderOK ==
  ASSUME NEW v \in {"none", "conflict", "missing", "mismatch", "damaged",
                    "loaded"}
  PROVE  LET l == [IdleLoader EXCEPT !.verdict = v] IN
         l \in LoaderType /\ Progress(l) /\ Accepted(l) = {}
  <1> DEFINE l == [IdleLoader EXCEPT !.verdict = v]
  <1>1. /\ l.pc = "idle" /\ l.evidence = {} /\ l.verified = << >>
    BY DEF IdleLoader
  <1>2. l \in LoaderType
    BY IdleLoaderType DEF LoaderType
  <1>3. Accepted(l) = {}
    BY <1>1 DEF Accepted
  <1> QED
    BY <1>1, <1>2, <1>3 DEF Progress

\* A refused, aborted or new command.
LEMMA FreshLoader ==
  ASSUME IInv, NEW p \in Loaders,
         \/ StartLoad(p) \/ AbortLoad(p)
         \/ /\ \E v \in {"conflict", "missing", "mismatch", "damaged"} :
                  Refuse(p, v)
            /\ UNCHANGED <<upstream, files, entries, delivered, collector,
                           counts>>
  PROVE  IInv'
  <1>0. /\ collects \in Nat /\ loads \in Nat /\ damages \in Nat
       /\ swaps \in [RawNames -> Nat]
    BY DEF IInv, TypeOK
  <1>1. CASE StartLoad(p)
    <2>1. PICK chosen \in SUBSET Targets, i \in Inputs, b \in BatchSizes,
               d \in Destinations :
            loader' = [loader EXCEPT ![p] =
              [IdleLoader EXCEPT !.pc = "evidence", !.selected = chosen,
                 !.todo = chosen, !.inputs = i, !.batch = b, !.dest = d]]
      BY <1>1 DEF StartLoad
    <2> DEFINE l == [IdleLoader EXCEPT !.pc = "evidence", !.selected = chosen,
                       !.todo = chosen, !.inputs = i, !.batch = b, !.dest = d]
    <2>2. l.pc = "evidence" /\ l.evidence = {} /\ l.verified = << >>
      BY DEF IdleLoader
    <2>3. l \in LoaderType
      BY IdleLoaderType DEF LoaderType
    <2>4. Accepted(l) = {} /\ Progress(l)
      BY <2>2 DEF Accepted, Progress
    <2>5. /\ loads' = loads + 1
          /\ UNCHANGED <<upstream, files, entries, delivered, collector,
                         collects, damages, swaps>>
      BY <1>1 DEF StartLoad
    <2>6. /\ UNCHANGED <<upstream, files, ready, failed, loaded, delivered,
                         collector>>
          /\ collects' \in Nat /\ loads' \in Nat /\ damages' \in Nat
        /\ swaps' \in [RawNames -> Nat]
      BY <1>0, <2>5 DEF entries
    <2>7. loader' = [loader EXCEPT ![p] = l]
      BY <2>1
    <2> HIDE DEF l
    <2> QED
      BY <2>3, <2>4, <2>6, <2>7, LoaderMoves
  <1>2. CASE ~StartLoad(p)
    <2>1. PICK v \in {"none", "conflict", "missing", "mismatch", "damaged"} :
            loader' = [loader EXCEPT ![p] = [IdleLoader EXCEPT !.verdict = v]]
      <3>1. CASE AbortLoad(p)
        <4>1. IdleLoader = [IdleLoader EXCEPT !.verdict = "none"]
          BY DEF IdleLoader
        <4> QED
          BY <3>1, <4>1 DEF AbortLoad
      <3>2. CASE ~AbortLoad(p)
        BY <1>2, <3>2 DEF Refuse
      <3> QED
        BY <3>1, <3>2
    <2>2. UNCHANGED <<upstream, files, entries, delivered, collector, counts>>
      BY <1>2 DEF AbortLoad
    <2>3. UNCHANGED <<ready, failed, loaded, collects, loads, damages, swaps>>
      BY <2>2 DEF entries, counts
    <2> QED
      BY <1>0, <2>1, <2>2, <2>3, IdleLoaderOK, LoaderMoves
  <1> QED
    BY <1>1, <1>2

\* A loader holds entries of the manifest only.
LEMMA AcceptedReady ==
  ASSUME NEW l \in LoaderType
  PROVE  Accepted(l) \subseteq ready
  <1>1. l.evidence \subseteq ready /\ l.verified \in Seq(ready)
    BY DEF LoaderType
  <1> QED
    BY <1>1 DEF Accepted

\* A manifest that is free of conflicts makes the loader agree with every
\* other load and with everything loaded before.
LEMMA ReadManifestStep ==
  ASSUME IInv, NEW p \in Loaders, ReadManifest(p)
  PROVE  IInv'
  <1> DEFINE c == loader[p]
             S == {e \in ready : e.inputs = c.inputs /\ e.target \in c.selected}
             l == [c EXCEPT !.pc = "verify", !.evidence = S]
  <1>1. /\ UNCHANGED <<upstream, files, ready, failed, loaded, delivered,
                       collector, collects, loads, damages, swaps>>
        /\ c.pc = "evidence"
    BY DEF ReadManifest, entries, counts, LoaderAt
  <1>2. /\ TypeOK /\ c \in LoaderType /\ Progress(c)
        /\ collects \in Nat /\ loads \in Nat /\ damages \in Nat
        /\ swaps \in [RawNames -> Nat]
    BY DEF IInv, TypeOK
  <1>3. CASE loader' # [loader EXCEPT ![p] = l]
    BY <1>3, FreshLoader DEF ReadManifest
  <1>4. CASE loader' = [loader EXCEPT ![p] = l]
    <2>0. CASE loader' = [loader EXCEPT ![p] = [IdleLoader EXCEPT !.verdict = "conflict"]]
      BY <2>0, FreshLoader DEF ReadManifest, Refuse
    <2>1. CASE ~Conflicting(ready)
      <3>1. l \in LoaderType
        BY <1>2 DEF LoaderType
      <3>2. /\ l.pc = "verify" /\ l.evidence = S /\ l.verified = << >>
            /\ l.todo = l.selected /\ l.inputs = c.inputs
        BY <1>1, <1>2 DEF LoaderType, Progress
      <3> HIDE DEF l
      <3>3. Accepted(l) = S
        BY <3>2 DEF Accepted
      <3>4. Progress(l)
        BY <3>2, <3>3 DEF Progress
      <3>5. TypeOK' /\ \A q \in Loaders : Progress(loader[q])'
        BY <1>1, <1>2, <1>4, <3>1, <3>4, LoaderTyped DEF IInv
      <3>6. \A q \in Loaders : Accepted(loader'[q]) \subseteq ready
        BY <1>2, <1>4, <3>1, AcceptedReady DEF TypeOK
      <3>7. \A e, f \in ready : Identity(e) = Identity(f) => e = f
        BY <2>1 DEF Conflicting
      <3>8. \A e \in ready, a \in loaded :
               Identity(e) = SealedAs(a) => e.norm = a.id.norm
        BY <3>7 DEF IInv, LoadedAttested
      <3>9. Agreement'
        <4>1. \A q, r \in Loaders : \A e \in Accepted(loader'[q]),
                 f \in Accepted(loader'[r]) : Identity(e) = Identity(f) => e = f
          BY <3>6, <3>7
        <4>2. \A q \in Loaders : \A e \in Accepted(loader'[q]), a \in loaded' :
                 Identity(e) = SealedAs(a) => e.norm = a.id.norm
          BY <1>1, <3>6, <3>8
        <4> QED
          BY <4>1, <4>2 DEF Agreement, Accepted, Identity, SealedAs
      <3>10. OnlyAttestedDelivered' /\ OneNormalization' /\ LoadedAttested'
        BY <1>1 DEF IInv, OnlyAttestedDelivered, OneNormalization,
                    LoadedAttested, SealedAs, Identity
      <3> QED
        BY <3>5, <3>9, <3>10 DEF IInv
    <2> QED
      BY <1>4, <2>0, <2>1 DEF ReadManifest, Refuse
  <1> QED
    BY <1>3, <1>4

\* Verification moves entries from the evidence to the verified ones.
LEMMA VerifyTargetStep ==
  ASSUME IInv, NEW p \in Loaders, VerifyTarget(p)
  PROVE  IInv'
  <1> DEFINE c == loader[p]
  <1>1. /\ UNCHANGED <<upstream, files, ready, failed, loaded, delivered,
                       collector, collects, loads, damages, swaps>>
        /\ c.pc = "verify"
    BY DEF VerifyTarget, entries, counts, LoaderAt
  <1>2. /\ TypeOK /\ c \in LoaderType /\ Progress(c)
        /\ collects \in Nat /\ loads \in Nat /\ damages \in Nat
        /\ swaps \in [RawNames -> Nat]
    BY DEF IInv, TypeOK
  <1>3. CASE Refuse(p, "mismatch") \/ Refuse(p, "damaged")
    BY <1>3, FreshLoader DEF VerifyTarget
  <1>4. CASE ~(Refuse(p, "mismatch") \/ Refuse(p, "damaged"))
    <2>1. PICK t \in c.todo, e \in c.evidence, todo \in SUBSET c.todo :
            /\ e.target = t /\ c.todo \ {t} \subseteq todo
            /\ loader' = [loader EXCEPT ![p] =
                  [c EXCEPT !.verified = Append(c.verified, e),
                            !.evidence = c.evidence \ {e}, !.todo = todo]]
      <3>1. PICK t \in c.todo, e \in c.evidence :
              /\ e.target = t
              /\ loader' = [loader EXCEPT
                    ![p].verified = Append(@, e), ![p].evidence = @ \ {e},
                    ![p].todo = IF {f \in c.evidence : f.target = t} = {e}
                                  THEN @ \ {t} ELSE @]
        <4>1. PICK t \in c.todo :
                LET left == {f \in c.evidence : f.target = t} IN
                \E e \in left :
                  loader' = [loader EXCEPT
                     ![p].verified = Append(@, e), ![p].evidence = @ \ {e},
                     ![p].todo = IF left = {e} THEN @ \ {t} ELSE @]
          BY <1>4 DEF VerifyTarget
        <4> QED
          BY <4>1
      <3> DEFINE todo == IF {f \in c.evidence : f.target = t} = {e}
                           THEN c.todo \ {t} ELSE c.todo
      <3>2. loader' = [loader EXCEPT ![p] =
                  [c EXCEPT !.verified = Append(c.verified, e),
                            !.evidence = c.evidence \ {e}, !.todo = todo]]
        BY <1>2, <3>1 DEF TypeOK, LoaderType
      <3>3. todo \in SUBSET c.todo /\ c.todo \ {t} \subseteq todo
        OBVIOUS
      <3> HIDE DEF todo
      <3> QED
        BY <3>1, <3>2, <3>3
    <2> DEFINE v == Append(c.verified, e)
               l == [c EXCEPT !.verified = v, !.evidence = c.evidence \ {e},
                              !.todo = todo]
    <2>2. /\ e \in ready /\ c.verified \in Seq(ready) /\ c.evidence \subseteq ready
      BY <1>2, <2>1 DEF LoaderType
    <2>3. /\ v \in Seq(ready) /\ Len(v) = Len(c.verified) + 1
          /\ DOMAIN v = 1 .. Len(c.verified) + 1
          /\ DOMAIN c.verified = 1 .. Len(c.verified)
          /\ Len(c.verified) \in Nat
          /\ \A k \in DOMAIN c.verified : v[k] = c.verified[k]
          /\ v[Len(c.verified) + 1] = e
      BY <2>2
    <2>4. c.evidence \ {e} \in SUBSET ready /\ todo \in SUBSET Targets
      BY <1>2, <2>2 DEF LoaderType
    <2>5. l \in LoaderType
      BY <1>2, <2>3, <2>4 DEF LoaderType
    <2>6. /\ l.pc = "verify" /\ l.verified = v /\ l.evidence = c.evidence \ {e}
          /\ l.todo = todo /\ l.inputs = c.inputs /\ l.selected = c.selected
      BY <1>1, <1>2 DEF LoaderType
    <2> HIDE DEF l, v
    <2>7. Accepted(l) \subseteq Accepted(c)
      BY <2>1, <2>3, <2>6 DEF Accepted
    <2>8. \A u \in l.selected \ l.todo :
             \E k \in DOMAIN l.verified : l.verified[k].target = u
      <3> SUFFICES ASSUME NEW u \in c.selected \ todo
                   PROVE  \E k \in DOMAIN v : v[k].target = u
        BY <2>6
      <3>1. CASE u = t
        BY <2>1, <2>3, <3>1
      <3>2. CASE u # t
        <4>1. u \in c.selected \ c.todo
          BY <2>1, <3>2
        <4>2. PICK k \in DOMAIN c.verified : c.verified[k].target = u
          BY <1>1, <1>2, <4>1 DEF Progress
        <4> QED
          BY <2>3, <4>2
      <3> QED
        BY <3>1, <3>2
    <2>9. Progress(l)
      BY <1>1, <1>2, <2>6, <2>7, <2>8 DEF Progress
    <2> QED
      BY <1>1, <1>2, <2>1, <2>5, <2>7, <2>9, LoaderMoves DEF l, v
  <1> QED
    BY <1>3, <1>4

\* The item at the cursor is an entry of the manifest, and its shard lies
\* within the records it holds.
LEMMA CurrentHolds ==
  ASSUME TypeOK, NEW p \in Loaders, MoreItems(p)
  PROVE  /\ Current(p) \in ready /\ Current(p) \in Accepted(loader[p])
         /\ Held(p) \in Nat /\ End(p) \in Nat /\ End(p) <= Held(p)
  <1> DEFINE c == loader[p]
  <1>1. c \in LoaderType
    BY DEF TypeOK
  <1>2. /\ c.verified \in Seq(ready) /\ c.item \in Nat \ {0}
        /\ c.offset \in Nat /\ c.batch \in Nat
    <2>1. c.verified \in Seq(ready)
      BY <1>1 DEF LoaderType
    <2>2. /\ c.item \in Nat \ {0} /\ c.offset \in Nat
          /\ c.batch \in BatchSizes \cup {1}
      BY <1>1 DEF LoaderType
    <2>3. c.batch \in Nat
      BY <2>2, BatchAssumption
    <2> QED
      BY <2>1, <2>2, <2>3
  <1>3. c.item \in DOMAIN c.verified
    <2>1. Len(c.verified) \in Nat /\ DOMAIN c.verified = 1 .. Len(c.verified)
      BY <1>2
    <2>2. c.item <= Len(c.verified)
      BY DEF MoreItems
    <2> QED
      BY <1>2, <2>1, <2>2
  <1>4. Current(p) \in ready /\ Current(p) \in Accepted(c)
    BY <1>2, <1>3 DEF Current, Accepted
  <1>5. Current(p).norm \in Norms \cup {JunkNorm}
    BY <1>4 DEF TypeOK, EntryType
  <1>6. Held(p) \in Nat
    BY <1>5, RowsNat DEF Held
  <1> QED
    BY <1>2, <1>4, <1>6 DEF End

\* Going on to the next shard.
LEMMA AdvancedOK ==
  ASSUME TypeOK, NEW p \in Loaders, MoreItems(p), Progress(loader[p]),
         loader[p].pc \in {"load", "sink", "mark"}
  PROVE  /\ Advanced(p) \in LoaderType /\ Progress(Advanced(p))
         /\ Accepted(Advanced(p)) = Accepted(loader[p])
  <1> DEFINE c == loader[p]
             l == Advanced(p)
  <1>1. c \in LoaderType /\ End(p) \in Nat /\ c.item + 1 \in Nat \ {0}
    BY CurrentHolds DEF TypeOK, LoaderType
  <1>2. l \in LoaderType
    <2>1. [c EXCEPT !.pc = "load", !.offset = End(p)] \in LoaderType
      BY <1>1 DEF LoaderType
    <2>2. [c EXCEPT !.pc = "load", !.item = c.item + 1, !.offset = 0] \in LoaderType
      BY <1>1 DEF LoaderType
    <2> QED
      BY <2>1, <2>2 DEF Advanced
  <1>3. /\ l.pc = "load" /\ l.evidence = c.evidence
        /\ l.verified = c.verified /\ l.todo = c.todo
        /\ l.selected = c.selected /\ l.inputs = c.inputs
    <2>1. CASE End(p) < Held(p)
      <3>1. l = [c EXCEPT !.pc = "load", !.offset = End(p)]
        BY <2>1 DEF Advanced
      <3> HIDE DEF l
      <3> QED
        BY <1>1, <3>1 DEF LoaderType
    <2>2. CASE ~(End(p) < Held(p))
      <3>1. l = [c EXCEPT !.pc = "load", !.item = c.item + 1, !.offset = 0]
        BY <2>2 DEF Advanced
      <3> HIDE DEF l
      <3> QED
        BY <1>1, <3>1 DEF LoaderType
    <2> QED
      BY <2>1, <2>2
  <1>4. Accepted(l) = Accepted(c)
    BY <1>3 DEF Accepted
  <1>5. Progress(l)
    BY <1>3, <1>4 DEF Progress
  <1> QED
    BY <1>2, <1>4, <1>5

\* The steps of a verified load that write nothing.
LEMMA LoadQuietStep ==
  ASSUME IInv, NEW p \in Loaders, BeginLoad(p) \/ CheckShard(p) \/ Report(p)
  PROVE  IInv'
  <1> DEFINE c == loader[p]
  <1>1. UNCHANGED <<upstream, files, ready, failed, loaded, delivered,
                    collector, collects, loads, damages, swaps>>
    <2>1. UNCHANGED <<upstream, files, entries, delivered, collector, counts>>
      BY DEF BeginLoad, CheckShard, Report
    <2> QED
      BY <2>1 DEF entries, counts
  <1>2. /\ TypeOK /\ c \in LoaderType /\ Progress(c)
        /\ collects' \in Nat /\ loads' \in Nat /\ damages' \in Nat
        /\ swaps' \in [RawNames -> Nat]
    BY <1>1 DEF IInv, TypeOK
  <1>3. PICK l \in LoaderType : /\ Progress(l) /\ Accepted(l) = Accepted(c)
                                /\ loader' = [loader EXCEPT ![p] = l]
    <2>1. ASSUME NEW pc \in {"load", "sink"},
                 NEW l, l = [c EXCEPT !.pc = pc],
                 c.pc \in {"verify", "load"}, c.todo = {},
                 pc = "sink" => c.item <= Len(c.verified)
          PROVE  l \in LoaderType /\ Progress(l) /\ Accepted(l) = Accepted(c)
      <3>1. l \in LoaderType
        BY <1>2, <2>1 DEF LoaderType
      <3>2. /\ l.pc = pc /\ l.evidence = c.evidence /\ l.verified = c.verified
            /\ l.todo = c.todo /\ l.selected = c.selected
            /\ l.inputs = c.inputs /\ l.item = c.item
        BY <1>2, <2>1 DEF LoaderType
      <3>3. Accepted(l) = Accepted(c)
        BY <3>2 DEF Accepted
      <3> QED
        BY <1>2, <2>1, <3>1, <3>2, <3>3 DEF Progress
    <2>2. CASE BeginLoad(p)
      <3>1. c.pc = "verify" /\ c.todo = {}
        BY <2>2 DEF BeginLoad, LoaderAt
      <3>2. loader' = [loader EXCEPT ![p] = [c EXCEPT !.pc = "load"]]
        BY <2>2 DEF BeginLoad
      <3> QED
        BY <2>1, <3>1, <3>2
    <2>3. CASE CheckShard(p)
      <3>1. c.pc = "load" /\ MoreItems(p) /\ c.todo = {}
        BY <1>2, <2>3 DEF CheckShard, LoaderAt, Progress
      <3>2. CASE loader' = [loader EXCEPT ![p] = Advanced(p)]
        BY <1>2, <3>1, <3>2, AdvancedOK
      <3>3. CASE loader' = [loader EXCEPT ![p] = [c EXCEPT !.pc = "sink"]]
        BY <2>1, <3>1, <3>3 DEF MoreItems
      <3> QED
        BY <2>3, <3>2, <3>3 DEF CheckShard
    <2>4. CASE Report(p)
      <3> DEFINE l == [c EXCEPT !.pc = "idle", !.verdict = "loaded"]
      <3>1. loader' = [loader EXCEPT ![p] = l]
        BY <2>4 DEF Report
      <3>2. l \in LoaderType /\ l.pc = "idle"
            /\ l.evidence = c.evidence /\ l.verified = c.verified
        BY <1>2 DEF LoaderType
      <3> HIDE DEF l
      <3> QED
        BY <3>1, <3>2 DEF Accepted, Progress
    <2> QED
      BY <2>2, <2>3, <2>4
  <1> QED
    BY <1>1, <1>2, <1>3, LoaderMoves

\* What a load sends are records of a verified entry.
LEMMA SinkLoadStep ==
  ASSUME IInv, NEW p \in Loaders, SinkLoad(p)
  PROVE  IInv'
  <1> DEFINE c == loader[p]
             e == Current(p)
             l == [c EXCEPT !.pc = "mark"]
  <1>1. /\ UNCHANGED <<upstream, files, ready, failed, loaded, collector,
                       collects, loads, damages, swaps>>
        /\ c.pc = "sink" /\ loader' = [loader EXCEPT ![p] = l]
    BY DEF SinkLoad, LoaderAt, entries, counts
  <1>2. /\ TypeOK /\ c \in LoaderType /\ Progress(c)
        /\ collects' \in Nat /\ loads' \in Nat /\ damages' \in Nat
        /\ swaps' \in [RawNames -> Nat]
    BY <1>1 DEF IInv, TypeOK
  <1>3. l \in LoaderType
    BY <1>2 DEF LoaderType
  <1>4. /\ l.pc = "mark" /\ l.evidence = c.evidence /\ l.verified = c.verified
        /\ l.todo = c.todo /\ l.selected = c.selected
        /\ l.inputs = c.inputs /\ l.item = c.item
    BY <1>2 DEF LoaderType
  <1>5. Accepted(l) = Accepted(c)
    BY <1>4 DEF Accepted
  <1>6. Progress(l)
    BY <1>1, <1>2, <1>4, <1>5 DEF Progress
  <1>7. /\ e \in ready /\ Held(p) \in Nat /\ End(p) \in Nat
        /\ End(p) <= Held(p) /\ c.offset \in Nat
    <2>1. MoreItems(p)
      BY <1>1, <1>2 DEF Progress, MoreItems
    <2> QED
      BY <1>2, <2>1, CurrentHolds DEF LoaderType
  <1>8. OnlyAttestedDelivered'
    <2> SUFFICES ASSUME NEW row \in delivered'
                 PROVE  \E f \in ready : f.norm = row[2] /\ row[3] \in 1 .. Rows(f.norm)
      BY <1>1 DEF OnlyAttestedDelivered, Rows
    <2>1. CASE row \in delivered
      BY <2>1 DEF IInv, OnlyAttestedDelivered
    <2>2. CASE row \notin delivered
      <3>1. PICK i \in c.offset + 1 .. End(p) : row = <<c.dest, e.norm, i>>
        BY <2>2 DEF SinkLoad
      <3>2. i \in 1 .. Rows(e.norm)
        BY <1>7, <3>1 DEF Held
      <3> QED
        BY <1>7, <3>1, <3>2
    <2> QED
      BY <2>1, <2>2
  <1> HIDE DEF l
  <1> QED
    BY <1>1, <1>2, <1>3, <1>5, <1>6, <1>8, LoaderAccepts DEF IInv

\* What a load marks as loaded agrees with everything loaded before.
LEMMA MarkLoadedStep ==
  ASSUME IInv, NEW p \in Loaders, MarkLoaded(p)
  PROVE  IInv'
  <1> DEFINE c == loader[p]
             e == Current(p)
             l == Advanced(p)
             m == [id |-> ShardId(p), target |-> e.target, doc |-> e.doc,
                   raw |-> e.raw]
  <1>1. /\ UNCHANGED <<upstream, files, ready, failed, delivered, collector,
                       collects, loads, damages, swaps>>
        /\ c.pc = "mark" /\ loader' = [loader EXCEPT ![p] = l]
        /\ loaded' = loaded \cup {m}
    BY DEF MarkLoaded, LoaderAt, counts
  <1>2. /\ TypeOK /\ c \in LoaderType /\ Progress(c) /\ MoreItems(p)
        /\ collects' \in Nat /\ loads' \in Nat /\ damages' \in Nat
        /\ swaps' \in [RawNames -> Nat]
    BY <1>1 DEF IInv, TypeOK, Progress, MoreItems
  <1>3. l \in LoaderType /\ Progress(l) /\ Accepted(l) = Accepted(c)
    BY <1>1, <1>2, AdvancedOK
  <1>4. e \in ready /\ e \in Accepted(c)
    BY <1>2, CurrentHolds
  <1>5. SealedAs(m) = Identity(e) /\ m.id.norm = e.norm
    BY DEF SealedAs, Identity, ShardId
  <1> HIDE DEF l, m, e
  <1>6. TypeOK' /\ \A q \in Loaders : Progress(loader[q])'
    BY <1>1, <1>2, <1>3, LoaderTyped DEF IInv
  <1>7. OnlyAttestedDelivered'
    BY <1>1 DEF IInv, OnlyAttestedDelivered
  <1>8. LoadedAttested'
    <2>1. \A a \in loaded' : \E f \in ready :
             Identity(f) = SealedAs(a) /\ f.norm = a.id.norm
      BY <1>1, <1>4, <1>5 DEF IInv, LoadedAttested
    <2> QED
      BY <1>1, <2>1 DEF LoadedAttested, Identity, SealedAs
  <1>9. \A a \in loaded : SealedAs(a) = SealedAs(m) => a.id.norm = m.id.norm
    BY <1>4, <1>5 DEF IInv, Agreement
  <1>10. OneNormalization'
    <2>1. \A a, b \in loaded' : SealedAs(a) = SealedAs(b) => a.id.norm = b.id.norm
      BY <1>1, <1>9 DEF IInv, OneNormalization
    <2> QED
      BY <2>1 DEF OneNormalization, SealedAs
  <1>11. Agreement'
    <2>1. \A q \in Loaders : Accepted(loader'[q]) = Accepted(loader[q])
      BY <1>1, <1>2, <1>3 DEF TypeOK
    <2>2. \A q, r \in Loaders : \A f \in Accepted(loader'[q]),
             g \in Accepted(loader'[r]) : Identity(f) = Identity(g) => f = g
      BY <2>1 DEF IInv, Agreement
    <2>3. \A q \in Loaders : \A f \in Accepted(loader'[q]), a \in loaded' :
             Identity(f) = SealedAs(a) => f.norm = a.id.norm
      <3> SUFFICES ASSUME NEW q \in Loaders, NEW f \in Accepted(loader[q]),
                          NEW a \in loaded', Identity(f) = SealedAs(a)
                   PROVE  f.norm = a.id.norm
        BY <2>1
      <3>1. CASE a \in loaded
        BY <3>1 DEF IInv, Agreement
      <3>2. CASE a = m
        <4>1. Identity(f) = Identity(e)
          BY <1>5, <3>2
        <4>2. f = e
          BY <1>4, <4>1 DEF IInv, Agreement
        <4> QED
          BY <1>5, <3>2, <4>2
      <3> QED
        BY <1>1, <3>1, <3>2
    <2> QED
      BY <2>2, <2>3 DEF Agreement, Accepted, Identity, SealedAs
  <1> QED
    BY <1>6, <1>7, <1>8, <1>10, <1>11 DEF IInv

\* The initial state.
LEMMA InitIInv == Init => IInv
  <1> SUFFICES ASSUME Init
               PROVE  IInv
    OBVIOUS
  <1>1. \A p \in Loaders : loader[p] = IdleLoader
    BY DEF Init
  <1>2. /\ IdleLoader \in LoaderType /\ Progress(IdleLoader)
        /\ Accepted(IdleLoader) = {}
    <2>1. IdleLoader = [IdleLoader EXCEPT !.verdict = "none"]
      BY DEF IdleLoader
    <2> QED
      BY <2>1, IdleLoaderOK
  <1>4. TypeOK
    <2>1. /\ upstream \in [Targets -> Raws]
          /\ \A t \in Targets : upstream[t] \in Publishes[t]
      BY DEF Init
    <2>2. /\ rawfile \in [RawNames -> Bytes \cup {Absent}]
          /\ \A r \in RawNames : rawfile[r] \in Contents(r[1]) \cup {Absent}
      BY DEF Init
    <2>3. normfile \in [Norms -> Norms \cup {JunkNorm, Gone}]
      BY DEF Init
    <2>4. /\ DOMAIN collector = Collectors
          /\ \A p \in Collectors : CollectorOK(collector[p])
      BY IdleCollectorOK DEF Init
    <2>5. loader \in [Loaders -> LoaderType]
      BY <1>2 DEF Init
    <2>6. /\ ready = {} /\ failed = {}
          /\ collects = 0 /\ loads = 0 /\ damages = 0
          /\ swaps = [r \in RawNames |-> 0]
      BY DEF Init
    <2> QED
      BY <2>1, <2>2, <2>3, <2>4, <2>5, <2>6 DEF TypeOK
  <1>5. /\ OnlyAttestedDelivered /\ OneNormalization /\ LoadedAttested
    BY DEF Init, OnlyAttestedDelivered, OneNormalization, LoadedAttested
  <1>6. Agreement
    BY <1>1, <1>2 DEF Agreement
  <1> QED
    BY <1>1, <1>2, <1>4, <1>5, <1>6 DEF IInv

\* Every step, and every stuttering step, preserves the invariant.
LEMMA NextIInv == IInv /\ [Next]_vars => IInv'
  <1> SUFFICES ASSUME IInv, [Next]_vars
               PROVE  IInv'
    OBVIOUS
  <1>1. CASE World \/ \E p \in Collectors : Collect(p)
    BY <1>1, CollectStep
  <1>2. ASSUME NEW p \in Loaders, Load(p)
        PROVE  IInv'
    BY <1>2, FreshLoader, ReadManifestStep, VerifyTargetStep, LoadQuietStep,
       SinkLoadStep, MarkLoadedStep DEF Load
  <1>3. CASE UNCHANGED vars
    <2>1. UNCHANGED <<upstream, rawfile, normfile, ready, failed, loaded,
                      delivered, collector, loader, collects, loads, damages,
                      swaps>>
      BY <1>3 DEF vars, files, entries, counts
    <2>2. TypeOK'
      BY <2>1 DEF IInv, TypeOK, CollectorOK, LoaderType
    <2> QED
      BY <2>1, <2>2, ManifestGrows
  <1> QED
    BY <1>1, <1>2, <1>3 DEF Next

-----------------------------------------------------------------------------
(* Theorems.                                                               *)

\* The strengthened invariant holds in every reachable state.
THEOREM Invariance == Spec => []IInv
  BY InitIInv, NextIInv, PTL DEF Spec

\* Types, the shape of READY entries, and what loaders may hold.
THEOREM TypeCorrect == Spec => []TypeOK
  BY Invariance, PTL DEF IInv

\* A database never receives a record that no READY entry attests, whatever
\* happens to the files, in however many concurrent collects and loads.
THEOREM AttestedDelivery == Spec => []OnlyAttestedDelivered
  BY Invariance, PTL DEF IInv

\* A document version under one set of inputs is loaded in one normalization,
\* whatever the releases that normalized it and the loads that overlap.
THEOREM SingleNormalization == Spec => []OneNormalization
  BY Invariance, PTL DEF IInv

\* Nothing is written for a selection before all of it has been verified.
THEOREM WholeBundle == Spec => []WholeBundleFirst
  <1>1. IInv => WholeBundleFirst
    <2> SUFFICES ASSUME IInv, NEW p \in Loaders,
                        loader[p].pc \in {"load", "sink", "mark"},
                        NEW t \in loader[p].selected
                 PROVE  \E k \in DOMAIN loader[p].verified :
                          /\ loader[p].verified[k].target = t
                          /\ loader[p].verified[k].inputs = loader[p].inputs
      BY DEF WholeBundleFirst
    <2>1. Progress(loader[p])
      BY DEF IInv
    <2>2. PICK k \in DOMAIN loader[p].verified : loader[p].verified[k].target = t
      BY <2>1 DEF Progress
    <2>3. loader[p].verified[k] \in Accepted(loader[p])
      BY DEF Accepted
    <2> QED
      BY <2>1, <2>2, <2>3 DEF Progress
  <1> QED
    BY <1>1, Invariance, PTL
=============================================================================
