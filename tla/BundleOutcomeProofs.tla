------------------------ MODULE BundleOutcomeProofs ------------------------
(***************************************************************************)
(* Proofs about what the commands of BundlePipeline achieve, each under    *)
(* the condition it needs: lineage where a document id contains the raw    *)
(* digest, complete deliveries with one destination; refusals with a cause *)
(* need none.                               *)
(***************************************************************************)
EXTENDS BundlePipelineProofs

-----------------------------------------------------------------------------
(* Lineage.                                                                *)

\* Only sealing appends READY entries.
LEMMA ReadyStep ==
  ASSUME [Next]_vars, ~\E p \in Collectors : Seal(p)
  PROVE  ready' = ready
  <1>1. CASE World
    BY <1>1 DEF World, Amend, DamageRaw, DamageNorm, entries
  <1>2. ASSUME NEW p \in Collectors, Collect(p)
        PROVE  ready' = ready
    BY <1>2 DEF Collect, StartCollect, TakeTarget, Fetch, Hash, Parse, Normalize,
                Validate,
                FailTarget, StopCollect, entries
  <1>3. ASSUME NEW p \in Loaders, Load(p)
        PROVE  ready' = ready
    BY <1>3 DEF Load, StartLoad, ReadManifest, VerifyTarget, BeginLoad,
                CheckShard, SinkLoad, MarkLoaded, Report, AbortLoad, entries
  <1>4. CASE UNCHANGED vars
    BY <1>4 DEF vars, entries
  <1> QED
    BY <1>1, <1>2, <1>3, <1>4 DEF Next

\* How often the raw file must have changed for c to be where it is.
Turns(c) ==
    LET n == swaps[c.path] IN
    /\ c.pc = "parse" /\ rawfile[c.path] # c.raw => n > 0
    /\ c.pc = "normalize" /\ c.parsed # c.raw =>
          n > 0 /\ (rawfile[c.path] # c.parsed => n > 1)
    /\ c.pc \in Sealing /\ c.norm[5] = Doc(c.target, c.raw) =>
          c.norm[2] = c.raw \/ n > 1

\* A normalized name holds what was published under it, or what an edit left.
Replaced(n) == normfile[n] \in {Gone, JunkNorm, n} \cup Honest(n[1])

LineageInv == /\ LineageTrue
              /\ \A p \in Collectors : Turns(collector[p])
              /\ \A n \in Norms : Replaced(n)

\* A raw file changes by an edit or loss, which is counted, or by a fetch
\* that finds none.
LEMMA RawStep ==
  ASSUME TypeOK, [Next]_vars, NEW r \in RawNames
  PROVE  /\ swaps'[r] \in Nat /\ swaps[r] \in Nat /\ swaps'[r] >= swaps[r]
         /\ rawfile'[r] # rawfile[r] =>
               rawfile[r] = Absent \/ swaps'[r] > swaps[r]
  <1>1. swaps[r] \in Nat /\ swaps \in [RawNames -> Nat]
        /\ rawfile \in [RawNames -> Bytes \cup {Absent}]
    BY DEF TypeOK
  <1>2. ASSUME NEW q \in RawNames, DamageRaw(q)
        PROVE  /\ swaps'[r] \in Nat /\ swaps'[r] >= swaps[r]
               /\ rawfile'[r] # rawfile[r] => swaps'[r] > swaps[r]
    <2>1. /\ swaps' = [swaps EXCEPT ![q] = @ + 1]
          /\ \E b : rawfile' = [rawfile EXCEPT ![q] = b]
      BY <1>2 DEF DamageRaw
    <2> QED
      BY <1>1, <2>1
  <1>3. ASSUME NEW p \in Collectors, Fetch(p)
        PROVE  swaps' = swaps /\ (rawfile'[r] # rawfile[r] => rawfile[r] = Absent)
    <2>1. swaps' = swaps
      BY <1>3 DEF Fetch, counts
    <2>2. PICK q : rawfile' = [rawfile EXCEPT ![q] =
                       IF @ = Absent THEN upstream[collector[p].target] ELSE @]
      BY <1>3 DEF Fetch
    <2> QED
      BY <1>1, <2>1, <2>2
  <1>4. CASE ~(\E q \in RawNames : DamageRaw(q)) /\ ~(\E p \in Collectors : Fetch(p))
    <2>1. swaps' = swaps /\ rawfile' = rawfile
      BY <1>4 DEF Next, World, Amend, DamageNorm, Collect, StartCollect,
             TakeTarget, Hash, Parse, Normalize, Validate, Seal, FailTarget,
             StopCollect, Load, StartLoad, ReadManifest, VerifyTarget, BeginLoad,
             CheckShard, SinkLoad, MarkLoaded, Report, AbortLoad, vars, files,
             counts
    <2> QED
      BY <1>1, <2>1
  <1> QED
    BY <1>1, <1>2, <1>3, <1>4

\* Normalized files change by publication under their name, or by an edit.
LEMMA ReplacedStep ==
  ASSUME TypeOK, \A n \in Norms : Replaced(n), [Next]_vars
  PROVE  \A n \in Norms : Replaced(n)'
  <1>1. normfile \in [Norms -> Norms \cup {JunkNorm, Gone}]
    BY DEF TypeOK
  <1>2. ASSUME NEW m \in Norms, DamageNorm(m)
        PROVE  \A n \in Norms : Replaced(n)'
    <2>1. PICK b \in {JunkNorm, Gone} \cup Honest(m[1]) :
              normfile' = [normfile EXCEPT ![m] = b]
      BY <1>2 DEF DamageNorm
    <2> QED
      BY <1>1, <2>1 DEF Replaced, Honest
  <1>3. ASSUME NEW p \in Collectors, Normalize(p)
        PROVE  \A n \in Norms : Replaced(n)'
    <2>1. PICK m : normfile' = [normfile EXCEPT ![m] = m]
      BY <1>3 DEF Normalize
    <2> QED
      BY <1>1, <2>1 DEF Replaced, Honest
  <1>4. CASE ~(\E m \in Norms : DamageNorm(m)) /\ ~(\E p \in Collectors : Normalize(p))
    <2>1. normfile' = normfile
      BY <1>4 DEF Next, World, Amend, DamageRaw, Collect, StartCollect, TakeTarget,
             Fetch, Hash, Parse, Validate, Seal, FailTarget, StopCollect, Load,
             StartLoad, ReadManifest, VerifyTarget, BeginLoad, CheckShard,
             SinkLoad, MarkLoaded, Report, AbortLoad, vars, files
    <2> QED
      BY <2>1 DEF Replaced, Honest
  <1> QED
    BY <1>2, <1>3, <1>4

\* While a collector waits, its raw file leaves what was read by edits only.
LEMMA TurnsKept ==
  ASSUME TypeOK, [Next]_vars, NEW q \in Collectors, Turns(collector[q]),
         collector'[q] = collector[q]
  PROVE  Turns(collector[q])'
  <1> DEFINE c == collector[q]
             r == c.path
  <1>1. CollectorOK(c)
    BY DEF TypeOK
  <1>2. CASE c.pc \in Hashed
    <2>1. r \in RawNames
      BY <1>1, <1>2, Pcs, PathHolds
    <2>2. /\ swaps'[r] \in Nat /\ swaps[r] \in Nat /\ swaps'[r] >= swaps[r]
          /\ rawfile'[r] # rawfile[r] => rawfile[r] = Absent \/ swaps'[r] > swaps[r]
      BY <2>1, RawStep
    <2>3. c.raw # Absent /\ c.parsed # Absent
      BY <1>1, RawsAssumption DEF CollectorOK, CollectorType, Bytes, Junk, Absent
    <2>4. c.pc = "parse" /\ rawfile'[r] # c.raw => swaps'[r] > 0
      BY <2>2, <2>3 DEF Turns
    <2>5. c.pc = "normalize" /\ c.parsed # c.raw =>
             swaps'[r] > 0 /\ (rawfile'[r] # c.parsed => swaps'[r] > 1)
      BY <2>2, <2>3 DEF Turns
    <2>6. c.pc \in Sealing /\ c.norm[5] = Doc(c.target, c.raw) =>
             c.norm[2] = c.raw \/ swaps'[r] > 1
      BY <2>2 DEF Turns
    <2> QED
      BY <2>4, <2>5, <2>6 DEF Turns, Doc
  <1>3. CASE c.pc \notin Hashed
    BY <1>3, Pcs DEF Turns
  <1> QED
    BY <1>2, <1>3

\* The steps of collect that leave a target or take up the next.
LEMMA EarlySteps ==
  ASSUME TypeOK, NEW p \in Collectors,
         \/ StartCollect(p) \/ TakeTarget(p) \/ FailTarget(p) \/ StopCollect(p)
         \/ Seal(p)
  PROVE  \E d : /\ collector' = [collector EXCEPT ![p] = d]
                /\ d.pc \in {"idle", "next", "fetch"}
  <1> DEFINE c == collector[p]
  <1>0. CollectorOK(c)
    BY DEF TypeOK
  <1>1. CASE StartCollect(p)
    <2>1. PICK found \in SUBSET Targets, i \in Inputs, v \in Releases,
               s \in BOOLEAN :
            collector' = [collector EXCEPT ![p] =
               [IdleCollector EXCEPT !.pc = "next", !.todo = found,
                  !.inputs = i, !.release = v, !.strict = s]]
      BY <1>1 DEF StartCollect
    <2>2. [IdleCollector EXCEPT !.pc = "next", !.todo = found,
             !.inputs = i, !.release = v, !.strict = s].pc = "next"
      BY DEF IdleCollector
    <2> QED
      BY <2>1, <2>2
  <1>2. CASE TakeTarget(p)
    <2>1. PICK t \in c.todo :
            collector' = [collector EXCEPT ![p] =
               [c EXCEPT !.pc = "fetch", !.todo = c.todo \ {t}, !.target = t]]
      BY <1>0, <1>2 DEF TakeTarget, TypeOK
    <2>2. [c EXCEPT !.pc = "fetch", !.todo = c.todo \ {t}, !.target = t].pc
            = "fetch"
      BY <1>0 DEF CollectorOK, CollectorType
    <2> QED
      BY <2>1, <2>2
  <1>3. CASE FailTarget(p) \/ StopCollect(p) \/ Seal(p)
    <2>1. IdleCollector.pc = "idle" /\ Onward(c).pc = "next"
      BY DEF IdleCollector, Onward
    <2> QED
      BY <1>3, <2>1 DEF FailTarget, StopCollect, Seal
  <1> QED
    BY <1>1, <1>2, <1>3

\* A step of collect: the second digest equals the first only if the file is
\* what was hashed, so what was parsed in between was swapped in and out.
LEMMA TurnsMove ==
  ASSUME SharedDocument = FALSE, TypeOK, NEW p \in Collectors,
         Turns(collector[p]), Collect(p)
  PROVE  Turns(collector[p])'
  <1> DEFINE c == collector[p]
  <1>1. CollectorOK(c)
    BY DEF TypeOK
  <1>2. CASE Hash(p)
    <2>1. PICK d : d = [c EXCEPT !.pc = "parse", !.raw = rawfile[c.path]]
      OBVIOUS
    <2>2. collector'[p] = d /\ rawfile' = rawfile
      BY <1>2, <2>1 DEF Hash, TypeOK, files
    <2>3. d.pc = "parse" /\ d.raw = rawfile[c.path] /\ d.path = c.path
      BY <1>1, <2>1 DEF CollectorOK, CollectorType
    <2> QED
      BY <2>2, <2>3, Pcs DEF Turns
  <1>3. CASE Parse(p)
    <2>1. PICK d : d = [c EXCEPT !.pc = "normalize", !.parsed = rawfile[c.path]]
      OBVIOUS
    <2>2. collector'[p] = d /\ rawfile' = rawfile /\ swaps' = swaps /\ c.pc = "parse"
      BY <1>3, <2>1 DEF Parse, TypeOK, files, counts, CollectorAt
    <2>3. /\ d.pc = "normalize" /\ d.parsed = rawfile[c.path] /\ d.path = c.path
          /\ d.raw = c.raw
      BY <1>1, <2>1 DEF CollectorOK, CollectorType
    <2> QED
      BY <2>2, <2>3, Pcs DEF Turns
  <1>4. CASE Normalize(p)
    <2>1. PICK d : d = [c EXCEPT !.pc = "validate", !.norm = Output(c)]
      OBVIOUS
    <2>2. collector'[p] = d /\ rawfile' = rawfile /\ swaps' = swaps
          /\ c.pc = "normalize"
      BY <1>4, <2>1 DEF Normalize, TypeOK, counts, CollectorAt
    <2>3. /\ d.pc = "validate" /\ d.path = c.path /\ d.raw = c.raw
          /\ d.target = c.target /\ d.norm = Output(c)
      BY <1>1, <2>1 DEF CollectorOK, CollectorType
    <2>4. d.norm[2] = c.parsed /\ d.norm[5] = Doc(c.target, rawfile[c.path])
      BY <2>3 DEF Output
    <2>5. d.norm[5] = Doc(c.target, c.raw) => rawfile[c.path] = c.raw
      BY <2>4 DEF Doc
    <2>6. d.norm[5] = Doc(c.target, c.raw) => d.norm[2] = c.raw \/ swaps[c.path] > 1
      BY <2>2, <2>4, <2>5 DEF Turns
    <2> QED
      BY <2>2, <2>3, <2>6, Pcs DEF Turns, Doc
  <1>5. CASE Validate(p)
    <2>1. PICK d : d = [c EXCEPT !.pc = "seal"]
      OBVIOUS
    <2>2. collector'[p] = d /\ swaps' = swaps /\ c.pc = "validate"
      BY <1>5, <2>1 DEF Validate, TypeOK, counts, CollectorAt
    <2>3. /\ d.pc = "seal" /\ d.path = c.path /\ d.raw = c.raw
          /\ d.target = c.target /\ d.norm = c.norm
      BY <1>1, <2>1 DEF CollectorOK, CollectorType
    <2> QED
      BY <2>2, <2>3, Pcs DEF Turns, Doc
  <1>6. CASE StartCollect(p) \/ TakeTarget(p) \/ Fetch(p) \/ Seal(p)
               \/ FailTarget(p) \/ StopCollect(p)
    <2>1. CASE Fetch(p)
      BY <1>1, <2>1, Pcs DEF Fetch, TypeOK, CollectorOK, CollectorType, Turns
    <2>2. CASE ~Fetch(p)
      <3>1. collector'[p].pc \notin Hashed
        BY <1>6, <2>2, EarlySteps, Pcs DEF TypeOK
      <3> QED
        BY <3>1, Pcs DEF Turns
    <2> QED
      BY <2>1, <2>2
  <1> QED
    BY <1>2, <1>3, <1>4, <1>5, <1>6 DEF Collect

\* What is sealed was made from what was hashed, or the file turned twice.
LEMMA SealedLineage ==
  ASSUME SharedDocument = FALSE, TypeOK, LineageInv, NEW p \in Collectors, Seal(p),
         NEW e, e = ReadyEntry(collector[p]), e.norm \in Norms, Rows(e.norm) # 0,
         Consistent(e)
  PROVE  e.norm[2] = e.raw \/ swaps[e.path] > 1
  <1> DEFINE c == collector[p]
  <1>1. CollectorOK(c) /\ c.pc = "seal" /\ c.norm \in Norms
    BY Pcs DEF TypeOK, Seal, CollectorAt, CollectorOK
  <1>2. /\ e.norm = normfile[c.norm] /\ e.raw = c.raw /\ e.target = c.target
        /\ e.doc = Doc(c.target, c.raw) /\ e.path = c.path
    BY DEF ReadyEntry
  <1>3. e.norm # JunkNorm /\ e.norm # Gone
    BY DEF Norms, JunkNorm, Gone
  <1>4. e.norm[1] = c.target /\ e.norm[5] = Doc(c.target, c.raw)
    BY <1>2, <1>3 DEF Consistent, Carries
  <1>5. CASE e.norm = c.norm
    BY <1>1, <1>2, <1>4, <1>5, Pcs DEF LineageInv, Turns
  <1>6. CASE e.norm \in Honest(c.norm[1])
    <2>1. PICK t, b, i, v : e.norm = <<t, b, i, v, Doc(t, b)>>
      BY <1>6 DEF Honest
    <2>2. b = c.raw
      BY <1>4, <2>1 DEF Doc
    <2> QED
      BY <1>2, <2>1, <2>2
  <1> QED
    BY <1>1, <1>2, <1>3, <1>5, <1>6 DEF LineageInv, Replaced

\* Every step keeps the lineage of what is sealed and in hand.
LEMMA LineageStep ==
  ASSUME SharedDocument = FALSE, TypeOK, LineageInv, [Next]_vars
  PROVE  LineageInv'
  <1>1. \A n \in Norms : Replaced(n)'
    BY ReplacedStep DEF LineageInv
  <1>2. ASSUME NEW q \in Collectors
        PROVE  Turns(collector[q])'
    <2>1. CASE Collect(q)
      BY <2>1, TurnsMove DEF LineageInv
    <2>2. CASE ~Collect(q)
      <3>1. collector'[q] = collector[q]
        <4>1. ASSUME NEW p \in Collectors, Collect(p), p # q
              PROVE  collector'[q] = collector[q]
          BY <4>1 DEF TypeOK, Collect, StartCollect, TakeTarget, Fetch, Hash,
                 Parse, Normalize, Validate, Seal, FailTarget, StopCollect
        <4>2. CASE World \/ UNCHANGED vars
          BY <4>2 DEF World, Amend, DamageRaw, DamageNorm, vars
        <4>3. ASSUME NEW p \in Loaders, Load(p)
              PROVE  collector' = collector
          BY <4>3 DEF Load, StartLoad, ReadManifest, VerifyTarget, BeginLoad,
                 CheckShard, SinkLoad, MarkLoaded, Report, AbortLoad
        <4> QED
          BY <2>2, <4>1, <4>2, <4>3 DEF Next
      <3> QED
        BY <3>1, TurnsKept DEF LineageInv
    <2> QED
      BY <2>1, <2>2
  <1>3. LineageTrue'
    <2> SUFFICES ASSUME NEW e \in ready', e.norm \in Norms, Rows(e.norm) # 0,
                        Consistent(e)
                 PROVE  e.norm[2] = e.raw \/ swaps'[e.path] > 1
      BY DEF LineageTrue, Consistent, Carries, Rows, Doc
    <2>1. CASE e \in ready
      <3>1. e.path \in RawNames
        BY <2>1 DEF TypeOK, EntryType
      <3>2. e.norm[2] = e.raw \/ swaps[e.path] > 1
        BY <2>1 DEF LineageInv, LineageTrue
      <3> QED
        BY <3>1, <3>2, RawStep
    <2>2. CASE e \notin ready
      <3>1. PICK p \in Collectors : Seal(p)
        BY <2>2, ReadyStep
      <3>2. e = ReadyEntry(collector[p]) /\ swaps' = swaps
        BY <2>2, <3>1 DEF Seal, counts
      <3> QED
        BY <3>1, <3>2, SealedLineage
    <2> QED
      BY <2>1, <2>2
  <1> QED
    BY <1>1, <1>2, <1>3 DEF LineageInv

-----------------------------------------------------------------------------
(* Refusals.                                                               *)

\* Files only appear, a collector moves, and what is sealed describes its
\* files.
LEMMA PristineGrows ==
  ASSUME IInv, Pristine, UNCHANGED <<loader, damages>>,
         \A r \in RawNames : \/ rawfile'[r] = rawfile[r]
                             \/ rawfile[r] = Absent /\ rawfile'[r] = r[2],
         \A n \in Norms : \/ normfile'[n] = normfile[n]
                          \/ normfile[n] = Gone /\ normfile'[n] = n,
         NEW p \in Collectors, NEW c, collector' = [collector EXCEPT ![p] = c],
         damages = 0 => InHand(c)',
         ready \subseteq ready',
         damages = 0 => \A e \in ready' : e \in ready \/ Described(e)'
  PROVE  Pristine'
  <1> SUFFICES ASSUME damages = 0
               PROVE  Pristine'
    BY DEF Pristine
  <1>1. /\ \A r \in RawNames : rawfile'[r] \in {Absent, r[2]}
        /\ \A n \in Norms : normfile'[n] \in {Gone, n}
    BY DEF Pristine
  <1>2. \A n \in Norms : n # Gone
    BY DEF Norms, Gone
  <1>3. ASSUME NEW q \in Collectors
        PROVE  InHand(collector[q])'
    <2>1. CASE q = p
      BY <2>1 DEF IInv, TypeOK
    <2>2. CASE q # p
      <3> DEFINE d == collector[q]
      <3>1. collector'[q] = d
        BY <2>2 DEF IInv, TypeOK
      <3>2. InHand(d) /\ CollectorOK(d)
        BY DEF Pristine, IInv, TypeOK
      <3>3. ASSUME d.pc \in Hashed
            PROVE  rawfile'[d.path] = d.raw
        <4>1. d.path \in RawNames /\ d.raw # Absent
          BY <3>2, <3>3, Pcs, PathHolds, RawsAssumption
          DEF IInv, CollectorOK, CollectorType, Bytes, Junk, Absent
        <4> QED
          BY <3>2, <3>3, <4>1 DEF InHand
      <3>4. ASSUME d.pc \in Sealing
            PROVE  normfile'[d.norm] = d.norm
        <4>1. d.norm \in Norms
          BY <3>2, <3>4 DEF CollectorOK
        <4> QED
          BY <1>2, <3>2, <3>4, <4>1 DEF InHand
      <3> QED
        BY <3>1, <3>2, <3>3, <3>4 DEF InHand, Named, Doc
    <2> QED
      BY <2>1, <2>2
  <1>4. ASSUME NEW e \in ready'
        PROVE  Described(e)'
    <2>1. CASE e \in ready
      <3>1. Described(e) /\ e \in EntryType
        BY <2>1 DEF Pristine, IInv, TypeOK
      <3>2. e.path \in RawNames /\ e.normpath \in Norms /\ e.raw # Absent
        BY <3>1, RawsAssumption DEF EntryType, Bytes, Junk, Absent
      <3> QED
        BY <1>2, <3>1, <3>2 DEF Described, Doc
    <2> QED
      BY <2>1
  <1>5. RefusedForCause'
    BY DEF Pristine, RefusedForCause, ReleasesDisagree
  <1> QED
    BY <1>1, <1>3, <1>4, <1>5 DEF Pristine

\* collect, by one process.
LEMMA PristineCollect ==
  ASSUME IInv, Pristine, NEW p \in Collectors, Collect(p)
  PROVE  Pristine'
  <1> DEFINE c == collector[p]
  <1>1. CollectorOK(c) /\ TypeOK
    BY DEF IInv, TypeOK
  <1>2. CASE StartCollect(p) \/ TakeTarget(p) \/ FailTarget(p) \/ StopCollect(p)
    <2>1. PICK d : /\ collector' = [collector EXCEPT ![p] = d]
                   /\ d.pc \in {"idle", "next", "fetch"}
      BY <1>1, <1>2, EarlySteps
    <2>2. UNCHANGED <<rawfile, normfile, ready, loader, damages>>
      BY <1>2 DEF StartCollect, TakeTarget, FailTarget, StopCollect, files,
                  entries, counts
    <2>3. InHand(d)'
      BY <2>1, Pcs DEF InHand
    <2> QED
      BY <2>1, <2>2, <2>3, PristineGrows
  <1>3. CASE Fetch(p)
    <2> DEFINE t == c.target
               r == <<t, upstream[t]>>
    <2>0. PICK d : d = [c EXCEPT !.pc = "hash", !.path = r]
      OBVIOUS
    <2>1. t \in Targets /\ r \in RawNames
      BY <1>1, <1>3, Pcs DEF Fetch, CollectorAt, CollectorOK, TypeOK, RawNames
    <2>2. \A q \in RawNames : \/ rawfile'[q] = rawfile[q]
                              \/ rawfile[q] = Absent /\ rawfile'[q] = q[2]
      <3>1. rawfile' = [rawfile EXCEPT ![r] = IF rawfile[r] = Absent
                                                THEN upstream[t] ELSE rawfile[r]]
        BY <1>3 DEF Fetch
      <3> QED
        BY <1>1, <2>1, <3>1 DEF TypeOK
    <2>3. collector' = [collector EXCEPT ![p] = d] /\ d.pc = "hash"
      BY <1>1, <1>3, <2>0 DEF Fetch, TypeOK, CollectorOK, CollectorType
    <2>4. UNCHANGED <<normfile, ready, loader, damages>>
      BY <1>3 DEF Fetch, entries, counts
    <2>5. InHand(d)'
      BY <2>3, Pcs DEF InHand
    <2> QED
      BY <2>2, <2>3, <2>4, <2>5, PristineGrows
  <1>4. CASE Hash(p)
    <2>0. PICK d : d = [c EXCEPT !.pc = "parse", !.raw = rawfile[c.path]]
      OBVIOUS
    <2>1. collector' = [collector EXCEPT ![p] = d]
      BY <1>1, <1>4, <2>0 DEF Hash, TypeOK
    <2>2. d.pc = "parse" /\ d.raw = rawfile[c.path] /\ d.path = c.path
      BY <1>1, <2>0 DEF CollectorOK, CollectorType
    <2>3. UNCHANGED <<rawfile, normfile, ready, loader, damages>>
      BY <1>4 DEF Hash, files, entries, counts
    <2>4. c.path \in RawNames /\ rawfile[c.path] # Absent
      BY <1>1, <1>4, Pcs, PathHolds DEF Hash, CollectorAt
    <2>5. damages = 0 => InHand(d)'
      BY <2>2, <2>3, <2>4, Pcs DEF InHand, Pristine
    <2> QED
      BY <2>1, <2>3, <2>5, PristineGrows
  <1>5. CASE Parse(p)
    <2>0. PICK d : d = [c EXCEPT !.pc = "normalize", !.parsed = rawfile[c.path]]
      OBVIOUS
    <2>1. collector' = [collector EXCEPT ![p] = d] /\ c.pc = "parse"
      BY <1>1, <1>5, <2>0 DEF Parse, TypeOK, CollectorAt
    <2>2. /\ d.pc = "normalize" /\ d.parsed = rawfile[c.path] /\ d.path = c.path
          /\ d.raw = c.raw
      BY <1>1, <2>0 DEF CollectorOK, CollectorType
    <2>3. UNCHANGED <<rawfile, normfile, ready, loader, damages>>
      BY <1>5 DEF Parse, files, entries, counts
    <2>4. damages = 0 => InHand(c)
      BY DEF Pristine
    <2>5. damages = 0 => InHand(d)'
      BY <2>1, <2>2, <2>3, <2>4, Pcs DEF InHand
    <2> QED
      BY <2>1, <2>3, <2>5, PristineGrows
  <1>6. CASE Normalize(p)
    <2> DEFINE n == Output(c)
    <2>0. PICK d : d = [c EXCEPT !.pc = "validate", !.norm = n]
      OBVIOUS
    <2>1. n \in Norms
      BY <1>1, <1>6, OutputIsNorm DEF Normalize, CollectorAt
    <2>2. \A m \in Norms : \/ normfile'[m] = normfile[m]
                           \/ normfile[m] = Gone /\ normfile'[m] = m
      BY <1>1, <1>6, <2>1 DEF Normalize, TypeOK
    <2>3. collector' = [collector EXCEPT ![p] = d] /\ c.pc = "normalize"
      BY <1>1, <1>6, <2>0 DEF Normalize, TypeOK, CollectorAt
    <2>4. /\ d.pc = "validate" /\ d.norm = n /\ d.raw = c.raw /\ d.path = c.path
          /\ d.target = c.target /\ d.inputs = c.inputs /\ d.release = c.release
          /\ d.parsed = c.parsed
      BY <1>1, <2>0 DEF CollectorOK, CollectorType
    <2>5. UNCHANGED <<rawfile, ready, loader, damages>>
      BY <1>6 DEF Normalize, entries, counts
    <2>6. normfile'[n] = n
      BY <1>1, <1>6, <2>1 DEF Normalize, TypeOK
    <2>7. damages = 0 => InHand(d)'
      <3> SUFFICES ASSUME damages = 0
                   PROVE  InHand(d)'
        OBVIOUS
      <3>1. InHand(c)
        BY DEF Pristine
      <3>2. /\ c.raw = c.path[2] /\ rawfile[c.path] = c.raw /\ c.parsed = c.raw
        BY <2>3, <3>1, Pcs DEF InHand
      <3>3. n = Named(c)
        BY <3>2 DEF Output, Named
      <3>4. normfile'[d.norm] = d.norm
        BY <2>4, <2>6
      <3> HIDE DEF n
      <3> QED
        BY <2>4, <2>5, <3>2, <3>3, <3>4 DEF InHand, Named
    <2> QED
      BY <2>2, <2>3, <2>5, <2>7, PristineGrows
  <1>7. CASE Validate(p)
    <2>0. PICK d : d = [c EXCEPT !.pc = "seal"]
      OBVIOUS
    <2>1. collector' = [collector EXCEPT ![p] = d] /\ c.pc = "validate"
      BY <1>1, <1>7, <2>0 DEF Validate, TypeOK, CollectorAt
    <2>2. /\ d.pc = "seal" /\ d.norm = c.norm /\ d.raw = c.raw /\ d.path = c.path
          /\ d.target = c.target /\ d.inputs = c.inputs /\ d.release = c.release
          /\ d.parsed = c.parsed
      BY <1>1, <2>0 DEF CollectorOK, CollectorType
    <2>3. UNCHANGED <<rawfile, normfile, ready, loader, damages>>
      BY <1>7 DEF Validate, files, entries, counts
    <2>4. damages = 0 => InHand(c)
      BY DEF Pristine
    <2>5. damages = 0 => InHand(d)'
      BY <2>1, <2>2, <2>3, <2>4, Pcs DEF InHand, Named
    <2> QED
      BY <2>1, <2>3, <2>5, PristineGrows
  <1>8. CASE Seal(p)
    <2>0. PICK e, d : e = ReadyEntry(c) /\ d = Onward(c)
      OBVIOUS
    <2>1. /\ c.pc = "seal" /\ ready' = ready \cup {e}
          /\ collector' = [collector EXCEPT ![p] = d]
          /\ UNCHANGED <<rawfile, normfile, loader, damages>>
      BY <1>8, <2>0 DEF Seal, CollectorAt, files, counts
    <2>2. InHand(d)'
      BY <2>0, Pcs DEF InHand, Onward, IdleCollector
    <2>3. damages = 0 => Described(e)'
      <3> SUFFICES ASSUME damages = 0
                   PROVE  Described(e)'
        OBVIOUS
      <3>1. InHand(c) /\ c.pc \in Hashed /\ c.pc \in Sealing
        BY <2>1, Pcs DEF Pristine
      <3>2. c.path = <<c.target, c.raw>> /\ c.release \in Releases
        BY <1>1, <2>1, <3>1, Pcs DEF InHand, CollectorOK
      <3>3. /\ e.path = c.path /\ e.raw = c.raw /\ e.target = c.target
            /\ e.inputs = c.inputs /\ e.normpath = c.norm /\ e.norm = normfile[c.norm]
        BY <2>0 DEF ReadyEntry
      <3> QED
        BY <2>1, <3>1, <3>2, <3>3 DEF InHand, Named, Described
    <2> QED
      BY <2>1, <2>2, <2>3, PristineGrows
  <1> QED
    BY <1>2, <1>3, <1>4, <1>5, <1>6, <1>7, <1>8 DEF Collect

\* Entries that describe their files differ by their releases only, and pass
\* verification.
LEMMA NoCause ==
  ASSUME IInv, Pristine, damages = 0
  PROVE  /\ Conflicting(ready) => ReleasesDisagree
         /\ \A e \in ready : Intact(e)
  <1>1. ASSUME NEW e \in ready, NEW f \in ready, Identity(e) = Identity(f), e # f
        PROVE  ReleasesDisagree
    <2>1. Described(e) /\ Described(f) /\ e \in EntryType /\ f \in EntryType
      BY DEF Pristine, IInv, TypeOK
    <2>2. /\ e.target = f.target /\ e.doc = f.doc /\ e.raw = f.raw
          /\ e.inputs = f.inputs
      BY <1>1 DEF Identity
    <2>3. e.path = f.path /\ e.normpath = e.norm /\ f.normpath = f.norm
      BY <2>1, <2>2 DEF Described
    <2>4. e.norm # f.norm
      BY <1>1, <2>1, <2>2, <2>3 DEF EntryType
    <2>5. PICK v \in Releases :
            e.norm = <<e.target, e.raw, e.inputs, v, Doc(e.target, e.raw)>>
      BY <2>1, <2>3 DEF Described
    <2>6. PICK w \in Releases :
            f.norm = <<f.target, f.raw, f.inputs, w, Doc(f.target, f.raw)>>
      BY <2>1, <2>3 DEF Described
    <2>7. e.norm[4] # f.norm[4]
      BY <2>2, <2>4, <2>5, <2>6
    <2> QED
      BY <2>2, <2>7 DEF ReleasesDisagree
  <1>2. ASSUME NEW e \in ready
        PROVE  Intact(e)
    <2>1. Described(e) /\ e.doc = Doc(e.target, e.raw)
      BY DEF Pristine, IInv, TypeOK
    <2>2. /\ e.norm[1] = e.target /\ e.norm[5] = Doc(e.target, e.raw)
          /\ e.norm = e.normpath
      BY <2>1 DEF Described
    <2> QED
      BY <2>1, <2>2 DEF Described, Intact, Consistent, Carries
  <1> QED
    BY <1>1, <1>2 DEF Conflicting

\* The verdicts there may be while no file is touched.
Excused == {v \in {"none", "missing", "mismatch", "loaded", "conflict"} :
              v = "conflict" => ReleasesDisagree}

\* load, by one process.
LEMMA PristineLoad ==
  ASSUME IInv, Pristine, NEW p \in Loaders, Load(p)
  PROVE  Pristine'
  <1> SUFFICES ASSUME damages = 0
               PROVE  loader'[p].verdict \in Excused
    <2>1. UNCHANGED <<rawfile, normfile, ready, collector, damages>>
      BY DEF Load, StartLoad, ReadManifest, VerifyTarget, BeginLoad, CheckShard,
             SinkLoad, MarkLoaded, Report, AbortLoad, files, entries, counts
    <2>2. \A q \in Loaders \ {p} : loader'[q] = loader[q]
      BY DEF IInv, TypeOK, Load, StartLoad, ReadManifest, VerifyTarget, BeginLoad,
             CheckShard, SinkLoad, MarkLoaded, Report, AbortLoad, Refuse
    <2> QED
      BY <2>1, <2>2 DEF Pristine, RefusedForCause, InHand, Described, Excused,
                        ReleasesDisagree
  <1> DEFINE c == loader[p]
  <1>1. loader \in [Loaders -> LoaderType] /\ c \in LoaderType
        /\ {c.verdict, "none", "missing", "mismatch", "loaded"} \subseteq Excused
    BY DEF IInv, TypeOK, LoaderType, Pristine, RefusedForCause, Excused
  <1>2. /\ \A v : [IdleLoader EXCEPT !.verdict = v].verdict = v
        /\ IdleLoader.verdict = "none"
    BY DEF IdleLoader
  <1>3. CASE StartLoad(p)
    <2>1. PICK chosen \in SUBSET Targets, i \in Inputs, b \in BatchSizes,
               d \in Destinations :
            loader' = [loader EXCEPT ![p] =
              [IdleLoader EXCEPT !.pc = "evidence", !.selected = chosen,
                 !.todo = chosen, !.inputs = i, !.batch = b, !.dest = d]]
      BY <1>3 DEF StartLoad
    <2> QED
      BY <1>1, <2>1 DEF IdleLoader
  <1>4. CASE ReadManifest(p)
    <2>1. Conflicting(ready) => "conflict" \in Excused
      BY NoCause DEF Excused
    <2>2. ASSUME Refuse(p, "missing") \/ (Refuse(p, "conflict") /\ Conflicting(ready))
          PROVE  loader'[p].verdict \in Excused
      <3>1. \A v : Refuse(p, v) => loader'[p].verdict = v
        BY <1>1, <1>2 DEF Refuse
      <3> QED
        BY <1>1, <2>1, <2>2, <3>1
    <2>3. ASSUME ~Refuse(p, "missing"), ~(Refuse(p, "conflict") /\ Conflicting(ready))
          PROVE  loader'[p].verdict \in Excused
      <3>1. loader' = [loader EXCEPT ![p].pc = "verify",
                ![p].evidence = {e \in ready : /\ e.inputs = loader[p].inputs
                                               /\ e.target \in loader[p].selected}]
        BY <1>4, <2>3 DEF ReadManifest
      <3> QED
        BY <1>1, <3>1 DEF LoaderType
    <2> QED
      BY <2>2, <2>3
  <1>5. CASE VerifyTarget(p)
    <2>1. \A e \in c.evidence : Intact(e)
      BY <1>1, NoCause DEF LoaderType
    <2>2. CASE Refuse(p, "mismatch")
      BY <1>1, <1>2, <2>2 DEF Refuse
    <2>3. CASE ~Refuse(p, "mismatch")
      <3>1. PICK t \in c.todo, e \in c.evidence :
              loader' = [loader EXCEPT
                    ![p].verified = Append(@, e), ![p].evidence = @ \ {e},
                    ![p].todo = IF {f \in c.evidence : f.target = t} = {e}
                                  THEN @ \ {t} ELSE @]
        <4>1. PICK t \in c.todo :
                LET left == {f \in c.evidence : f.target = t} IN
                \E e \in left :
                  loader' = [loader EXCEPT
                     ![p].verified = Append(@, e), ![p].evidence = @ \ {e},
                     ![p].todo = IF left = {e} THEN @ \ {t} ELSE @]
          BY <1>5, <2>1, <2>3 DEF VerifyTarget
        <4> QED
          BY <4>1
      <3> QED
        BY <1>1, <3>1 DEF LoaderType
    <2> QED
      BY <2>2, <2>3
  <1>6. CASE CheckShard(p) \/ MarkLoaded(p)
    <2>1. Advanced(p).verdict = c.verdict
      BY <1>1 DEF Advanced, LoaderType
    <2>2. [c EXCEPT !.pc = "sink"].verdict = c.verdict
      BY <1>1 DEF LoaderType
    <2> QED
      BY <1>1, <1>6, <2>1, <2>2 DEF CheckShard, MarkLoaded
  <1>7. CASE BeginLoad(p) \/ SinkLoad(p) \/ Report(p) \/ AbortLoad(p)
    <2>1. PICK l : /\ loader'[p] = l
                   /\ \/ l = [c EXCEPT !.pc = "load"]
                      \/ l = [c EXCEPT !.pc = "mark"]
                      \/ l = [c EXCEPT !.pc = "idle", !.verdict = "loaded"]
                      \/ l = IdleLoader
      BY <1>1, <1>7 DEF BeginLoad, SinkLoad, Report, AbortLoad
    <2>2. l.verdict \in {c.verdict, "loaded", "none"}
      BY <1>1, <1>2, <2>1 DEF LoaderType
    <2> QED
      BY <1>1, <2>1, <2>2
  <1> QED
    BY <1>3, <1>4, <1>5, <1>6, <1>7 DEF Load

\* Every step keeps files and entries in agreement until a file is touched.
LEMMA PristineStep ==
  ASSUME IInv, Pristine, [Next]_vars
  PROVE  Pristine'
  <1>1. ASSUME UNCHANGED <<rawfile, normfile, ready, collector, loader, damages>>
        PROVE  Pristine'
    BY <1>1 DEF Pristine, RefusedForCause, ReleasesDisagree, InHand, Described
  <1>2. CASE World
    <2>1. ASSUME damages' = damages + 1
          PROVE  Pristine'
      BY <2>1 DEF IInv, TypeOK, Pristine
    <2> QED
      BY <1>1, <1>2, <2>1 DEF World, Amend, DamageRaw, DamageNorm, files, entries,
                              counts
  <1>3. CASE UNCHANGED vars
    BY <1>1, <1>3 DEF vars, files, entries, counts
  <1> QED
    BY <1>2, <1>3, PristineCollect, PristineLoad DEF Next
-----------------------------------------------------------------------------
(* Deliveries.                                                             *)

\* What a loader that does not move has delivered stays delivered.
LEMMA CursorKept ==
  ASSUME NEW q \in Loaders, CursorBacked(q), loader'[q] = loader[q],
         delivered \subseteq delivered'
  PROVE  CursorBacked(q)'
  <1>1. \A d, n, first, last : Holds(d, n, first, last) => Holds(d, n, first, last)'
    BY DEF Holds
  <1> QED
    BY <1>1 DEF CursorBacked, Current, End, Held

\* A loader outside the shard loop.
LEMMA CursorBefore ==
  ASSUME NEW p \in Loaders, NEW l, loader'[p] = l,
         \/ l.pc = "idle"
         \/ /\ l.pc \in {"evidence", "verify"} /\ l.verdict = "none"
            /\ l.dest \in Destinations /\ l.item = 1 /\ l.offset = 0
  PROVE  CursorBacked(p)'
  BY DEF CursorBacked

\* A shard that is delivered carries the cursor on.
LEMMA CursorAdvances ==
  ASSUME TypeOK, NEW p \in Loaders, CursorBacked(p), MoreItems(p),
         loader[p].pc \in {"load", "mark"},
         Holds(loader[p].dest, Current(p).norm, 1, End(p)),
         loader'[p] = Advanced(p), delivered \subseteq delivered'
  PROVE  CursorBacked(p)'
  <1> DEFINE c == loader[p]
  <1>1. /\ c \in LoaderType /\ End(p) \in Nat /\ Held(p) \in Nat
        /\ End(p) <= Held(p)
    BY CurrentHolds DEF TypeOK
  <1>2. c.item \in Nat /\ c.verified \in Seq(ready) /\ c.verdict = "none"
        /\ c.dest \in Destinations
    BY <1>1 DEF LoaderType, CursorBacked
  <1>3. PICK l : /\ loader'[p] = l /\ l.pc = "load" /\ l.verdict = "none"
                 /\ l.dest = c.dest /\ l.verified = c.verified
                 /\ \/ l.item = c.item /\ l.offset = End(p)
                    \/ l.item = c.item + 1 /\ l.offset = 0 /\ End(p) = Held(p)
    <2>1. PICK l : l = Advanced(p)
      OBVIOUS
    <2>2. CASE End(p) < Held(p)
      <3>1. l = [c EXCEPT !.pc = "load", !.offset = End(p)]
        BY <2>1, <2>2 DEF Advanced
      <3>2. /\ l.pc = "load" /\ l.verdict = "none" /\ l.dest = c.dest
            /\ l.verified = c.verified /\ l.item = c.item /\ l.offset = End(p)
        BY <1>1, <1>2, <3>1 DEF LoaderType
      <3> QED
        BY <2>1, <3>2
    <2>3. CASE ~(End(p) < Held(p))
      <3>1. l = [c EXCEPT !.pc = "load", !.item = c.item + 1, !.offset = 0]
        BY <2>1, <2>3 DEF Advanced
      <3>2. /\ l.pc = "load" /\ l.verdict = "none" /\ l.dest = c.dest
            /\ l.verified = c.verified /\ l.item = c.item + 1 /\ l.offset = 0
        BY <1>1, <1>2, <3>1 DEF LoaderType
      <3>3. End(p) = Held(p)
        BY <1>1, <2>3
      <3> QED
        BY <2>1, <3>2, <3>3
    <2> QED
      BY <2>2, <2>3
  <1>4. ASSUME NEW k \in DOMAIN c.verified
        PROVE  /\ k < l.item => Holds(c.dest, c.verified[k].norm, 1, Rows(c.verified[k].norm))
               /\ k = l.item => Holds(c.dest, c.verified[k].norm, 1, l.offset)
    <2>1. k \in Nat
      BY <1>2
    <2>2. CASE k < c.item
      BY <1>2, <1>3, <2>1, <2>2 DEF CursorBacked
    <2>3. CASE k = c.item
      <3>1. Holds(c.dest, c.verified[k].norm, 1, End(p))
        BY <2>3 DEF Current
      <3>2. Held(p) = Rows(c.verified[k].norm)
        BY <2>3 DEF Held, Current
      <3> QED
        BY <1>2, <1>3, <2>3, <3>1, <3>2
    <2>4. CASE k > c.item
      BY <1>2, <1>3, <2>1, <2>4 DEF Holds
    <2> QED
      BY <1>2, <2>1, <2>2, <2>3, <2>4
  <1>5. \A d, n, first, last : Holds(d, n, first, last) => Holds(d, n, first, last)'
    BY DEF Holds
  <1> QED
    BY <1>2, <1>3, <1>4, <1>5 DEF CursorBacked

\* The steps of a load, by one process.
LEMMA BackedLoad ==
  ASSUME \A d, e \in Destinations : d = e, IInv,
         LoadedBacked, NEW p \in Loaders, CursorBacked(p), Load(p)
  PROVE  LoadedBacked' /\ CursorBacked(p)'
  <1> DEFINE c == loader[p]
  <1>1. /\ TypeOK /\ loader \in [Loaders -> LoaderType] /\ c \in LoaderType
        /\ Progress(c)
    BY DEF IInv, TypeOK
  <1>2. delivered \subseteq delivered'
    BY DEF Load, StartLoad, ReadManifest, VerifyTarget, BeginLoad, CheckShard,
           SinkLoad, MarkLoaded, Report, AbortLoad
  <1>3. ASSUME ~MarkLoaded(p)
        PROVE  LoadedBacked'
    <2>1. loaded' = loaded
      BY <1>3 DEF Load, StartLoad, ReadManifest, VerifyTarget, BeginLoad,
                  CheckShard, SinkLoad, Report, AbortLoad, entries
    <2> QED
      BY <1>2, <2>1 DEF LoadedBacked, Holds
  <1>4. \A v : [IdleLoader EXCEPT !.verdict = v].pc = "idle"
    BY DEF IdleLoader
  <1>5. CASE StartLoad(p)
    <2>1. PICK chosen \in SUBSET Targets, i \in Inputs, b \in BatchSizes,
               d \in Destinations :
            loader' = [loader EXCEPT ![p] =
              [IdleLoader EXCEPT !.pc = "evidence", !.selected = chosen,
                 !.todo = chosen, !.inputs = i, !.batch = b, !.dest = d]]
      BY <1>5 DEF StartLoad
    <2>2. PICK l : l = [IdleLoader EXCEPT !.pc = "evidence", !.selected = chosen,
                          !.todo = chosen, !.inputs = i, !.batch = b, !.dest = d]
      OBVIOUS
    <2>3. /\ l.pc = "evidence" /\ l.verdict = "none" /\ l.dest = d
          /\ l.item = 1 /\ l.offset = 0
      BY <2>2 DEF IdleLoader
    <2>4. loader'[p] = l
      BY <1>1, <2>1, <2>2
    <2> QED
      BY <1>3, <1>5, <2>3, <2>4, CursorBefore DEF StartLoad, MarkLoaded, LoaderAt
  <1>6. CASE \E v : Refuse(p, v)
    <2>1. PICK l : loader'[p] = l /\ l.pc = "idle"
      BY <1>1, <1>4, <1>6 DEF Refuse
    <2>2. CursorBacked(p)'
      BY <2>1, CursorBefore
    <2>3. ASSUME MarkLoaded(p)
          PROVE  FALSE
      <3>1. loader'[p].pc = "load"
        BY <1>1, <2>3, CurrentHolds, AdvancedOK DEF MarkLoaded, Advanced, LoaderType
      <3> QED
        BY <2>1, <3>1
    <2> QED
      BY <1>3, <2>2, <2>3
  <1>7. CASE ReadManifest(p) /\ ~\E v : Refuse(p, v)
    <2>1. PICK l : l = [c EXCEPT !.pc = "verify",
                          !.evidence = {e \in ready : /\ e.inputs = c.inputs
                                                      /\ e.target \in c.selected}]
      OBVIOUS
    <2>2. loader'[p] = l /\ c.pc = "evidence"
      BY <1>1, <1>7, <2>1 DEF ReadManifest, LoaderAt
    <2>3. /\ l.pc = "verify" /\ l.verdict = c.verdict /\ l.dest = c.dest
          /\ l.item = c.item /\ l.offset = c.offset
      BY <1>1, <2>1 DEF LoaderType
    <2>4. CursorBacked(p)'
      BY <2>2, <2>3, CursorBefore DEF CursorBacked
    <2> QED
      BY <1>3, <2>2, <2>4 DEF MarkLoaded, LoaderAt
  <1>8. CASE VerifyTarget(p) /\ ~\E v : Refuse(p, v)
    <2>1. PICK t \in c.todo, e \in c.evidence :
            loader' = [loader EXCEPT
                  ![p].verified = Append(@, e), ![p].evidence = @ \ {e},
                  ![p].todo = IF {f \in c.evidence : f.target = t} = {e}
                                THEN @ \ {t} ELSE @]
      <3>1. PICK t \in c.todo :
              LET left == {f \in c.evidence : f.target = t} IN
              \E e \in left :
                loader' = [loader EXCEPT
                   ![p].verified = Append(@, e), ![p].evidence = @ \ {e},
                   ![p].todo = IF left = {e} THEN @ \ {t} ELSE @]
        BY <1>8 DEF VerifyTarget
      <3> QED
        BY <3>1
    <2>2. PICK l : /\ loader'[p] = l /\ l.pc = c.pc /\ l.verdict = c.verdict
                   /\ l.dest = c.dest /\ l.item = c.item /\ l.offset = c.offset
      <3>1. PICK todo : todo = IF {f \in c.evidence : f.target = t} = {e}
                                 THEN c.todo \ {t} ELSE c.todo
        OBVIOUS
      <3>2. loader'[p] = [c EXCEPT !.verified = Append(c.verified, e),
                            !.evidence = c.evidence \ {e}, !.todo = todo]
        BY <1>1, <2>1, <3>1 DEF LoaderType
      <3>3. PICK l : l = [c EXCEPT !.verified = Append(c.verified, e),
                            !.evidence = c.evidence \ {e}, !.todo = todo]
        OBVIOUS
      <3>4. /\ l.pc = c.pc /\ l.verdict = c.verdict
            /\ l.dest = c.dest /\ l.item = c.item /\ l.offset = c.offset
        BY <1>1, <3>3 DEF LoaderType
      <3> QED
        BY <3>2, <3>3, <3>4
    <2>3. c.pc = "verify"
      BY <1>8 DEF VerifyTarget, LoaderAt
    <2>4. CursorBacked(p)'
      BY <2>2, <2>3, CursorBefore DEF CursorBacked
    <2> QED
      BY <1>3, <2>3, <2>4 DEF MarkLoaded, LoaderAt
  <1>9. CASE BeginLoad(p)
    <2>1. PICK l : loader'[p] = l /\ l = [c EXCEPT !.pc = "load"]
      BY <1>1, <1>9 DEF BeginLoad
    <2>2. c.pc = "verify" /\ c.item = 1 /\ c.offset = 0 /\ c.verdict = "none"
          /\ c.dest \in Destinations
      BY <1>9 DEF BeginLoad, LoaderAt, CursorBacked
    <2>3. /\ l.pc = "load" /\ l.verdict = "none" /\ l.dest \in Destinations
          /\ l.item = 1 /\ l.offset = 0 /\ l.verified \in Seq(ready)
      BY <1>1, <2>1, <2>2 DEF LoaderType
    <2>4. CursorBacked(p)'
      BY <2>1, <2>3 DEF CursorBacked, Holds
    <2> QED
      BY <1>3, <2>2, <2>4 DEF MarkLoaded, LoaderAt
  <1>10. CASE CheckShard(p)
    <2>1. /\ c.pc = "load" /\ MoreItems(p) /\ loaded' = loaded
          /\ delivered' = delivered
      BY <1>10 DEF CheckShard, LoaderAt, entries
    <2>2. CASE Held(p) = 0 \/ IsLoaded(ShardId(p))
      <3>1. Holds(c.dest, Current(p).norm, 1, End(p))
        <4>0. /\ End(p) \in Nat /\ Held(p) \in Nat /\ End(p) <= Held(p)
              /\ c.offset \in Nat
          BY <1>1, <2>1, CurrentHolds DEF LoaderType
        <4>1. CASE Held(p) = 0
          BY <4>0, <4>1 DEF Holds
        <4>2. CASE IsLoaded(ShardId(p))
          <5>1. PICK a \in loaded : a.id = ShardId(p)
            BY <4>2 DEF IsLoaded
          <5>2. Holds(c.dest, Current(p).norm, c.offset + 1, End(p))
            BY <2>1, <5>1 DEF LoadedBacked, ShardId, CursorBacked
          <5>3. Holds(c.dest, Current(p).norm, 1, c.offset)
            <6>1. c.item \in DOMAIN c.verified
              BY <1>1, <2>1 DEF LoaderType, MoreItems
            <6> QED
              BY <2>1, <6>1 DEF CursorBacked, Current
          <5> QED
            BY <4>0, <5>2, <5>3 DEF Holds
        <4> QED
          BY <2>2, <4>1, <4>2
      <3>2. loader'[p] = Advanced(p)
        BY <1>1, <1>10, <2>2 DEF CheckShard
      <3> QED
        BY <1>1, <1>2, <1>3, <2>1, <3>1, <3>2, CursorAdvances DEF MarkLoaded, LoaderAt
    <2>3. CASE ~(Held(p) = 0 \/ IsLoaded(ShardId(p)))
      <3>1. PICK l : loader'[p] = l /\ l = [c EXCEPT !.pc = "sink"]
        BY <1>1, <1>10, <2>3 DEF CheckShard
      <3>2. /\ l.pc = "sink" /\ l.verdict = c.verdict /\ l.dest = c.dest
            /\ l.item = c.item /\ l.offset = c.offset /\ l.verified = c.verified
        BY <1>1, <3>1 DEF LoaderType
      <3>3. CursorBacked(p)'
        BY <2>1, <3>1, <3>2 DEF CursorBacked, Holds
      <3> QED
        BY <1>3, <2>1, <3>3 DEF MarkLoaded, LoaderAt
    <2> QED
      BY <2>2, <2>3
  <1>11. CASE SinkLoad(p)
    <2>1. PICK l : loader'[p] = l /\ l = [c EXCEPT !.pc = "mark"]
      BY <1>1, <1>11 DEF SinkLoad
    <2>2. /\ l.pc = "mark" /\ l.verdict = c.verdict /\ l.dest = c.dest
          /\ l.item = c.item /\ l.offset = c.offset /\ l.verified = c.verified
          /\ l.batch = c.batch
      BY <1>1, <2>1 DEF LoaderType
    <2>3. c.pc = "sink" /\ MoreItems(p)
      BY <1>1, <1>11 DEF SinkLoad, LoaderAt, Progress, MoreItems
    <2>4. /\ End(p) \in Nat /\ c.offset \in Nat /\ c.item \in DOMAIN c.verified
      BY <1>1, <2>3, CurrentHolds DEF LoaderType, MoreItems
    <2>5. Holds(c.dest, Current(p).norm, 1, c.offset)
      BY <2>3, <2>4 DEF CursorBacked, Current
    <2>6. \A i \in c.offset + 1 .. End(p) : <<c.dest, Current(p).norm, i>> \in delivered'
      BY <1>11 DEF SinkLoad
    <2>7. \A i \in 1 .. End(p) : <<c.dest, Current(p).norm, i>> \in delivered'
      BY <1>2, <2>4, <2>5, <2>6 DEF Holds
    <2>8. Current(p)' = Current(p) /\ End(p)' = End(p)
      BY <2>1, <2>2 DEF Current, End, Held
    <2>9. \A d, n, first, last : Holds(d, n, first, last) => Holds(d, n, first, last)'
      BY <1>2 DEF Holds
    <2>10. Holds(c.dest, Current(p).norm, 1, End(p))'
      BY <2>1, <2>2, <2>7, <2>8 DEF Holds
    <2>11. CursorBacked(p)'
      BY <2>1, <2>2, <2>3, <2>9, <2>10 DEF CursorBacked
    <2> QED
      BY <1>3, <2>3, <2>11 DEF MarkLoaded, LoaderAt
  <1>12. CASE MarkLoaded(p)
    <2>1. /\ c.pc = "mark" /\ MoreItems(p) /\ loader'[p] = Advanced(p)
          /\ delivered' = delivered /\ c.offset \in Nat
          /\ loaded' = loaded \cup {[id |-> ShardId(p), target |-> Current(p).target,
                                     doc |-> Current(p).doc, raw |-> Current(p).raw]}
      BY <1>1, <1>12 DEF MarkLoaded, LoaderAt, Progress, MoreItems, LoaderType
    <2>2. Holds(c.dest, Current(p).norm, 1, End(p)) /\ c.dest \in Destinations
      BY <2>1 DEF CursorBacked
    <2>3. CursorBacked(p)'
      BY <1>1, <1>2, <2>1, <2>2, CursorAdvances
    <2>4. LoadedBacked'
      <3> SUFFICES ASSUME NEW a \in loaded', NEW d \in Destinations,
                          NEW i \in a.id.start + 1 .. a.id.end
                   PROVE  <<d, a.id.norm, i>> \in delivered
        BY <2>1 DEF LoadedBacked, Holds
      <3>1. CASE a \in loaded
        BY <3>1 DEF LoadedBacked, Holds
      <3>2. CASE a \notin loaded
        <4>1. a.id = ShardId(p)
          BY <2>1, <3>2
        <4>2. d = c.dest
          BY <2>2
        <4>3. i \in 1 .. End(p) /\ a.id.norm = Current(p).norm
          BY <2>1, <4>1, CurrentHolds, <1>1 DEF ShardId
        <4> QED
          BY <2>2, <4>2, <4>3 DEF Holds
      <3> QED
        BY <3>1, <3>2
    <2> QED
      BY <2>3, <2>4
  <1>13. CASE Report(p) \/ AbortLoad(p)
    <2>1. PICK l : loader'[p] = l /\ l.pc = "idle"
      BY <1>1, <1>13 DEF Report, AbortLoad, IdleLoader, LoaderType
    <2>2. CursorBacked(p)'
      BY <2>1, CursorBefore
    <2>3. loaded' = loaded
      BY <1>13 DEF Report, AbortLoad, entries
    <2> QED
      BY <1>2, <2>2, <2>3 DEF LoadedBacked, Holds
  <1> QED
    BY <1>5, <1>6, <1>7, <1>8, <1>9, <1>10, <1>11, <1>12, <1>13 DEF Load

\* Every step keeps all that was delivered before the cursors and the entries.
LEMMA BackedStep ==
  ASSUME \A d, e \in Destinations : d = e, IInv, LoadedBacked,
         \A p \in Loaders : CursorBacked(p), [Next]_vars
  PROVE  LoadedBacked' /\ \A p \in Loaders : CursorBacked(p)'
  <1>1. CASE UNCHANGED <<loader, loaded, delivered>>
    BY <1>1, CursorKept DEF LoadedBacked, Holds
  <1>2. ASSUME NEW p \in Loaders, Load(p)
        PROVE  LoadedBacked' /\ \A q \in Loaders : CursorBacked(q)'
    <2>1. LoadedBacked' /\ CursorBacked(p)'
      BY <1>2, BackedLoad
    <2>2. delivered \subseteq delivered'
      BY <1>2 DEF Load, StartLoad, ReadManifest, VerifyTarget, BeginLoad,
             CheckShard, SinkLoad, MarkLoaded, Report, AbortLoad
    <2>3. \A q \in Loaders \ {p} : loader'[q] = loader[q]
      BY <1>2 DEF IInv, TypeOK, Load, StartLoad, ReadManifest, VerifyTarget,
             BeginLoad, CheckShard, SinkLoad, MarkLoaded, Report, AbortLoad, Refuse
    <2> QED
      BY <2>1, <2>2, <2>3, CursorKept
  <1>3. CASE World \/ UNCHANGED vars
    BY <1>1, <1>3 DEF World, Amend, DamageRaw, DamageNorm, entries, vars
  <1>4. ASSUME NEW p \in Collectors, Collect(p)
        PROVE  UNCHANGED <<loader, loaded, delivered>>
    BY <1>4 DEF Collect, StartCollect, TakeTarget, Fetch, Hash, Parse, Normalize,
                Validate, Seal, FailTarget, StopCollect, entries
  <1> QED
    BY <1>1, <1>2, <1>3, <1>4 DEF Next

\* A command that ends with 0 has its cursor behind the last item.
LEMMA ReportDelivers ==
  ASSUME IInv, \A p \in Loaders : CursorBacked(p), Next,
         NEW p \in Loaders, loader[p].pc = "load", loader'[p].verdict = "loaded",
         NEW k \in DOMAIN loader[p].verified
  PROVE  \A i \in 1 .. Rows(loader[p].verified[k].norm) :
            <<loader[p].dest, loader[p].verified[k].norm, i>> \in delivered
  <1> DEFINE c == loader[p]
  <1>1. c \in LoaderType /\ c.verdict = "none" /\ loader \in [Loaders -> LoaderType]
    BY DEF CursorBacked, IInv, TypeOK
  <1>2. \E q \in Loaders : Load(q)
    <2>1. CASE World
      BY <1>1, <2>1 DEF World, Amend, DamageRaw, DamageNorm
    <2>2. ASSUME NEW q \in Collectors, Collect(q)
          PROVE  FALSE
      BY <1>1, <2>2 DEF Collect, StartCollect, TakeTarget, Fetch, Hash, Parse, Normalize,
                Validate,
                        Seal, FailTarget, StopCollect
    <2> QED
      BY <2>1, <2>2 DEF Next
  <1>3. Load(p)
    <2>1. ASSUME NEW q \in Loaders, Load(q), q # p
          PROVE  loader'[p] = loader[p]
      BY <1>1, <2>1 DEF Load, StartLoad, ReadManifest, VerifyTarget, BeginLoad,
             CheckShard, SinkLoad, MarkLoaded, Report, AbortLoad, Refuse
    <2> QED
      BY <1>1, <1>2, <2>1
  <1>4. Report(p)
    <2>1. ASSUME CheckShard(p)
          PROVE  FALSE
      <3>1. Advanced(p).verdict = c.verdict /\ [c EXCEPT !.pc = "sink"].verdict = c.verdict
        BY <1>1 DEF Advanced, LoaderType
      <3> QED
        BY <1>1, <2>1, <3>1 DEF CheckShard
    <2>2. ASSUME AbortLoad(p)
          PROVE  FALSE
      BY <1>1, <2>2 DEF AbortLoad, IdleLoader
    <2> QED
      BY <1>3, <2>1, <2>2 DEF Load, StartLoad, ReadManifest, VerifyTarget, BeginLoad,
             SinkLoad, MarkLoaded, LoaderAt
  <1>5. k < c.item
    BY <1>1, <1>4 DEF Report, MoreItems, LoaderType
  <1> QED
    BY <1>5 DEF CursorBacked, Holds

-----------------------------------------------------------------------------
(* The ledger.                                                             *)

\* What reaches a database is a record under some normalized name.
LEMMA RecordsStep ==
  ASSUME IInv, \A p \in Loaders : CursorBacked(p), delivered \subseteq Records,
         [Next]_vars
  PROVE  delivered' \subseteq Records
  <1>1. ASSUME NEW p \in Loaders, SinkLoad(p)
        PROVE  delivered' \subseteq Records
    <2>1. /\ TypeOK /\ loader[p] \in LoaderType /\ Progress(loader[p])
          /\ loader[p].pc = "sink"
      BY <1>1 DEF IInv, TypeOK, SinkLoad, LoaderAt
    <2>2. MoreItems(p) /\ loader[p].dest \in Destinations
      BY <2>1 DEF Progress, MoreItems, CursorBacked
    <2>3. Current(p).norm \in Norms \cup {JunkNorm}
      BY <2>1, <2>2, CurrentHolds DEF TypeOK, EntryType
    <2>4. loader[p].offset \in Nat /\ End(p) \in Nat
      BY <2>1, <2>2, CurrentHolds DEF LoaderType
    <2>5. \A i \in loader[p].offset + 1 .. End(p) :
            <<loader[p].dest, Current(p).norm, i>> \in Records
      BY <2>2, <2>3, <2>4 DEF Records
    <2> QED
      BY <1>1, <2>5 DEF SinkLoad
  <1>2. CASE ~\E p \in Loaders : SinkLoad(p)
    <2>1. delivered' = delivered
      BY <1>2 DEF Next, World, Amend, DamageRaw, DamageNorm, Collect, StartCollect,
             TakeTarget, Fetch, Hash, Parse, Normalize,
                Validate, Seal, FailTarget, StopCollect,
             Load, StartLoad, ReadManifest, VerifyTarget, BeginLoad, CheckShard,
             MarkLoaded, Report, AbortLoad, vars
    <2> QED
      BY <2>1
  <1> QED
    BY <1>1, <1>2

\* A LOADED entry is a receipt for what its loader has just delivered.
LEMMA LedgerStep ==
  ASSUME \A d, e \in Destinations : d = e, IInv,
         \A p \in Loaders : CursorBacked(p), delivered' \subseteq Records,
         [Next]_vars
  PROVE  [Ledger!Next]_(Ledger!vars)
  <1> USE DEF Ledger!vars, Ledger!Next
  <1>1. ASSUME NEW p \in Loaders, SinkLoad(p)
        PROVE  Ledger!Deliver
    BY <1>1 DEF SinkLoad, entries, Ledger!Deliver
  <1>2. ASSUME NEW p \in Loaders, MarkLoaded(p)
        PROVE  Ledger!Issue
    <2>1. PICK m : m = [id |-> ShardId(p), target |-> Current(p).target,
                        doc |-> Current(p).doc, raw |-> Current(p).raw]
      OBVIOUS
    <2>2. loaded' = loaded \cup {m} /\ delivered' = delivered
      BY <1>2, <2>1 DEF MarkLoaded
    <2>3. /\ loader[p].pc = "mark" /\ loader[p] \in LoaderType
          /\ loader[p].dest \in Destinations
          /\ Holds(loader[p].dest, Current(p).norm, 1, End(p))
      BY <1>2 DEF MarkLoaded, LoaderAt, CursorBacked, IInv, TypeOK
    <2>4. /\ m.id.norm = Current(p).norm /\ m.id.start = loader[p].offset
          /\ m.id.end = End(p)
      BY <2>1 DEF ShardId
    <2>5. \A i \in loader[p].offset + 1 .. End(p) : i \in 1 .. End(p)
      BY <2>3 DEF LoaderType
    <2>6. CoverOf(m) \subseteq delivered
      BY <2>3, <2>4, <2>5 DEF CoverOf, Holds
    <2> QED
      BY <2>2, <2>6 DEF Ledger!Issue
  <1>3. CASE ~\E p \in Loaders : SinkLoad(p) \/ MarkLoaded(p)
    <2>1. loaded' = loaded /\ delivered' = delivered
      BY <1>3 DEF Next, World, Amend, DamageRaw, DamageNorm, Collect, StartCollect,
             TakeTarget, Fetch, Hash, Parse, Normalize,
                Validate, Seal, FailTarget, StopCollect,
             Load, StartLoad, ReadManifest, VerifyTarget, BeginLoad, CheckShard,
             Report, AbortLoad, entries, vars
    <2> QED
      BY <2>1
  <1> QED
    BY <1>1, <1>2, <1>3

-----------------------------------------------------------------------------
(* Theorems.                                                               *)

\* Where the document id contains the raw digest (the manager's baskets), the
\* records a READY entry seals under its id were made from the raw bytes it
\* names, unless the raw file was edited or lost at least twice: collect opens
\* it three times, and the check of the ids catches every single change
\* (collection.py:65-76, basket_kr.py:527, 542).
THEOREM TrueLineage ==
  ASSUME SharedDocument = FALSE
  PROVE  Spec => []LineageTrue
  <1>1. Init => LineageInv
    BY Pcs DEF Init, LineageInv, LineageTrue, Turns, Replaced, IdleCollector
  <1>2. TypeOK /\ LineageInv /\ [Next]_vars => LineageInv'
    BY LineageStep
  <1>3. LineageInv => LineageTrue
    BY DEF LineageInv
  <1> QED
    BY <1>1, <1>2, <1>3, TypeCorrect, PTL DEF Spec

\* Verification fails a load for an edited or lost file, or for two releases of
\* the normalizer that disagree, and for nothing else: no amendment, change of
\* inputs, repeated, overlapping or broken collect invalidates what was sealed
\* (verify_collection).
THEOREM RefusedOnlyForCause == Spec => []RefusedForCause
  <1>1. Init => Pristine
    BY Pcs DEF Init, Pristine, RefusedForCause, InHand, IdleCollector, IdleLoader
  <1>2. IInv /\ Pristine /\ [Next]_vars => Pristine'
    BY PristineStep
  <1>3. Spec => []Pristine
    BY <1>1, <1>2, Invariance, PTL DEF Spec
  <1>4. TypeOK /\ Pristine => RefusedForCause
    BY DEF TypeOK, Pristine, RefusedForCause
  <1> QED
    BY <1>3, <1>4, TypeCorrect, PTL

\* With one destination, a load that exits with 0 has delivered every record
\* of every version it verified, whatever it skipped as loaded before and
\* whatever other loads did meanwhile (_load in ingest_cli.py).
THEOREM CompleteDelivery ==
  ASSUME \A d, e \in Destinations : d = e
  PROVE  Spec => LoadDelivers
  <1> DEFINE Backed == LoadedBacked /\ \A p \in Loaders : CursorBacked(p)
  <1>1. Init => Backed
    BY DEF Init, LoadedBacked, CursorBacked, IdleLoader
  <1>2. IInv /\ Backed /\ [Next]_vars => Backed'
    BY BackedStep
  <1>3. IInv /\ Backed /\ [Next]_vars =>
          [\A p \in Loaders :
             loader[p].pc = "load" /\ loader'[p].verdict = "loaded" =>
               \A k \in DOMAIN loader[p].verified :
                 LET n == loader[p].verified[k].norm IN
                 \A i \in 1 .. Rows(n) : <<loader[p].dest, n, i>> \in delivered]_vars
    BY ReportDelivers
  <1> QED
    BY <1>1, <1>2, <1>3, Invariance, PTL DEF Spec, LoadDelivers

\* With one destination, load implements the ledger that the older runner
\* implements too: a LOADED entry is issued only for committed rows, and rows
\* are never withdrawn.
THEOREM LoadImplementsLedger ==
  ASSUME \A d, e \in Destinations : d = e
  PROVE  Spec => ImplementsLedger
  <1> DEFINE Backed == /\ LoadedBacked /\ \A p \in Loaders : CursorBacked(p)
                       /\ delivered \subseteq Records
  <1>1. Init => Backed /\ Ledger!Init
    BY DEF Init, LoadedBacked, CursorBacked, IdleLoader, Ledger!Init
  <1>2. IInv /\ Backed /\ [Next]_vars => Backed'
    BY BackedStep, RecordsStep
  <1>3. IInv /\ Backed /\ Backed' /\ [Next]_vars => [Ledger!Next]_(Ledger!vars)
    BY LedgerStep
  <1> HIDE DEF Backed
  <1> QED
    BY <1>1, <1>2, <1>3, Invariance, PTL DEF Spec, ImplementsLedger, Ledger!Spec

\* With one destination, everything the promises of collect and load rest on, in one invariant: names that tell contents until a file is
\* touched, deliveries behind every cursor and every LOADED entry.
THEOREM OutcomeInvariance ==
  ASSUME \A d, e \in Destinations : d = e
  PROVE  Spec => []OutcomeInv
  <1>1. Init => OutcomeInv
    BY Pcs DEF Init, OutcomeInv, Pristine, RefusedForCause, InHand,
           LoadedBacked, CursorBacked, IdleCollector, IdleLoader
  <1>2. IInv /\ OutcomeInv /\ [Next]_vars => OutcomeInv'
    BY PristineStep, BackedStep DEF OutcomeInv
  <1> QED
    BY <1>1, <1>2, Invariance, PTL DEF Spec
=============================================================================
