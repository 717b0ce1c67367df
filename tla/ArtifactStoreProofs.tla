------------------------- MODULE ArtifactStoreProofs -------------------------
(***************************************************************************)
(* Proofs about ArtifactStore for any number of publishers and names.      *)
(***************************************************************************)
EXTENDS ArtifactStore, TLAPS

\* Initially every name is free and nobody publishes.
LEMMA InitIInv == Init => IInv
  BY DEF Init, IInv, TypeOK, NeverTorn, Established, Files, Calls, Temps,
         Verdicts

\* Steps of one publisher that leave the store alone.
LEMMA PrivateStep ==
  ASSUME IInv, NEW p \in Publishers,
         \/ Begin(p) \/ Probe(p) \/ Compare(p) \/ Create(p) \/ Write(p)
         \/ Sync(p) \/ Clean(p) \/ Fail(p) \/ Crash(p)
  PROVE  IInv'
  <1>1. UNCHANGED <<store, spoilt>>
    BY DEF Begin, Probe, Compare, Create, Write, Sync, Clean, Fail, Crash
  <1>2. TypeOK'
    <2>1. /\ pc' \in [Publishers -> Calls]
          /\ job' \in [Publishers -> Names \cup {"none"}]
      BY DEF IInv, TypeOK, Begin, Probe, Compare, Create, Write, Sync, Clean,
             Fail, Crash, Goto, Calls
    <2>2. /\ temp' \in [Publishers -> Temps]
          /\ answer' \in [Publishers -> Verdicts]
      BY DEF IInv, TypeOK, Begin, Probe, Compare, Create, Write, Sync, Clean,
             Fail, Crash, Answer, Temps, Verdicts
    <2>3. \A q \in Publishers : pc'[q] = "idle" => temp'[q] = "none"
      BY DEF IInv, TypeOK, Established, Begin, Probe, Compare, Create, Write,
             Sync, Clean, Fail, Crash, Goto
    <2> QED
      BY <1>1, <2>1, <2>2, <2>3 DEF IInv, TypeOK
  <1>3. ASSUME NEW q \in Publishers
        PROVE  Established(q)'
    <2>1. CASE q # p
      <3>1. /\ pc'[q] = pc[q] /\ job'[q] = job[q]
            /\ temp'[q] = temp[q] /\ answer'[q] = answer[q]
        BY <2>1 DEF IInv, TypeOK, Begin, Probe, Compare, Create, Write, Sync,
                    Clean, Fail, Crash, Goto, Answer
      <3> QED
        BY <1>1, <3>1 DEF IInv, Established
    <2>2. CASE q = p /\ (Begin(p) \/ Create(p) \/ Write(p) \/ Sync(p))
      BY <1>1, <2>2 DEF IInv, TypeOK, Established, Begin, Create, Write, Sync,
                        Goto, Answer
    <2>3. CASE q = p /\ (Clean(p) \/ Fail(p) \/ Crash(p))
      BY <1>1, <2>3 DEF IInv, TypeOK, Established, Clean, Fail, Crash, Goto,
                        Answer
    <2>4. CASE q = p /\ Probe(p)
      BY <1>1, <2>4 DEF IInv, TypeOK, Established, Probe, Goto, Answer, Files
    <2>5. CASE q = p /\ Compare(p)
      BY <1>1, <2>5 DEF IInv, TypeOK, Established, Compare, Goto, Answer,
                        Reads
    <2> QED
      BY <2>1, <2>2, <2>3, <2>4, <2>5
  <1> QED
    BY <1>1, <1>2, <1>3 DEF IInv, NeverTorn

\* The two steps that give a temporary file its name.
LEMMA NamingStep ==
  ASSUME IInv, NEW p \in Publishers, Link(p) \/ Replace(p)
  PROVE  IInv'
  <1>1. job[p] \in Names /\ Linked(p) = "durable"
    BY DEF IInv, Established, Link, Replace, Linked
  <1>2. /\ store' \in {store, [store EXCEPT ![job[p]] = "durable"]}
        /\ spoilt' = spoilt
    BY <1>1 DEF Link, Replace
  <1>3. TypeOK'
    BY <1>1, <1>2 DEF IInv, TypeOK, Link, Replace, Goto, Answer, Files, Calls,
                      Temps, Verdicts
  <1>4. NeverTorn' /\ \A n \in Names : n \notin spoilt' =>
                                       store'[n] \in {"absent", "durable"}
    BY <1>1, <1>2 DEF IInv, TypeOK, NeverTorn
  <1>5. ASSUME NEW q \in Publishers
        PROVE  Established(q)'
    <2>1. CASE q # p
      <3>1. /\ pc'[q] = pc[q] /\ job'[q] = job[q]
            /\ temp'[q] = temp[q] /\ answer'[q] = answer[q]
        BY <2>1 DEF IInv, TypeOK, Link, Replace, Goto, Answer
      <3>2. pc[q] = "compare" => job[q] \in Names
        BY DEF IInv, Established
      <3> QED
        BY <1>1, <1>2, <3>1, <3>2 DEF IInv, TypeOK, Established
    <2>2. CASE q = p
      BY <1>1, <1>2, <2>2 DEF IInv, TypeOK, Established, Link, Replace, Goto,
                              Answer, Files
    <2> QED
      BY <2>1, <2>2
  <1> QED
    BY <1>3, <1>4, <1>5 DEF IInv

\* Interference from outside and power losses are always recorded as spoilt.
LEMMA OutsideStep ==
  ASSUME IInv, PowerLoss \/ \E n \in Names : Intrude(n)
  PROVE  IInv'
  <1>1. CASE PowerLoss
    <2>1. \A n \in Names : store'[n] \in {store[n], "absent"}
      BY <1>1 DEF PowerLoss, Survives, IInv, NeverTorn
    <2> QED
      BY <1>1, <2>1 DEF PowerLoss, IInv, TypeOK, NeverTorn, Established, Calls,
                        Temps, Verdicts
  <1>2. CASE \E n \in Names : Intrude(n)
    BY <1>2 DEF Intrude, IInv, TypeOK, NeverTorn, Established, Files
  <1> QED
    BY <1>1, <1>2

\* The invariant is preserved by every step.
LEMMA NextIInv == IInv /\ [Next]_vars => IInv'
  <1> SUFFICES ASSUME IInv, [Next]_vars
               PROVE  IInv'
    OBVIOUS
  <1>1. ASSUME NEW p \in Publishers, Begin(p) \/ Step(p) \/ Fail(p) \/ Crash(p)
        PROVE  IInv'
    BY <1>1, PrivateStep, NamingStep DEF Step
  <1>2. CASE PowerLoss \/ \E n \in Names : Intrude(n)
    BY <1>2, OutsideStep
  <1>3. CASE UNCHANGED vars
    BY <1>3 DEF vars, IInv, TypeOK, NeverTorn, Established
  <1> QED
    BY <1>1, <1>2, <1>3 DEF Next

\* The invariant holds in every reachable state.
THEOREM Invariance == Spec => []IInv
  <1> QED
    BY InitIInv, NextIInv, PTL DEF Spec

\* No name ever shows a partial file, whoever crashes and whenever the power
\* goes: a file is named only after its bytes were fsynced.
THEOREM FilesAreNeverTorn == Spec => []NeverTorn
  <1>1. IInv => NeverTorn
    BY DEF IInv
  <1> QED
    BY <1>1, Invariance, PTL

\* publish_immutable raises its conflict only for a name that somebody else
\* has interfered with: racing publishers never refuse each other.
THEOREM ConflictsAreReal == Spec => []NoFalseConflict
  <1>1. IInv => NoFalseConflict
    BY DEF IInv, Established, NoFalseConflict
  <1> QED
    BY <1>1, Invariance, PTL

\* A derived file that exists is changed by power losses and outsiders only,
\* never by a publisher.
THEOREM ExistingFilesAreKept == Spec => ExistingKept
  <1> DEFINE Kept == \A n \in Derived : \/ store[n] \in {"absent", store'[n]}
                                        \/ PowerLoss
                                        \/ Intrude(n)
  <1>1. ASSUME IInv, [Next]_vars
        PROVE  Kept
    <2> SUFFICES ASSUME NEW n \in Derived, store[n] # "absent",
                        store'[n] # store[n]
                 PROVE  PowerLoss \/ Intrude(n)
      OBVIOUS
    <2>1. n \in Names /\ n \notin Raw
      BY NamesAssumption DEF Names
    <2>2. ASSUME NEW p \in Publishers, Begin(p) \/ Step(p) \/ Fail(p) \/ Crash(p)
          PROVE  FALSE
      <3>1. CASE Link(p)
        BY <1>1, <2>1, <3>1 DEF Link, IInv, TypeOK
      <3>2. CASE Replace(p)
        BY <1>1, <2>1, <3>2 DEF Replace, IInv, TypeOK
      <3> QED
        BY <2>2, <3>1, <3>2 DEF Step, Begin, Probe, Compare, Create, Write,
                                Sync, Clean, Fail, Crash
    <2>3. ASSUME NEW m \in Names, Intrude(m)
          PROVE  Intrude(n)
      BY <1>1, <2>1, <2>3 DEF Intrude, IInv, TypeOK
    <2> QED
      BY <1>1, <2>2, <2>3 DEF Next, vars
  <1>2. IInv /\ [Next]_vars => [Kept]_vars
    BY <1>1
  <1> QED
    BY <1>2, Invariance, PTL DEF Spec, ExistingKept

-----------------------------------------------------------------------------
(* Refinement: publish_immutable implements a write-once store.            *)

\* The caller's view changes only through the answer of the caller that moves.
LEMMA OthersToldSame ==
  ASSUME IInv, NEW p \in Publishers,
         Begin(p) \/ Step(p) \/ Fail(p) \/ Crash(p)
  PROVE  /\ [q \in Publishers |-> Told(q)]' =
              [[q \in Publishers |-> Told(q)] EXCEPT ![p] = Told(p)']
         /\ \A q \in Publishers \ {p} : Told(q)' = Told(q)
  <1>1. ASSUME NEW q \in Publishers, q # p
        PROVE  job'[q] = job[q] /\ answer'[q] = answer[q]
    BY <1>1 DEF IInv, TypeOK, Begin, Step, Probe, Compare, Create, Write, Sync,
                Link, Replace, Clean, Fail, Crash, Answer
  <1>2. \A q \in Publishers \ {p} : Told(q)' = Told(q)
    BY <1>1 DEF Told
  <1> QED
    BY <1>2

\* A step that shows nothing new, or withdraws the previous answer.
LEMMA SilentStep ==
  ASSUME IInv, NEW p \in Publishers,
         \/ Begin(p) \/ Create(p) \/ Write(p) \/ Sync(p) \/ Replace(p)
         \/ Clean(p) \/ Fail(p) \/ Crash(p) \/ Probe(p)
  PROVE  Promise!Withdraw(p) \/ UNCHANGED Promise!vars
  <1> DEFINE told == [q \in Publishers |-> Told(q)]
             seen == [n \in Derived |-> Seen(store[n])]
  <1>1. seen' = seen
    <2>1. CASE Replace(p)
      BY <2>1, NamesAssumption DEF IInv, TypeOK, Replace
    <2>2. CASE ~Replace(p)
      BY <2>2 DEF Begin, Probe, Create, Write, Sync, Clean, Fail, Crash
    <2> QED
      BY <2>1, <2>2
  <1>2. Told(p)' \in {Promise!NoAnswer, Told(p)}
    BY NamesAssumption DEF IInv, TypeOK, Told, Promise!NoAnswer, Begin, Probe,
           Create, Write, Sync, Replace, Clean, Fail, Crash, Answer
  <1>3. told' = [told EXCEPT ![p] = Told(p)']
    BY OthersToldSame DEF Step
  <1>4. CASE Told(p)' = Promise!NoAnswer
    BY <1>1, <1>3, <1>4 DEF Promise!Withdraw, Promise!NoAnswer
  <1>5. CASE Told(p)' = Told(p)
    <2>1. told' = told
      BY <1>3, <1>5
    <2> QED
      BY <1>1, <2>1 DEF Promise!vars
  <1> QED
    BY <1>2, <1>4, <1>5

\* The comparison tells the truth about the name.
LEMMA CompareStep ==
  ASSUME IInv, NEW p \in Publishers, Compare(p)
  PROVE  Promise!Next
  <1> DEFINE n == job[p]
  <1>1. n \in Derived /\ n # "none"
    BY NoneAssumption DEF IInv, Established, Compare
  <1>2. [m \in Derived |-> Seen(store[m])]' = [m \in Derived |-> Seen(store[m])]
    BY DEF Compare
  <1>3. Told(p)' = [name |-> n,
                    verdict |-> IF Reads(n) THEN "ok" ELSE "conflict"]
    BY <1>1 DEF IInv, TypeOK, Compare, Answer, Told
  <1>4. [q \in Publishers |-> Told(q)]' =
          [[q \in Publishers |-> Told(q)] EXCEPT ![p] = Told(p)']
    BY OthersToldSame DEF Step
  <1>5. CASE Reads(n)
    <2>1. Seen(store[n]) = "whole"
      BY <1>5 DEF Reads, Seen
    <2>2. Promise!Confirm(p, n)
      BY <1>1, <1>2, <1>3, <1>4, <1>5, <2>1 DEF Promise!Confirm, Promise!Tell
    <2> QED
      BY <1>1, <2>2 DEF Promise!Next
  <1>6. CASE ~Reads(n)
    <2>1. Seen(store[n]) # "whole"
      <3>1. store[n] \in Files /\ store[n] \notin {"durable", "volatile"}
        BY <1>1, <1>6 DEF Reads, IInv, TypeOK, Names
      <3> QED
        BY <3>1 DEF Seen, Files
    <2>2. Promise!Refuse(p, n)
      BY <1>1, <1>2, <1>3, <1>4, <1>6, <2>1 DEF Promise!Refuse, Promise!Tell
    <2> QED
      BY <1>1, <2>2 DEF Promise!Next
  <1> QED
    BY <1>5, <1>6

\* The link fills a free name with its whole bytes, or leads to a comparison.
LEMMA LinkStep ==
  ASSUME IInv, NEW p \in Publishers, Link(p)
  PROVE  [Promise!Next]_Promise!vars
  <1> DEFINE n == job[p]
             seen == [m \in Derived |-> Seen(store[m])]
             told == [q \in Publishers |-> Told(q)]
  <1>1. n \in Derived /\ n # "none" /\ Linked(p) = "durable"
    BY NoneAssumption DEF IInv, Established, Link, Linked, Names
  <1>2. told' = [told EXCEPT ![p] = Told(p)']
    BY OthersToldSame DEF Step
  <1>3. CASE store[n] = "absent"
    <2>1. store' = [store EXCEPT ![n] = "durable"] /\ answer'[p] = "ok"
          /\ job'[p] = n
      BY <1>1, <1>3 DEF Link, Answer, IInv, TypeOK
    <2>2. seen' = [seen EXCEPT ![n] = "whole"]
      BY <1>1, <2>1 DEF IInv, TypeOK, Names, Seen
    <2>3. Told(p)' = [name |-> n, verdict |-> "ok"]
      BY <1>1, <2>1 DEF Told
    <2>4. seen[n] = "absent"
      BY <1>1, <1>3 DEF Seen
    <2>5. Promise!Put(p, n)
      BY <1>2, <2>2, <2>3, <2>4 DEF Promise!Put, Promise!Tell
    <2> QED
      BY <1>1, <2>5 DEF Promise!Next
  <1>4. CASE store[n] # "absent"
    <2>1. UNCHANGED <<store, job, answer>>
      BY <1>4 DEF Link
    <2>2. seen' = seen /\ told' = told
      BY <2>1 DEF Told
    <2> QED
      BY <2>2 DEF Promise!vars
  <1> QED
    BY <1>3, <1>4

\* Power losses and outsiders empty or spoil names.
LEMMA DisturbStep ==
  ASSUME IInv, PowerLoss \/ \E m \in Names : Intrude(m)
  PROVE  Promise!Disturb
  <1> DEFINE seen == [n \in Derived |-> Seen(store[n])]
             told == [q \in Publishers |-> Told(q)]
  <1>1. ASSUME NEW n \in Derived
        PROVE  store'[n] \in {store[n], "absent", "foreign"} /\ store[n] \in
                 {"absent", "durable", "foreign"}
    BY <1>1 DEF PowerLoss, Intrude, Survives, IInv, TypeOK, NeverTorn, Names,
                Files
  <1>2. seen' \in [Derived -> Promise!Objects]
        /\ \A n \in Derived : seen'[n] = "whole" => seen[n] = "whole"
    BY <1>1 DEF Seen, Promise!Objects
  <1>3. CASE PowerLoss
    <2>1. told' = [q \in Publishers |-> Promise!NoAnswer]
      BY <1>3 DEF PowerLoss, Told, Promise!NoAnswer
    <2> QED
      BY <1>2, <2>1 DEF Promise!Disturb
  <1>4. CASE \E m \in Names : Intrude(m)
    <2>1. told' = told
      BY <1>4 DEF Intrude, Told
    <2> QED
      BY <1>2, <2>1 DEF Promise!Disturb
  <1> QED
    BY <1>3, <1>4

\* Every step of the publishers is a step of the write-once store or a
\* stutter.
LEMMA PromiseStep == IInv /\ [Next]_vars => [Promise!Next]_Promise!vars
  <1> SUFFICES ASSUME IInv, [Next]_vars
               PROVE  [Promise!Next]_Promise!vars
    OBVIOUS
  <1>1. ASSUME NEW p \in Publishers, Begin(p) \/ Step(p) \/ Fail(p) \/ Crash(p)
        PROVE  [Promise!Next]_Promise!vars
    <2>1. CASE Compare(p)
      BY <2>1, CompareStep
    <2>2. CASE Link(p)
      BY <2>2, LinkStep
    <2>3. CASE ~Compare(p) /\ ~Link(p)
      <3>1. Promise!Withdraw(p) \/ UNCHANGED Promise!vars
        BY <1>1, <2>3, SilentStep DEF Step
      <3> QED
        BY <3>1 DEF Promise!Next
    <2> QED
      BY <2>1, <2>2, <2>3
  <1>2. CASE PowerLoss \/ \E m \in Names : Intrude(m)
    BY <1>2, DisturbStep DEF Promise!Next
  <1>3. CASE UNCHANGED vars
    BY <1>3 DEF vars, Promise!vars, Told
  <1> QED
    BY <1>1, <1>2, <1>3 DEF Next

\* publish_immutable implements the write-once store: a name is filled once,
\* with all of its bytes, and every verdict is true when it is given.
THEOREM PublishImplementsWriteOnce == Spec => ImplementsWriteOnce
  <1>1. Init => Promise!Init
    BY DEF Init, Promise!Init, Promise!NoAnswer, Told, Seen, Names
  <1>2. QED
    BY <1>1, Invariance, PromiseStep, PTL
       DEF Spec, ImplementsWriteOnce, Promise!Spec
=============================================================================
