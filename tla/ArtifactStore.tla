---------------------------- MODULE ArtifactStore ----------------------------
(***************************************************************************)
(* How artifact files reach the disk.  Derived artifacts (normalized and   *)
(* quarantine files) go through publish_immutable: temporary file, fsync,  *)
(* link under the digest of the bytes, and a comparison when that name is  *)
(* taken.  Raw documents go through the adapters' fetch: an existing file  *)
(* is returned unread, otherwise _atomic_write replaces the name.          *)
(*                                                                         *)
(* Several processes publish at once, the same bytes among them; each      *)
(* system call is a step, may fail, and may be the last before a crash.    *)
(* A power loss keeps only what was fsynced, and since the directory never *)
(* is, it may also drop a whole name.  Names are digests: a name stands    *)
(* for its bytes, and "foreign" is any file with other bytes.  Temporary   *)
(* files left behind have unique names that nobody reads; they are left    *)
(* out.  Name_Bug is Name with one plausible mistake, never part of Spec.  *)
(***************************************************************************)
CONSTANTS Publishers,   \* processes (collection runs)
          Derived,      \* names published by publish_immutable
          Raw           \* names written by fetch

ASSUME NamesAssumption == Derived \cap Raw = {}
ASSUME NoneAssumption == "none" \notin Derived \cup Raw

VARIABLES store,     \* store[n]: the file under name n
          spoilt,    \* history: names some outsider or power loss touched
          pc, job,   \* per publisher: next system call, and the name it wants
          temp,      \* its temporary file
          answer     \* how its last call ended

vars == <<store, spoilt, pc, job, temp, answer>>

Names == Derived \cup Raw

Files == {"absent", "durable", "volatile", "torn", "foreign"}
Temps == {"none", "empty", "written", "synced"}
Calls == {"idle", "probe", "compare", "create", "write", "sync", "link",
          "clean"}
Verdicts == {"none", "ok", "conflict", "failed"}

\* A reader finds the right bytes, on the platter or in the page cache.
Reads(n) == store[n] \in {"durable", "volatile"}

\* What giving a name to p's temporary file puts under that name.
Linked(p) == CASE temp[p] = "synced" -> "durable"
               [] temp[p] = "written" -> "volatile"
               [] OTHER -> "torn"

-----------------------------------------------------------------------------
Init == /\ store = [n \in Names |-> "absent"]
        /\ spoilt = {}
        /\ pc = [p \in Publishers |-> "idle"]
        /\ job = [p \in Publishers |-> "none"]
        /\ temp = [p \in Publishers |-> "none"]
        /\ answer = [p \in Publishers |-> "none"]

Goto(p, label) == pc' = [pc EXCEPT ![p] = label]
Answer(p, verdict) == answer' = [answer EXCEPT ![p] = verdict]

Begin(p) == /\ pc[p] = "idle"
            /\ \E n \in Names : job' = [job EXCEPT ![p] = n]
            /\ Goto(p, "probe")
            /\ Answer(p, "none")
            /\ UNCHANGED <<store, spoilt, temp>>

\* destination.exists(): publish_immutable then compares, fetch returns.
Probe(p) ==
    /\ pc[p] = "probe"
    /\ \/ /\ store[job[p]] = "absent"
          /\ Goto(p, "create")
          /\ UNCHANGED answer
       \/ /\ store[job[p]] # "absent"
          /\ job[p] \in Derived
          /\ Goto(p, "compare")
          /\ UNCHANGED answer
       \/ /\ store[job[p]] # "absent"
          /\ job[p] \in Raw
          /\ Goto(p, "idle")
          /\ Answer(p, "ok")
    /\ UNCHANGED <<store, spoilt, job, temp>>

Compare_Trusts(p) ==
    /\ pc[p] = "compare"
    /\ Answer(p, "ok")
    /\ Goto(p, IF temp[p] = "none" THEN "idle" ELSE "clean")
    /\ UNCHANGED <<store, spoilt, job, temp>>

\* is_file() and read_bytes() against the payload.
Compare(p) ==
    /\ pc[p] = "compare"
    /\ Answer(p, IF Reads(job[p]) THEN "ok" ELSE "conflict")
    /\ Goto(p, IF temp[p] = "none" THEN "idle" ELSE "clean")
    /\ UNCHANGED <<store, spoilt, job, temp>>

Create(p) == /\ pc[p] = "create"
             /\ temp' = [temp EXCEPT ![p] = "empty"]
             /\ Goto(p, "write")
             /\ UNCHANGED <<store, spoilt, job, answer>>

Write_NoSync(p) ==
    /\ pc[p] = "write"
    /\ temp' = [temp EXCEPT ![p] = "written"]
    /\ Goto(p, "link")
    /\ UNCHANGED <<store, spoilt, job, answer>>

Write(p) == /\ pc[p] = "write"
            /\ temp' = [temp EXCEPT ![p] = "written"]
            /\ Goto(p, "sync")
            /\ UNCHANGED <<store, spoilt, job, answer>>

Sync(p) == /\ pc[p] = "sync"
           /\ temp' = [temp EXCEPT ![p] = "synced"]
           /\ Goto(p, "link")
           /\ UNCHANGED <<store, spoilt, job, answer>>

Link_Early(p) ==
    /\ pc[p] \in {"write", "link"}
    /\ job[p] \in Derived
    /\ store[job[p]] = "absent"
    /\ store' = [store EXCEPT ![job[p]] = Linked(p)]
    /\ Goto(p, IF pc[p] = "link" THEN "clean" ELSE "write")
    /\ Answer(p, "ok")
    /\ UNCHANGED <<spoilt, job, temp>>

Link_Replaces(p) ==
    /\ pc[p] = "link"
    /\ job[p] \in Derived
    /\ store' = [store EXCEPT ![job[p]] = Linked(p)]
    /\ Answer(p, "ok")
    /\ Goto(p, "clean")
    /\ UNCHANGED <<spoilt, job, temp>>

\* os.link: takes a free name; FileExistsError leads to the comparison.
Link(p) ==
    /\ pc[p] = "link"
    /\ job[p] \in Derived
    /\ \/ /\ store[job[p]] = "absent"
          /\ store' = [store EXCEPT ![job[p]] = Linked(p)]
          /\ Answer(p, "ok")
          /\ Goto(p, "clean")
       \/ /\ store[job[p]] # "absent"
          /\ Goto(p, "compare")
          /\ UNCHANGED <<store, answer>>
    /\ UNCHANGED <<spoilt, job, temp>>

\* os.replace: _atomic_write overwrites whatever has the name by now.
Replace(p) == /\ pc[p] = "link"
              /\ job[p] \in Raw
              /\ store' = [store EXCEPT ![job[p]] = Linked(p)]
              /\ temp' = [temp EXCEPT ![p] = "none"]
              /\ Answer(p, "ok")
              /\ Goto(p, "idle")
              /\ UNCHANGED <<spoilt, job>>

\* finally: temporary.unlink().
Clean(p) == /\ pc[p] = "clean"
            /\ temp' = [temp EXCEPT ![p] = "none"]
            /\ Goto(p, "idle")
            /\ UNCHANGED <<store, spoilt, job, answer>>

Fail_Leaks(p) ==
    /\ pc[p] \notin {"idle", "clean"}
    /\ Answer(p, "failed")
    /\ Goto(p, "idle")
    /\ UNCHANGED <<store, spoilt, job, temp>>

\* Any system call raises OSError; a temporary file is still unlinked.
Fail(p) == /\ pc[p] \notin {"idle", "clean"}
           /\ Answer(p, "failed")
           /\ Goto(p, IF temp[p] = "none" THEN "idle" ELSE "clean")
           /\ UNCHANGED <<store, spoilt, job, temp>>

Crash(p) == /\ pc[p] # "idle"
            /\ Goto(p, "idle")
            /\ job' = [job EXCEPT ![p] = "none"]
            /\ temp' = [temp EXCEPT ![p] = "none"]
            /\ Answer(p, "none")
            /\ UNCHANGED <<store, spoilt>>

\* What can be left of a file whose bytes or name were not on the platter.
Survives(file) == CASE file = "durable" -> {"durable", "absent"}
                    [] file = "volatile" -> {"torn", "absent"}
                    [] OTHER -> {file, "absent"}

PowerLoss ==
    /\ store' \in [Names -> Files]
    /\ \A n \in Names : store'[n] \in Survives(store[n])
    /\ spoilt' = spoilt \cup {n \in Names : store'[n] # store[n]}
    /\ pc' = [p \in Publishers |-> "idle"]
    /\ job' = [p \in Publishers |-> "none"]
    /\ temp' = [p \in Publishers |-> "none"]
    /\ answer' = [p \in Publishers |-> "none"]

\* Somebody else edits, replaces or removes the file.
Intrude(n) == /\ \E file \in {"absent", "foreign"} :
                    store' = [store EXCEPT ![n] = file]
              /\ spoilt' = spoilt \cup {n}
              /\ UNCHANGED <<pc, job, temp, answer>>

Step(p) == \/ Probe(p) \/ Compare(p) \/ Create(p) \/ Write(p) \/ Sync(p)
           \/ Link(p) \/ Replace(p) \/ Clean(p)

Next == \/ \E p \in Publishers : Begin(p) \/ Step(p) \/ Fail(p) \/ Crash(p)
        \/ PowerLoss
        \/ \E n \in Names : Intrude(n)

Spec == Init /\ [][Next]_vars
-----------------------------------------------------------------------------
\* Types; of the temporary files, that a call that ended has left none.
TypeOK == /\ store \in [Names -> Files]
          /\ spoilt \subseteq Names
          /\ pc \in [Publishers -> Calls]
          /\ job \in [Publishers -> Names \cup {"none"}]
          /\ temp \in [Publishers -> Temps]
          /\ answer \in [Publishers -> Verdicts]
          /\ \A p \in Publishers : pc[p] = "idle" => temp[p] = "none"

\* No name ever shows a partial file, not even after a power loss: a file
\* gets its name only once its bytes are on the platter (artifacts.py 23-28,
\* _atomic_write).
NeverTorn == \A n \in Names : store[n] \notin {"torn", "volatile"}

\* Publishers racing for one name do not refuse each other: publish_immutable
\* reports a conflict only for a name somebody else has interfered with.
NoFalseConflict ==
    \A p \in Publishers : answer[p] = "conflict" => job[p] \in spoilt

\* publish_immutable never alters or removes a file that is already there,
\* not even a wrong one that appeared after its exists() check.
ExistingKept ==
    [][\A n \in Derived : \/ store[n] \in {"absent", store'[n]}
                          \/ PowerLoss
                          \/ Intrude(n)]_vars

\* What each statement of a publisher has established.
Established(p) ==
    /\ pc[p] \notin {"idle"} => job[p] \in Names
    /\ pc[p] \in {"probe", "create"} => temp[p] = "none"
    /\ pc[p] = "write" => temp[p] = "empty"
    /\ pc[p] = "sync" => temp[p] = "written"
    /\ pc[p] = "link" => temp[p] = "synced"
    /\ pc[p] = "compare" => /\ job[p] \in Derived
                            /\ \/ store[job[p]] = "durable"
                               \/ job[p] \in spoilt
    /\ answer[p] = "conflict" => job[p] \in spoilt

\* A name nobody interfered with is free or whole.
IInv == /\ TypeOK
        /\ NeverTorn
        /\ \A n \in Names : n \notin spoilt => store[n] \in {"absent", "durable"}
        /\ \A p \in Publishers : Established(p)

\* Derived artifacts form a write-once store: names are filled once, with
\* their whole bytes, and a caller's verdict is true when it is given.
Seen(file) == CASE file \in {"durable", "volatile"} -> "whole"
                [] OTHER -> file
Told(p) == IF job[p] \in Derived /\ answer[p] \in {"ok", "conflict"}
             THEN [name |-> job[p], verdict |-> answer[p]]
             ELSE [name |-> "none", verdict |-> "none"]

Promise == INSTANCE WriteOnceStore
             WITH Callers <- Publishers,
                  Names <- Derived,
                  object <- [n \in Derived |-> Seen(store[n])],
                  answer <- [p \in Publishers |-> Told(p)]

ImplementsWriteOnce == Promise!Spec
=============================================================================
