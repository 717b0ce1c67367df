----------------------------- MODULE ManifestLog -----------------------------
(***************************************************************************)
(* The manifest file of manifest.py: JSON lines, appended without fsync    *)
(* and read as a whole.                                                    *)
(*                                                                         *)
(* The file is the sequence of what each append left in it.  An append     *)
(* that fails, or whose process dies, leaves nothing, a torn piece of its  *)
(* line, or the whole object without the newline.  The next append goes on *)
(* in the same line: no piece of a JSON object followed by another object  *)
(* is JSON, and neither are two objects in a row, so json.loads raises.    *)
(***************************************************************************)
EXTENDS Integers, Sequences, FiniteSets

Parts == {"line", "unended", "torn"}
Chunk(entry, part) == [entry |-> entry, part |-> part]

\* append_entry, when it returns.
Appended(log, entry) == Append(log, Chunk(entry, "line"))

\* What the file may hold when it does not return.
Leftovers(log, entry) ==
    {log} \cup {Append(log, Chunk(entry, part)) : part \in Parts}

\* Every line is one JSON object; the last one may lack its newline.
Readable(log) ==
    \A i \in DOMAIN log :
        log[i].part = "line" \/ (log[i].part = "unended" /\ i = Len(log))

\* The reader that skips what it cannot parse, in the place of one that raises.
read_manifest_Bug(log) ==
    [raised  |-> FALSE,
     entries |-> {log[i].entry : i \in {j \in DOMAIN log :
                     /\ log[j].part = "line"
                     /\ j > 1 => log[j - 1].part = "line"}}]

\* The entries of the file, or an exception.
read_manifest(log) ==
    IF Readable(log)
    THEN [raised |-> FALSE, entries |-> {log[i].entry : i \in DOMAIN log}]
    ELSE [raised |-> TRUE, entries |-> {}]

\* Nothing is fsynced: a loss of power may take the tail of the file, and
\* tear the entry it ends in.
Truncations(log) ==
    {SubSeq(log, 1, n) : n \in 0 .. Len(log)}
      \cup {Append(SubSeq(log, 1, n - 1), Chunk(log[n].entry, "torn")) :
               n \in DOMAIN log}
      \cup {Append(SubSeq(log, 1, n - 1), Chunk(log[n].entry, "unended")) :
               n \in {m \in DOMAIN log : log[m].part = "line"}}
=============================================================================
