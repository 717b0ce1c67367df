---------------------------- MODULE TargetPolicy ----------------------------
(***************************************************************************)
(* The reviewed targets of targets.py: what a target config must satisfy,  *)
(* and which of its targets a command selects.                             *)
(*                                                                         *)
(* Dates and instants are integers.  A row's other fields (URL, ISIN, key  *)
(* sets, time zone) are one flag: they are well formed or not.  Document   *)
(* ids are numbered in repr() order, the order in which they are fetched.  *)
(***************************************************************************)
EXTENDS Integers, Sequences, FiniteSets

CONSTANTS POLICY_START, POLICY_END,  \* dates
          POLICY_CUTOFF,             \* an instant
          Unbounded                  \* a window's bound that is None

ASSUME PolicyAssumption ==
    /\ POLICY_START \in Int /\ POLICY_END \in Int /\ POLICY_CUTOFF \in Int
    /\ Unbounded \notin Int

Rows == [id : Nat, asOf : Int, publishedAt : Int, wellFormed : BOOLEAN]
WindowBounds == [start : Int \cup {Unbounded}, end : Int \cup {Unbounded},
                 cutoff : Int \cup {Unbounded}]

\* _parse_target accepts the row.
Parses(row) ==
    /\ row.wellFormed
    /\ POLICY_START <= row.asOf /\ row.asOf <= POLICY_END
    /\ row.publishedAt <= POLICY_CUTOFF

\* load_target_config accepts the file.
LoadsConfig(rows) ==
    /\ \A i \in DOMAIN rows : Parses(rows[i])
    /\ \A i, j \in DOMAIN rows : rows[i].id = rows[j].id => i = j

Inside(row, w) ==
    /\ w.start # Unbounded => row.asOf >= w.start
    /\ w.end # Unbounded => row.asOf <= w.end
    /\ w.cutoff # Unbounded => row.publishedAt <= w.cutoff

\* target_window accepts the bounds: they may narrow the policy only.
Narrows(w) ==
    /\ w.start # Unbounded /\ w.end # Unbounded => w.start <= w.end
    /\ w.start # Unbounded => POLICY_START <= w.start
    /\ w.end # Unbounded => w.end <= POLICY_END
    /\ w.cutoff # Unbounded => w.cutoff <= POLICY_CUTOFF

target_window(rows, w) == {rows[i] : i \in {j \in DOMAIN rows : Inside(rows[j], w)}}

\* The adapters filter once more in discover.
discover(targets, w) == {row \in targets : Inside(row, w)}

Ids(targets) == {row.id : row \in targets}
=============================================================================
