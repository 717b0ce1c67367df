------------------------- MODULE MCSourceCollection -------------------------
(***************************************************************************)
(* SourceCollection with two reviewed targets, a config that names one of  *)
(* them, one that names both, and one that is refused.                     *)
(***************************************************************************)
EXTENDS SourceCollection

Target(id, asOf) ==
    [id |-> id, asOf |-> asOf, publishedAt |-> asOf + 1, wellFormed |-> TRUE]

MCRowsOf == [one     |-> <<Target(1, 2)>>,
             both    |-> <<Target(2, 3), Target(1, 2)>>,
             doubled |-> <<Target(1, 2), Target(1, 3)>>]
MCConfigs == DOMAIN MCRowsOf

Window(start, end, cutoff) == [start |-> start, end |-> end, cutoff |-> cutoff]
MCWindows == {Window(Unbounded, Unbounded, Unbounded),
              Window(3, Unbounded, Unbounded),
              Window(0, Unbounded, Unbounded)}

MCForeignEntries ==
    {[run |-> 0, target |-> 2, config |-> "both", crosswalk |-> "x",
      phase |-> "ready"]}
=============================================================================
