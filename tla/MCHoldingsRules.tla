--------------------------- MODULE MCHoldingsRules ---------------------------
(***************************************************************************)
(* Small instances of HoldingsRules: two local keys of which one is spelt  *)
(* in two ways, two ISINs, a malformed one and a placeholder.              *)
(***************************************************************************)
EXTENDS HoldingsRules

MCTexts == {"a", "A", "B", "us", "US", "KR", "bad", "NA"}
MCUpper == [t \in MCTexts |-> IF t = "a" THEN "A" ELSE IF t = "us" THEN "US" ELSE t]
MCIsins == {"US", "KR"}
MCPlaceholders == {"NA"}

Short(S, n) == UNION {[1 .. m -> S] : m \in 0 .. n}

Reviews ==
    {[reviewed |-> TRUE, type |-> "isin", key |-> "a", id |-> "us"],
     [reviewed |-> TRUE, type |-> "isin", key |-> "A", id |-> "US"],
     [reviewed |-> TRUE, type |-> "isin", key |-> "A", id |-> "KR"],
     [reviewed |-> TRUE, type |-> "isin", key |-> "B", id |-> "bad"]}

\* Files of up to three rows that count, or up to two of any kind.
MCCrosswalks ==
    Short(Reviews, 3)
    \cup Short(Reviews \cup
          {[reviewed |-> FALSE, type |-> "isin", key |-> "B", id |-> "KR"],
           [reviewed |-> TRUE, type |-> "krx_code", key |-> "B", id |-> "a"]}, 2)

Num(n) == [k |-> "num", v |-> n]
Inf(n) == [k |-> "inf", v |-> n]
Invalid == [k |-> "invalid", v |-> 0]
Plain == [isin |-> "us", key |-> None, name |-> TRUE, percent |-> Missing,
          quantity |-> Missing, value |-> Num(2)]

\* Rows that differ in who they are, in one number, or in weight and value.
MCRows ==
    {[Plain EXCEPT !.isin = i, !.key = k] :
        i \in {None, "us", "bad", "NA"}, k \in {None, "a", "B"}}
    \cup {[Plain EXCEPT !.name = FALSE]}
    \cup {[Plain EXCEPT !.quantity = q] :
            q \in {Invalid, Num(-1), Num(0), Nan, Inf(1), Inf(-1)}}
    \cup {[Plain EXCEPT !.percent = c, !.value = x] :
            c \in {Missing, Invalid, Num(-1), Num(0), Num(100), Num(101), Nan,
                   Inf(1)},
            x \in {Missing, Invalid, Num(-1), Num(0), Num(3), Nan, Inf(1),
                   Inf(-1)}}
    \cup {[Plain EXCEPT !.isin = "bad", !.value = x] : x \in {Nan, Inf(1)}}

\* One row of any kind, alone or after a plain one, or up to three rows
\* with different values.
MCDocuments ==
    Short(MCRows, 1)
    \cup {<<Plain, r>> : r \in MCRows}
    \cup Short({Plain, [Plain EXCEPT !.value = Missing],
                [Plain EXCEPT !.isin = None, !.key = "a"],
                [Plain EXCEPT !.isin = "bad", !.value = Num(3)]}, 3)
=============================================================================
