----------------------------- MODULE ProductRows -----------------------------
(***************************************************************************)
(* What one row of an organizer workbook becomes in the graph: the         *)
(* transformers of loader.py, with the URI rules of model.py.              *)
(*                                                                         *)
(* A row is known by the columns that decide what it describes.  A payload *)
(* lists the entity nodes its statement merges, each with the label        *)
(* pattern of the MERGE clause, and the dated observations it hangs on     *)
(* them.  Names, prices, identifiers, organizations, classifications,      *)
(* listings and offerings are written by the same statement under URIs of  *)
(* their own and are left out.                                             *)
(***************************************************************************)
EXTENDS Integers, Sequences, FiniteSets

CONSTANTS Texts,         \* cell values
          Isins,         \* the texts that are shaped like an ISIN
          KoreanItems,   \* the texts is_korean_source_item accepts
          NoText,        \* an empty cell
          Dates,         \* dates a row may carry
          BaselineDate   \* ORGANIZER_BASELINE_DATE

ASSUME TextAssumption ==
    /\ Isins \subseteq Texts
    /\ KoreanItems \subseteq Texts
    /\ "unknown-market" \in Texts
    /\ NoText \notin Texts \cup Dates
    /\ BaselineDate \in Dates

\* The datasets in the order a load takes them.
DATASETS == <<"domestic_bonds", "domestic_etf_etn", "overseas_etf_etn",
              "public_funds">>
Datasets == {"domestic_bonds", "domestic_etf_etn", "overseas_etf_etn",
             "public_funds"}
ExchangeDatasets == {"domestic_etf_etn", "overseas_etf_etn"}

Cells == Texts \cup {NoText}

Rows == [item   : Cells,                  \* PD_NO, pd_itm_no or itm_no
         isin   : Cells,                  \* pd_isin_cd
         ticker : Cells,                  \* pd_itm_no_ma
         market : Cells,                  \* pd_exg_mkt_cd
         etn    : BOOLEAN,                \* product group or ETN flag
         asOf   : Dates \cup {NoText}]    \* the row's own update date

Workbooks == [name   : {"baseline", "other"},
              schema : {"baseline", "other", "headerless"},
              rows   : Seq(Rows)]

-----------------------------------------------------------------------------
(* URIs and labels.                                                        *)

Address(space, market, key) ==
    [space |-> space, market |-> market, key |-> key]

Addresses == [space  : {"isin", "bond", "public-fund"} \cup ExchangeDatasets,
              market : Cells,
              key    : Texts]
Uris == [domain : {"security", "fund"}, address : Addresses]

IsinAddress(x) == Address("isin", NoText, x)

security_uri(id, fallback) ==
    [domain  |-> "security",
     address |-> IF id \in Isins THEN IsinAddress(id) ELSE fallback]

fund_uri(id, fallback) ==
    [domain  |-> "fund",
     address |-> IF id \in Isins THEN IsinAddress(id) ELSE fallback]

SecurityLabels == {"Resource", "Entity", "FinancialInstrument", "Security"}
BondLabels     == SecurityLabels \cup {"Bond"}
EtnLabels      == SecurityLabels \cup {"ExchangeTradedNote"}
FundUnitLabels == SecurityLabels \cup {"FundUnit"}
FundLabels     == {"Resource", "Entity", "Fund"}
Patterns == {SecurityLabels, BondLabels, EtnLabels, FundUnitLabels, FundLabels}

Node(uri, labels) == [uri |-> uri, labels |-> labels]
Nodes == [uri : Uris, labels : Patterns]

\* urn:miraeasset:observation:{family}:{key}:{asOf}
Observation(family, key, asOf) ==
    [family |-> family, key |-> key, asOf |-> asOf]
Observations == [family : {"domestic_bonds", "public_funds"} \cup ExchangeDatasets,
                 key : Texts, asOf : Dates]

-----------------------------------------------------------------------------
(* The transformers.                                                       *)

Issue == [kind |-> "issue", merges |-> {}, observes |-> {}]

as_of(row) == IF row.asOf # NoText THEN row.asOf ELSE BaselineDate

transform_bond(row) ==
    IF row.item = NoText THEN Issue
    ELSE LET uri == security_uri(row.item, Address("bond", NoText, row.item))
         IN [kind     |-> "bond",
             merges   |-> {Node(uri, BondLabels)},
             observes |-> {<<uri, Observation("domestic_bonds", row.item,
                                              as_of(row))>>}]

\* A domestic row's item number is its ISIN, an overseas row has a column for
\* it.  The dated FundSnapshot is named after the last part of the unit's URI:
\* the ISIN, or the ticker without its market.
transform_exchange_product(dataset, row) ==
    IF row.item = NoText THEN Issue
    ELSE LET isin_value == IF dataset = "domestic_etf_etn" THEN row.item
                           ELSE row.isin
             ticker   == IF row.ticker # NoText THEN row.ticker ELSE row.item
             market   == IF row.market # NoText THEN row.market
                         ELSE "unknown-market"
             fallback == Address(dataset, market, ticker)
             unit     == security_uri(isin_value, fallback)
         IN IF row.etn
            THEN [kind     |-> "etn",
                  merges   |-> {Node(unit, EtnLabels)},
                  observes |-> {}]
            ELSE [kind     |-> "fund",
                  merges   |-> {Node(fund_uri(isin_value, fallback), FundLabels),
                                Node(unit, FundUnitLabels)},
                  observes |-> {<<unit, Observation(dataset, unit.address.key,
                                                    as_of(row))>>}]

transform_public_fund_Bug(row) ==
    IF row.item \notin KoreanItems THEN Issue
    ELSE LET fallback == Address("public-fund", NoText, row.item)
             unit     == security_uri(row.item, fallback)
         IN [kind     |-> "fund",
             merges   |-> {Node(fund_uri(row.item, fallback), FundLabels),
                           Node(unit, FundUnitLabels)},
             observes |-> {<<unit, Observation("public_funds", row.item,
                                               BaselineDate)>>}]

\* itm_no is shaped like an ISIN but is not documented as one, so a public
\* fund is kept in an identity domain of its own.
transform_public_fund(row) ==
    IF row.item \notin KoreanItems THEN Issue
    ELSE LET fallback == Address("public-fund", NoText, row.item)
             unit     == security_uri(NoText, fallback)
         IN [kind     |-> "fund",
             merges   |-> {Node(fund_uri(NoText, fallback), FundLabels),
                           Node(unit, FundUnitLabels)},
             observes |-> {<<unit, Observation("public_funds", row.item,
                                               BaselineDate)>>}]

TRANSFORMERS(dataset, row) ==
    IF dataset = "domestic_bonds" THEN transform_bond(row)
    ELSE IF dataset = "public_funds" THEN transform_public_fund(row)
    ELSE transform_exchange_product(dataset, row)

Payloads == [kind     : {"bond", "fund", "etn", "issue"},
             merges   : SUBSET Nodes,
             observes : SUBSET (Uris \X Observations)]
=============================================================================
