--------------------------- MODULE MCProductGraph ---------------------------
(***************************************************************************)
(* ProductGraph with one small workbook per dataset, a corrected one, two  *)
(* that are refused, two rows a batch, a fund, and a fund that holds it.   *)
(***************************************************************************)
EXTENDS ProductGraph

Row(item, isin, ticker, market, etn) ==
    [item |-> item, isin |-> isin, ticker |-> ticker, market |-> market,
     etn |-> etn, asOf |-> NoText]

Book(rows) == [name |-> "baseline", schema |-> "baseline", rows |-> rows]

MCTexts == {"KRB", "KRF", "KRN", "USF", "PD1", "TCK", "AMX", "NYS", "bad",
            "unknown-market"}
MCIsins == {"KRB", "KRF", "KRN", "USF"}
MCKoreanItems == {"KRF"}
MCDates == {"base"}

Bond  == Row("KRB", NoText, NoText, NoText, FALSE)
Local == Row("PD1", NoText, NoText, NoText, FALSE)
Blank == Row(NoText, NoText, NoText, NoText, FALSE)
Fund  == Row("KRF", NoText, "TCK", "AMX", FALSE)
NoteRow == Row("KRN", NoText, NoText, "AMX", TRUE)

MCWorkbook ==
    [bonds    |-> Book(<<Bond, Blank, Local>>),
     shorter  |-> Book(<<Bond, Local>>),
     domestic |-> Book(<<Fund, NoteRow>>),
     overseas |-> Book(<<Row("TCK", NoText, NoText, "AMX", FALSE),
                         Row("TCK", NoText, NoText, "NYS", FALSE)>>),
     public   |-> Book(<<Row("KRF", NoText, NoText, NoText, FALSE),
                         Row("bad", NoText, NoText, NoText, FALSE)>>),
     headless |-> [Book(<<Bond>>) EXCEPT !.schema = "headerless"],
     renamed  |-> [Book(<<Bond>>) EXCEPT !.name = "other"]]
MCBooks == DOMAIN MCWorkbook

MCVersions ==
    [domestic_bonds   |-> {"bonds", "shorter", "headless", "renamed"},
     domestic_etf_etn |-> {"domestic"},
     overseas_etf_etn |-> {"overseas"},
     public_funds     |-> {"public"}]

MCSelections == {Datasets, {"domestic_etf_etn"}}

FundRelease == [fund |-> "KRF", constituents |-> {"KRB"}]
Feeder      == [fund |-> "USF", constituents |-> {"KRF"}]
MCReleases  == {FundRelease, Feeder}
MCCsvs == {[batch |-> "b0", release |-> FundRelease]}
=============================================================================
