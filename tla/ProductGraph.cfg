SPECIFICATION Spec
CONSTANTS
    Texts <- MCTexts
    Isins <- MCIsins
    KoreanItems <- MCKoreanItems
    NoText = NoText
    Dates <- MCDates
    BaselineDate = "base"
    Books <- MCBooks
    Workbook <- MCWorkbook
    Versions <- MCVersions
    Selections <- MCSelections
    BatchSize = 2
    MaxRows = 3
    MaxCommands = 3
    Releases <- MCReleases
    Csvs <- MCCsvs
    Nothing = Nothing
INVARIANTS
    TypeOK
    RowsAccounted
    RerunSafe
    DuplicatesForCause
    ConflictForCause
    OneIdentity
CHECK_DEADLOCK FALSE
