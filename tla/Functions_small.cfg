\* An hour of two instants, a day of three hours; two letters and a digit; an
\* int64 of three bits; two issues over three days.
SPECIFICATION Spec
CONSTANTS
    HourLength = 2
    HoursPerDay = 3
    Lower = {"p", "q"}
    Digit = {"1"}
    Upper = {"X"}
    MaxInt64 = 3
    Offset = 1
    Double <- Doubles
    Single <- Singles
    Shortest <- Decimals
    MaxDecimal = 5
    Failed = Failed
    Issue = {i1, i2}
    Null = Null
    Absent = Absent
    NoFile = NoFile
    Instant <- Instants
    Length = {0, 1, 2, 3, 4}
    Tables <- TablesOfThree
    Character <- Characters
    Field = {"title", "notes"}
    Issues <- TwoIssues
    Number <- Numbers
    Column <- Columns
    BatchColumns <- UpToTwoColumns
    BatchRow <- UpToTwoValues
    Now = 3
    History <- Histories
INVARIANTS
    LookbackSuffices
    RangePartitionsDates
    WindowsHaveTheirNames
    MentionsAreCounted
    ValuesSurvive
    BatchesEncode
    HistoryIsIntervals
    HistoryIsTrue
