------------------------------ MODULE Batches ------------------------------
(***************************************************************************)
(* A value's way from the driver into a bronze file: the type of its       *)
(* column gives a kind, the value is decoded for that kind, the batch is   *)
(* validated (when fetched and when written), and the value is encoded.    *)
(* Each of these steps has its own table of kinds and Go types.            *)
(* A Go value is a record of its type and of its content n: a number (also *)
(* as text), the wall time of a time.Time in a zone utc or local; what a   *)
(* text that is no number says is left out. Failed stands for an error.    *)
(* In a FLOAT column a text may be any decimal: the numbers there count in *)
(* a unit so small that all decimals are whole, and floats have gaps.      *)
(***************************************************************************)
EXTENDS Integers, Sequences

CONSTANTS
    MaxInt64,   \* math.MaxInt64
    Offset,     \* of the local zone
    Double,     \* the numbers that a float64 can be
    Single,     \* the numbers that a float32 can be
    Shortest,   \* Shortest[f]: the shortest decimal that reads as the float32 f
    MaxDecimal, \* decimals of a greater size are beyond any float64
    Failed      \* model value: an error

Leaf == {"UTF8", "INT64", "DOUBLE", "BOOLEAN", "TIMESTAMP_naive"}

Kind == {"String", "Int64", "Float64", "Bool", "Timestamp"}

MinInt64 == -MaxInt64 - 1

Integer == {"int64", "int32", "int16", "int8", "int", "uint32", "uint16", "uint8"}

Text == {"bytes", "string"}

GoType == Integer \cup Text \cup {"nil", "uint64", "float64", "float32", "bool", "time_utc", "time_local"}

Value(go, n) == [go |-> go, n |-> n]

(* An error is neither a kind, nor a value, nor a leaf or its content.     *)
ASSUME BatchesAssumption ==
    /\ MaxInt64 \in Nat /\ Offset \in Int
    /\ Double \subseteq Int /\ Double # {}
    /\ MaxDecimal \in Nat /\ Shortest \in [Single -> -MaxDecimal .. MaxDecimal]
    /\ Failed \notin Kind \cup Leaf
    /\ Failed \notin [go : GoType, n : Int]
    /\ Failed \notin [leaf : Leaf, null : BOOLEAN, n : Int]

(* What a driver serves: no number its type has no place for; a text may   *)
(* be any number.                                                          *)
Served(v) ==
    /\ v.go \in Integer => v.n \in MinInt64 .. MaxInt64
    /\ v.go \in {"uint32", "uint16", "uint8"} => v.n >= 0
    /\ v.go = "uint64" => v.n \in 0 .. 2 * MaxInt64 + 1
    /\ v.go = "float64" => v.n \in Double
    /\ v.go = "float32" => v.n \in Single

(* Column types of the driver, by what they hold.                          *)
DatabaseType == {"VARCHAR", "JSON", "DECIMAL", "TINYINT", "BIGINT", "UNSIGNED_BIGINT", "FLOAT", "DATETIME", "BLOB"}

ColumnKind(type) ==
    CASE type \in {"VARCHAR", "JSON", "DECIMAL"} -> "String"
      [] type \in {"TINYINT", "BIGINT", "UNSIGNED_BIGINT"} -> "Int64"
      [] type = "FLOAT" -> "Float64"
      [] type = "DATETIME" -> "Timestamp"
      [] OTHER -> Failed

(* Mutated form: int64(u).                                                 *)
uint64Wrapped(u) == Value("int64", IF u > MaxInt64 THEN u - 2 * (MaxInt64 + 1) ELSE u)

uint64ToInt64(u) == IF u > MaxInt64 THEN Failed ELSE Value("int64", u)

(* ParseInt, and ParseUint of what ParseInt refuses.                       *)
parseInt64(n) ==
    IF n \in MinInt64 .. MaxInt64 THEN Value("int64", n)
    ELSE IF n >= 0 THEN uint64ToInt64(n) ELSE Failed

Distance(m, n) == IF m <= n THEN n - m ELSE m - n

(* The float64s to which no other is nearer, as seen from a decimal.       *)
Nearest(n) == {d \in Double : \A e \in Double : Distance(n, d) <= Distance(n, e)}

(* ParseFloat: a decimal that is no float64 is rounded, and that is no     *)
(* error; which of two equally near ones it takes is left open.            *)
parseFloat(n) ==
    IF n \in -MaxDecimal .. MaxDecimal
      THEN Value("float64", CHOOSE d \in Nearest(n) : TRUE)
      ELSE Failed

(* Mutated form: float64(f).                                               *)
float32Widened(f) == Value("float64", f)

(* FormatFloat, and ParseFloat of what it says.                            *)
float32ToFloat64(f) == parseFloat(Shortest[f])

(* Wall time as it is shown in UTC: In(time.UTC), a mutated form.          *)
wallClockShifted(v) == Value("time_utc", IF v.go = "time_local" THEN v.n - Offset ELSE v.n)

wallClockUTC(v) == Value("time_utc", v.n)

decodeValue(kind, v) ==
    CASE v.go = "nil" -> v
      [] kind = "String" /\ v.go \in Text -> Value("string", v.n)
      [] kind = "Int64" /\ v.go \in Integer -> Value("int64", v.n)
      [] kind = "Int64" /\ v.go = "uint64" -> uint64ToInt64(v.n)
      [] kind = "Int64" /\ v.go \in Text -> parseInt64(v.n)
      [] kind = "Float64" /\ v.go = "float64" -> Value("float64", v.n)
      [] kind = "Float64" /\ v.go = "float32" -> float32ToFloat64(v.n)
      [] kind = "Float64" /\ v.go \in Text -> parseFloat(v.n)
      [] kind = "Timestamp" /\ v.go \in {"time_utc", "time_local"} -> wallClockUTC(v)
      [] kind = "Timestamp" /\ v.go \in Text -> Value("time_utc", v.n)
      [] OTHER -> Failed

NoName == ""

(* The type of a value other than nil, by the kind of its column.          *)
GoTypeOf(kind) ==
    CASE kind = "String" -> "string"
      [] kind = "Int64" -> "int64"
      [] kind = "Float64" -> "float64"
      [] kind = "Bool" -> "bool"
      [] kind = "Timestamp" -> "time_utc"
      [] OTHER -> "none"

validateValue(kind, v) == v.go = GoTypeOf(kind)

(* Mutated form: rows may be short.                                        *)
ValidateLonger(b) ==
    /\ \A i \in DOMAIN b.columns : b.columns[i].kind \in Kind
    /\ \A row \in b.rows : Len(row) <= Len(b.columns)

(* Batch.Validate                                                          *)
Validate(b) ==
    /\ \A i \in DOMAIN b.columns :
          /\ b.columns[i].name # NoName
          /\ \A j \in 1 .. i - 1 : b.columns[j].name # b.columns[i].name
          /\ b.columns[i].kind \in Kind
    /\ \A row \in b.rows :
          /\ Len(row) = Len(b.columns)
          /\ \A i \in DOMAIN row : row[i].go = "nil" \/ validateValue(b.columns[i].kind, row[i])

Provenance == <<"_extracted_at", "_window_start", "_window_end", "_source_file">>

(* The letter case folded away.                                            *)
Fold(name) == IF name = "_SOURCE_FILE" THEN "_source_file" ELSE name

(* Mutated form: the letter case matters.                                  *)
CollidesAsWritten(name) == \E i \in DOMAIN Provenance : Provenance[i] = name

provenanceCollision(name) == \E i \in DOMAIN Provenance : Provenance[i] = Fold(name)

(* A leaf of the file's schema; no kind but the five has one.              *)
leafOf(kind) ==
    CASE kind = "String" -> "UTF8"
      [] kind = "Int64" -> "INT64"
      [] kind = "Float64" -> "DOUBLE"
      [] kind = "Bool" -> "BOOLEAN"
      [] kind = "Timestamp" -> "TIMESTAMP_naive"
      [] OTHER -> Failed

(* What is stored: NULL, or a number; a timestamp as its wall time,        *)
(* wherever it is located.                                                 *)
valueOf(kind, v) ==
    CASE v.go = "nil" -> [leaf |-> leafOf(kind), null |-> TRUE, n |-> 0]
      [] v.go = GoTypeOf(kind) \/ (kind = "Timestamp" /\ v.go = "time_local") ->
           [leaf |-> leafOf(kind), null |-> FALSE, n |-> v.n]
      [] OTHER -> Failed

WriteRefuses(b) == ~Validate(b) \/ \E i \in DOMAIN b.columns : provenanceCollision(b.columns[i].name)

(* The columns of the file, in order: the batch's, then the provenance.    *)
schemaOf(columns) == [i \in DOMAIN columns |-> columns[i].name] \o Provenance

encode(b) ==
    [schema |-> schemaOf(b.columns),
     rows |-> {[i \in DOMAIN row |-> valueOf(b.columns[i].kind, row[i])] : row \in b.rows}]

-----------------------------------------------------------------------------
(* Properties.                                                             *)

(* The number a value stands for: of a float32, the text the server sent.  *)
Meant(v) == IF v.go = "float32" THEN Shortest[v.n] ELSE v.n

(* What may be stored for a value that is not nil: what it stands for, or  *)
(* in a FLOAT column, and only where that is no float64, one nearest to it.*)
Admitted(kind, v) ==
    IF kind = "Float64" /\ Meant(v) \notin Double THEN Nearest(Meant(v)) ELSE {Meant(v)}

(* A value of the driver comes out of the bronze file as the number or the *)
(* wall time that went in, NULL as NULL, and is valid on the way; a number *)
(* is refused when, and only when, it is beyond every int64, or beyond     *)
(* every float64 (schema.go: "Only the representation changes, never the   *)
(* value"). The exception: what is no float64 is rounded to one, which the *)
(* comment's "anything that does not decode exactly is an error" denies.   *)
StoredAsServed(type, v) ==
    LET kind == ColumnKind(type)
        decoded == decodeValue(kind, v)
    IN  /\ kind # Failed /\ decoded # Failed =>
             /\ Validate([columns |-> <<[name |-> "c", kind |-> kind]>>, rows |-> {<<decoded>>}])
             /\ \E n \in IF v.go = "nil" THEN {0} ELSE Admitted(kind, v) :
                   valueOf(kind, decoded) = [leaf |-> leafOf(kind), null |-> v.go = "nil", n |-> n]
        /\ kind = "Int64" /\ v.go \in Integer \cup Text \cup {"uint64"} =>
             (decoded = Failed <=> v.n \notin MinInt64 .. MaxInt64)
        /\ kind = "Float64" /\ v.go \in {"float64", "float32"} \cup Text =>
             (decoded = Failed <=> v.go \in Text /\ v.n \notin -MaxDecimal .. MaxDecimal)

(* What the Writer accepts it can encode: every kind has a leaf (writer.go *)
(* panics otherwise: "unreachable: Batch.Validate rejects unknown kinds"), *)
(* every value a form, no two columns one name. And a reader that ignores  *)
(* letter case finds each provenance column under its name, and no other.  *)
AcceptedIsEncodable(b) ==
    ~WriteRefuses(b) =>
        LET file == encode(b)
            under(name) == {i \in DOMAIN file.schema : Fold(file.schema[i]) = name}
        IN  /\ \A i \in DOMAIN b.columns : leafOf(b.columns[i].kind) # Failed
            /\ \A row \in file.rows : Len(row) = Len(b.columns) /\ \A i \in DOMAIN row : row[i] # Failed
            /\ \A i, j \in DOMAIN file.schema : file.schema[i] = file.schema[j] => i = j
            /\ \A k \in DOMAIN Provenance : under(Provenance[k]) = {Len(b.columns) + k}
=============================================================================
