------------------------------ MODULE Mentions ------------------------------
(***************************************************************************)
(* The rows of issue_mentions: which issue mentions which, in which text   *)
(* field, and how often. A text is a sequence of characters, of which only *)
(* their classes matter. dim_issues is a set of records: issue_id, and     *)
(* text, a function from fields to texts (NULL is the empty text).         *)
(***************************************************************************)
EXTENDS Integers, Sequences, FiniteSets, SequencesExt, FiniteSetsExt

CONSTANTS
    Lower,      \* the letters a-z that occur
    Digit,      \* the digits that occur
    Upper       \* word characters that are neither: A-Z and _

Word == Lower \cup Digit \cup Upper

(* Neither the two characters that make an id, nor the place after the     *)
(* last one, is a word character.                                          *)
ASSUME CharactersAssumption == {"-", ".", "end"} \cap Word = {}

At(text, i) == IF i \in DOMAIN text THEN text[i] ELSE "end"

(* \b between i - 1 and i                                                  *)
Boundary(text, i) == (At(text, i - 1) \in Word) # (At(text, i) \in Word)

(* Everything before the first "-", nothing if there is none.              *)
prefixOf(id) ==
    LET i == SelectInSeq(id, LAMBDA c : c = "-") IN IF i = 0 THEN <<>> ELSE SubSeq(id, 1, i - 1)

prefixesOf(rows) == {prefixOf(r.issue_id) : r \in rows} \ {<<>>}

(* The end of the longest run of characters of a set that starts at i.     *)
RunFrom(text, i, chars) ==
    CHOOSE e \in i .. Len(text) + 1 :
        At(text, e) \notin chars /\ \A j \in i .. e - 1 : text[j] \in chars

(* The ends of (?:\.[0-9]+)* at i, after no, one, two... repetitions. A    *)
(* repetition that is cut short leaves a digit behind it, so \b fails.     *)
GroupEnds(text, i) ==
    LET ends[e \in 1 .. Len(text) + 1] ==
            {e} \cup IF At(text, e) = "." /\ At(text, e + 1) \in Digit
                       THEN ends[RunFrom(text, e + 1, Digit)] ELSE {}
    IN  ends[i]

(* Mutated form: no \b at the end.                                         *)
MatchEndsAnywhere(text, i, prefixes) ==
    UNION {GroupEnds(text, RunFrom(text, i + Len(p) + 1, Lower \cup Digit)) :
              p \in {q \in prefixes : /\ Boundary(text, i)
                                      /\ IsPrefix(Append(q, "-"), SubSeq(text, i, Len(text)))
                                      /\ At(text, i + Len(q) + 1) \in Lower \cup Digit}}

(* The ends of the matches of \b(?:p1|p2|...)-[0-9a-z]+(?:\.[0-9]+)*\b at  *)
(* i. As above, a body that is cut short fails its \b.                     *)
MatchEnds(text, i, prefixes) == {e \in MatchEndsAnywhere(text, i, prefixes) : Boundary(text, e)}

(* FindAllString: from left to right, each match the longest of its start, *)
(* the next search from its end on; as pairs of a start and an end.        *)
Matches(text, prefixes) ==
    LET from[i \in 1 .. Len(text) + 1] ==
            IF i > Len(text) THEN {}
            ELSE LET ends == MatchEnds(text, i, prefixes) IN
                 IF ends = {} THEN from[i + 1] ELSE {<<i, Max(ends)>>} \cup from[Max(ends)]
    IN  from[1]

MatchText(text, m) == SubSeq(text, m[1], m[2] - 1)

(* Mutated form: an issue mentions itself.                                 *)
WithSelfMentions(text, selfID, prefixes) ==
    LET found == IF text = <<>> \/ prefixes = {} THEN {} ELSE Matches(text, prefixes)
    IN  [id \in {MatchText(text, m) : m \in found} |-> Cardinality({m \in found : MatchText(text, m) = id})]

(* A count for each mentioned id.                                          *)
extractMentions(text, selfID, prefixes) ==
    LET found == IF text = <<>> \/ prefixes = {} THEN {}
                 ELSE {m \in Matches(text, prefixes) : MatchText(text, m) # selfID}
    IN  [id \in {MatchText(text, m) : m \in found} |-> Cardinality({m \in found : MatchText(text, m) = id})]

(* The batch of the transform.                                             *)
Run(rows) ==
    UNION {LET counts == extractMentions(r.text[f], r.issue_id, prefixesOf(rows)) IN
           {[issue_id |-> r.issue_id, mentioned_issue_id |-> id, field |-> f, mention_count |-> counts[id]] :
              id \in DOMAIN counts} : r \in rows, f \in UNION {DOMAIN s.text : s \in rows}}

-----------------------------------------------------------------------------
(* Properties, for one dim_issues each.                                    *)

(* What an id of one of the prefixes looks like: letters and digits, then  *)
(* dotted numbers.                                                         *)
IsID(s, prefixes) ==
    \E k \in DOMAIN s :
        /\ s[k] = "-" /\ SubSeq(s, 1, k - 1) \in prefixes
        /\ \E n \in k + 1 .. Len(s) :
              /\ \A j \in k + 1 .. n : s[j] \in Lower \cup Digit
              /\ \A j \in n + 1 .. Len(s) : s[j] \in Digit \cup {"."}
              /\ \A j \in n + 1 .. Len(s) : s[j] = "." => At(s, j + 1) \in Digit
              /\ n < Len(s) => s[n + 1] = "."

(* Where a text has an id between two boundaries, and not a longer one.    *)
Candidates(text, prefixes) ==
    LET ids == {c \in (1 .. Len(text)) \X (2 .. Len(text) + 1) :
                  /\ c[1] < c[2] /\ Boundary(text, c[1]) /\ Boundary(text, c[2])
                  /\ IsID(MatchText(text, c), prefixes)}
    IN  {c \in ids : \A d \in ids : d[1] = c[1] => d[2] <= c[2]}

CountIn(out, r, f, id) ==
    SumSet({o.mention_count : o \in {x \in out : x.issue_id = r.issue_id /\ x.field = f
                                                 /\ x.mentioned_issue_id = id}})

(* Every mention in the output is in the text as often as it says; and if  *)
(* no two ids of a text overlap, none is missing: neither a full stop nor  *)
(* the other prefixes, nor where the search left off, hide one.            *)
MentionsAreInTheText(rows) ==
    LET out == Run(rows) IN
    \A r \in rows, f \in UNION {DOMAIN s.text : s \in rows} :
        LET cs == Candidates(r.text[f], prefixesOf(rows))
            often(id) == Cardinality({c \in cs : MatchText(r.text[f], c) = id})
            overlap == \E c, d \in cs : c[1] < d[1] /\ d[1] < c[2]
        IN  \A id \in {MatchText(r.text[f], c) : c \in cs} \cup {o.mentioned_issue_id : o \in out} :
                id # r.issue_id =>
                    /\ CountIn(out, r, f, id) <= often(id)
                    /\ ~overlap => CountIn(out, r, f, id) = often(id)

(* The output has one row for an issue, a mentioned id and a field, counts *)
(* at least one, and no issue mentions itself (extract.go: "selfID's own   *)
(* id is excluded").                                                       *)
NoSelfMention(rows) ==
    LET out == Run(rows) IN
    /\ \A o \in out : o.mention_count >= 1 /\ o.mentioned_issue_id # o.issue_id
    /\ \A o, p \in out : o # p => <<o.issue_id, o.mentioned_issue_id, o.field>>
                                    # <<p.issue_id, p.mentioned_issue_id, p.field>>
=============================================================================
