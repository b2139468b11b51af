---------------------------- MODULE ExtractedFields ----------------------------
(***************************************************************************)
(* The fields of a version: what the worker finds in its text, what the    *)
(* analysis suggests, and the rows of extracted_fields they become.        *)
(*                                                                         *)
(* A value is known by what the code asks of it: "text", only "blank"s, or *)
(* "null".  A confidence is known by whether it is a number below          *)
(* CONFIDENCE_REVIEW_THRESHOLD ("doubtful").  Pages and excerpts are left  *)
(* out.  A text is the sequence of the matches its patterns have in it.    *)
(***************************************************************************)
EXTENDS Integers, Sequences

CONSTANTS
  RequiredKey, \* REQUIRED_FIELD_KEYS, the keys the worker's patterns look for
  SuggestedKey, \* keys a suggestion may name besides
  BlankKey     \* one more of them, that is only blanks

ASSUME ExtractedFieldsAssumption == BlankKey \notin RequiredKey

Key == RequiredKey \cup SuggestedKey \cup {BlankKey}

Value == {"text", "blank", "null"}

Found(f, source, doubtful) ==
  [key |-> f.key, value |-> f.value, source |-> source, doubtful |-> doubtful]

\* extract_minimum_fields: one field for each pattern that matches, with
\* confidence 1.0.  A match may be all blanks.
LocalFields(text) ==
  [i \in DOMAIN text |-> Found(text[i], "local", FALSE)]

\* The suggestions follow the local fields, with confidence 0.5.
WithSuggestions(fields, suggestions) ==
  fields \o [i \in DOMAIN suggestions |-> Found(suggestions[i], "ai", TRUE)]

-----------------------------------------------------------------------------
(* buildFieldRecords.                                                      *)

\* Mutant: a value is enough, whatever its confidence.
ClassifyByValue(f) ==
  IF f.value \in {"null", "blank"} THEN "NEEDS_REVIEW" ELSE "UNREVIEWED"

ClassifyReviewState(f) ==
  IF f.value \in {"null", "blank"} \/ f.doubtful THEN "NEEDS_REVIEW" ELSE "UNREVIEWED"

GivenKeys(fields) == {fields[i].key : i \in DOMAIN fields} \ {BlankKey}

\* byKey.set: of the fields with one key the last one counts.
LastField(fields, k) ==
  fields[CHOOSE i \in DOMAIN fields :
           /\ fields[i].key = k
           /\ \A j \in DOMAIN fields : fields[j].key = k => j <= i]

Placeholder(k) ==
  [key |-> k, value |-> "null", source |-> "local", doubtful |-> FALSE]

Row(f) == [value |-> f.value, source |-> f.source, state |-> ClassifyReviewState(f)]

\* The rows by their keys: every required key has one.
BuildFieldRecords(fields) ==
  [k \in RequiredKey \cup GivenKeys(fields) |->
    Row(IF k \in GivenKeys(fields) THEN LastField(fields, k) ELSE Placeholder(k))]

-----------------------------------------------------------------------------
NoRows == <<>>

\* Mutant: every field that is given is stored, a reviewer's too.
PersistAllFields(rows, fields) ==
  LET records == BuildFieldRecords(fields)
  IN IF fields = <<>> THEN rows
     ELSE [k \in DOMAIN rows \cup DOMAIN records |->
            IF k \notin DOMAIN records THEN rows[k] ELSE records[k]]

\* persist: a row a reviewer corrected stays, others are refreshed or inserted.
\* persistCompletion calls it only if there is a field at all.
PersistFields(rows, fields) ==
  LET records == BuildFieldRecords(fields)
      kept(k) == \/ k \notin DOMAIN records
                 \/ k \in DOMAIN rows /\ rows[k].source = "human"
  IN IF fields = <<>> THEN rows
     ELSE [k \in DOMAIN rows \cup DOMAIN records |->
            IF kept(k) THEN rows[k] ELSE records[k]]

\* correctField, as far as the row shows it.
CorrectedRow == [value |-> "text", source |-> "human", state |-> "CORRECTED"]

FieldRow ==
  [value : Value, source : {"local", "ai", "human"},
   state : {"UNREVIEWED", "NEEDS_REVIEW", "CORRECTED"}]

\* A row nobody has corrected is put to a reviewer unless the worker itself
\* read a value there.
AwaitsReview(row) ==
  row.source # "human" =>
    \/ row.state = "NEEDS_REVIEW"
    \/ row.source = "local" /\ row.value = "text"
==============================================================================
