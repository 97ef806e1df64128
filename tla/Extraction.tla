----------------------------- MODULE Extraction -----------------------------
(***************************************************************************)
(* From a model's answer to a summary, and from a summary to text:         *)
(* finalize of domain/src/summarize/extract.rs, render of                  *)
(* domain/src/summarize/format.rs, and the columns lists are stored in, of *)
(* repository/src/summary_store.rs.                                        *)
(*                                                                         *)
(* An entry of a list is the sequence of its lines; a list in one column   *)
(* is the sequence of the column's lines.  A rendering keeps entries apart *)
(* (each has its bullet, or a comma before the next); a column does not.   *)
(***************************************************************************)
EXTENDS Integers, Sequences, SequencesExt

NoLine == ""

IsBlank(text) == text = NoLine

\* What is wrong with an answer, the first thing found.
Problem(raw, finish, messages) ==
  CASE finish = "length"         -> "truncated"
    [] finish = "content_filter" -> "filtered"
    [] OTHER ->
         IF IsBlank(raw.text) /\ raw.key_points = <<>> THEN "empty"
         ELSE IF \E i \in DOMAIN raw.citations : raw.citations[i] >= Len(messages)
         THEN "citation_out_of_range"
         ELSE "none"

\* A citation names its message by its place among the input, from zero.
Resolve(raw, messages) ==
  [raw EXCEPT !.citations = [i \in DOMAIN raw.citations |-> messages[raw.citations[i] + 1]]]

\* join and split of one column: boundaries between entries are gone, and so
\* are empty lines.
Join(list) == FlattenSeq(list)

Nonblank(lines) ==
  LET kept[i \in 0..Len(lines)] ==
        IF i = 0 THEN <<>>
        ELSE IF IsBlank(lines[i]) THEN kept[i - 1]
        ELSE Append(kept[i - 1], lines[i])
  IN  kept[Len(lines)]

\* Variant of Split: blank lines become entries.
SplitKeepingBlanks(column) == [i \in DOMAIN column |-> <<column[i]>>]

Split(column) ==
  LET kept == Nonblank(column) IN [i \in DOMAIN kept |-> <<kept[i]>>]

\* Entries that join and split give back: one line each, and not a blank one.
Joinable(list) == \A i \in DOMAIN list : Len(list[i]) = 1 /\ ~IsBlank(list[i][1])

\* The sections of a rendering, always in this order; plain text has no terms and
\* sources.
Sections(format) ==
  {"text", "key_points", "action_items", "participants"}
    \union IF format = "markdown" THEN {"technical_terms", "citations"} ELSE {}

\* What a section says, entry by entry, blank entries and breaks within them included.
Entries(summary, section) ==
  IF section = "text" THEN <<summary.text>> ELSE summary[section]

Said(summary, section) ==
  IF section = "text" THEN ~IsBlank(summary.text) ELSE summary[section] # <<>>

\* Sections without entries are left out.
Render(summary, format) ==
  [section \in {s \in Sections(format) : Said(summary, s)} |-> Entries(summary, section)]

=============================================================================
