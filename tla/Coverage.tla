------------------------------ MODULE Coverage ------------------------------
(***************************************************************************)
(* Coverage of a chat by its imports: analyze_coverage and merge_spans of  *)
(* domain/src/coverage.rs, as imports are added in any order and time      *)
(* passes.                                                                 *)
(***************************************************************************)
EXTENDS Integers, FiniteSets, Sequences, SequencesExt

CONSTANTS
  MinGap,                 \* min_gap_secs
  Unknown,                \* no GroupCreated event was found
  MaxClock, MaxImports    \* bounds

ASSUME CoverageConstants ==
  /\ MinGap \in Nat /\ MaxClock \in Nat /\ MaxImports \in Nat
  /\ Unknown \notin Int

VARIABLES
  imports,     \* the date ranges of the recorded imports, oldest first
  created,     \* created_at
  clock

coverageVars == <<imports, created, clock>>

Span == [start : 0..MaxClock, end : 0..MaxClock]

Larger(a, b) == IF a >= b THEN a ELSE b

\* Variants of Join: the last span's end is replaced; spans nearly touching are
\* joined.
JoinReplaces(merged, s) ==
  LET n == Len(merged) IN
  IF n > 0 /\ s.start <= merged[n].end
  THEN [merged EXCEPT ![n].end = s.end]
  ELSE Append(merged, s)

JoinNear(merged, s) ==
  LET n == Len(merged) IN
  IF n > 0 /\ s.start <= merged[n].end + MinGap
  THEN [merged EXCEPT ![n].end = Larger(@, s.end)]
  ELSE Append(merged, s)

\* The loop body of merge_spans.
Join(merged, s) ==
  LET n == Len(merged) IN
  IF n > 0 /\ s.start <= merged[n].end
  THEN [merged EXCEPT ![n].end = Larger(@, s.end)]
  ELSE Append(merged, s)

\* Behind the spans that start no later: the sort is stable.
Insert(sorted, s) ==
  InsertAt(sorted, 1 + Max({0} \union {i \in DOMAIN sorted : sorted[i].start <= s.start}), s)

SortUpright(spans) ==
  LET sorted[n \in 0..Len(spans)] ==
        IF n = 0 THEN <<>>
        ELSE IF spans[n].end < spans[n].start THEN sorted[n - 1]
        ELSE Insert(sorted[n - 1], spans[n])
  IN  sorted[Len(spans)]

JoinAll(ordered) ==
  LET merged[n \in 0..Len(ordered)] ==
        IF n = 0 THEN <<>> ELSE Join(merged[n - 1], ordered[n])
  IN  merged[Len(ordered)]

MergeSpans(spans) == JoinAll(SortUpright(spans))

\* Variant of GapIf: a gap has to exceed the floor by more than one.
GapIfLonger(start, end, kind) ==
  IF end - start > MinGap + 1 THEN {[start |-> start, end |-> end, kind |-> kind]} ELSE {}

GapIf(start, end, kind) ==
  IF end - start > MinGap THEN {[start |-> start, end |-> end, kind |-> kind]} ELSE {}

Gaps(merged, from, to) ==
  LET n == Len(merged) IN
  (IF from = Unknown THEN {} ELSE GapIf(from, merged[1].start, "before_join"))
  \union (UNION {GapIf(merged[i].end, merged[i + 1].start, "between_imports") : i \in 1..(n - 1)})
  \union GapIf(merged[n].end, to, "after_last")

CoveredSecs(merged) ==
  LET sum[n \in 0..Len(merged)] ==
        IF n = 0 THEN 0 ELSE sum[n - 1] + merged[n].end - merged[n].start
  IN  sum[Len(merged)]

AnalyzeCoverage(spans, from, to) ==
  LET merged == MergeSpans(spans) IN
  IF merged = <<>>
  THEN [earliest |-> Unknown, latest |-> Unknown, covered |-> 0, gaps |-> {}]
  ELSE [earliest |-> merged[1].start, latest |-> merged[Len(merged)].end,
        covered |-> CoveredSecs(merged), gaps |-> Gaps(merged, from, to)]

Report == AnalyzeCoverage(imports, created, clock)

CoverageInit ==
  /\ imports = <<>>
  /\ clock \in 0..MaxClock
  /\ created \in {0, clock, Unknown}

\* record_import of another file.  Its messages are from the chat's beginning to
\* now; its range may be a single instant or, from a mangled file, upside down.
RecordImport(s) ==
  /\ Len(imports) < MaxImports
  /\ {s.start, s.end} \subseteq (IF created = Unknown THEN 0 ELSE created)..clock
  /\ imports' = Append(imports, s)
  /\ UNCHANGED <<created, clock>>

Tick ==
  /\ clock < MaxClock
  /\ clock' = clock + 1
  /\ UNCHANGED <<imports, created>>

CoverageNext == Tick \/ \E s \in Span : RecordImport(s)

CoverageSpec == CoverageInit /\ [][CoverageNext]_coverageVars

-----------------------------------------------------------------------------
(* Properties; a unit u is the time from u to u + 1. *)

Units(s) == s.start..(s.end - 1)
Imported == UNION {Units(imports[i]) : i \in DOMAIN imports}
MissingBy(report) == UNION {Units(g) : g \in report.gaps}
Missing == MissingBy(Report)

\* The covered time is that of the imports' union, however they overlap.
CoveredIsUnion == Report.covered = Cardinality(Imported)

\* Gaps and imports never overlap, and no gap is worth less than the floor.
GapsAreGaps ==
  /\ Missing \intersect Imported = {}
  /\ \A g \in Report.gaps : g.end - g.start > MinGap

\* Both: what the report says of a unit of time is so.
ReportIsRight == CoveredIsUnion /\ GapsAreGaps

\* What is neither imported nor reported, between the chat's beginning and now,
\* is in stretches between imports no longer than the floor; an import of a
\* single instant ends a stretch too.
NothingHidden ==
  Report.earliest # Unknown =>
    LET from == IF created = Unknown THEN Report.earliest ELSE created
        hidden == (from..(clock - 1)) \ (Imported \union Missing)
        ends == {s.start : s \in Range(MergeSpans(imports))} IN
    ~\E u \in hidden :
       u..(u + MinGap) \subseteq hidden /\ ends \intersect (u + 1)..(u + MinGap) = {}

\* Importing more never makes more of a chat missing, once its beginning is
\* known and something is imported.
ImportsOnlyFill ==
  [][imports' # imports /\ created # Unknown /\ Report.earliest # Unknown =>
       MissingBy(AnalyzeCoverage(imports', created', clock')) \subseteq Missing]_coverageVars

=============================================================================
