----------------------------- MODULE Redaction -----------------------------
(***************************************************************************)
(* The positions of findings, from the layer that reports them to the text *)
(* that leaves the daemon.  Pipeline.Scan shows each layer the text with   *)
(* what the layers before it found replaced by labels, maps what it        *)
(* reports back to positions of the original text (toOriginalPos), and     *)
(* applies all findings to the original again (applyRedactions).           *)
(* Coordinator.ScanAndRedact drops allowed words, and redactor.Redact      *)
(* drops contained findings and applies the rest.                          *)
(*                                                                         *)
(* Positions are byte offsets 0..N, as Go slices strings.  A text is a     *)
(* sequence of cells, each an original byte (its offset) or part of a      *)
(* label.  Characters have one byte or two.  presidio reports byte         *)
(* offsets; the entropy layer walks over []rune(text) and reports          *)
(* positions in characters, and so does the python sidecar.                *)
(***************************************************************************)
EXTENDS Integers, Sequences, FiniteSets

CONSTANTS
  N,             \* length of the original text, in bytes
  LabelLens,     \* lengths of "[REDACTED-...]" labels, relative to N
  MaxReports,    \* bound: findings that one layer reports
  Pipelines      \* the pipelines considered: the unit in which each layer
                 \* reports positions, whether the layers are orderly, and the
                 \* offsets of the second bytes of characters in their text

ASSUME RedactionAssumption ==
  /\ N \in Nat
  /\ LabelLens \subseteq Nat \ {0}
  /\ MaxReports \in Nat
  /\ \A p \in Pipelines :
       /\ p.units \in Seq({"bytes", "runes"})
       /\ p.orderly \in BOOLEAN
       /\ p.cont \subseteq 1..(N - 1) /\ \A o \in p.cont : o + 1 \notin p.cont

VARIABLES
  pipe,       \* the pipeline and its text, chosen at the start
  layer,      \* layers that have run
  findings,   \* report.Findings, in positions of the original text
  offsets,    \* offsets of applyRedactions: what is masked for the next layer
  output,     \* what Redact applied, or <<>> before it ran
  redacted    \* Redact has run

vars == <<pipe, layer, findings, offsets, output, redacted>>

Label == -1

(* A finding: a span, the length of its label, and the bytes the layer     *)
(* saw in it.                                                              *)
Finding == [start : 0..N, end : 0..N, len : LabelLens, seen : SUBSET (0..(N - 1))]

Hidden(applied) == UNION {applied[i].start..(applied[i].end - 1) : i \in DOMAIN applied}

-----------------------------------------------------------------------------
(* prev of applyRedactions and Redact, after i entries. *)
PrevEnd(entries, i) == IF i = 0 THEN 0 ELSE entries[i].end

(* The findings that the loop may apply next: a finding that starts before *)
(* prev, or is empty or out of range, is skipped.  sort.Slice leaves       *)
(* findings with the same Start in any order.                              *)
FirstOf(fs, prev) ==
  LET usable == {f \in fs : f.start >= prev /\ f.start < f.end /\ f.end <= N}
  IN  {f \in usable : \A g \in usable : f.start <= g.start}

(* applyRedactions: the entries after k turns of its loop that append one, *)
(* and those it ends with.  Every entry is at least a byte, so there are   *)
(* no more than N.                                                         *)
Turns(fs) ==
  LET turn[k \in 0..N] ==
        IF k = 0 THEN {<<>>}
        ELSE UNION {{Append(s, f) : f \in FirstOf(fs, PrevEnd(s, k - 1))} : s \in turn[k - 1]}
  IN  turn

Applied(fs) ==
  LET turn == Turns(fs)
  IN  UNION {{s \in turn[k] : FirstOf(fs, PrevEnd(s, k)) = {}} : k \in 0..N}

(* text[from:to], and a label, as cells. *)
Bytes(from, to) == [i \in 1..(to - from) |-> from + i - 1]

LabelCells(len) == [i \in 1..len |-> Label]

(* What the strings.Builder holds after i entries. *)
Written(entries) ==
  LET written[i \in 0..Len(entries)] ==
        IF i = 0 THEN <<>>
        ELSE written[i - 1] \o Bytes(PrevEnd(entries, i - 1), entries[i].start)
                            \o LabelCells(entries[i].len)
  IN  written

(* The text that results. *)
Cells(entries) ==
  Written(entries)[Len(entries)] \o Bytes(PrevEnd(entries, Len(entries)), N)

CurrentText == Cells(offsets)

(* What toOriginalPos has added to shift after i entries. *)
Shift(entries) ==
  LET shift[i \in 0..Len(entries)] ==
        IF i = 0 THEN 0
        ELSE shift[i - 1] + entries[i].len - (entries[i].end - entries[i].start)
  IN  shift

RedactedStart(entries, i) == entries[i].start + Shift(entries)[i - 1]

RedactedEnd(entries, i) == RedactedStart(entries, i) + entries[i].len

(* The number of entries at which the loop goes on. *)
Passed(pos, entries) ==
  CHOOSE k \in 0..Len(entries) :
    /\ \A i \in 1..k : pos >= RedactedEnd(entries, i)
    /\ k < Len(entries) => pos < RedactedEnd(entries, k + 1)

(* Mutant: a position inside a label is not moved to the label's start. *)
InsideLabelStays(pos, entries) == pos - Shift(entries)[Passed(pos, entries)]

(* Mutant: a position at the end of a label counts as inside it. *)
EndInsideLabel(pos, entries) ==
  LET k == Passed(pos - 1, entries) IN
  IF k < Len(entries) /\ pos > RedactedStart(entries, k + 1)
  THEN entries[k + 1].start
  ELSE pos - Shift(entries)[k]

(* toOriginalPos: where the loop stops, the position is inside the label,  *)
(* or before it, or behind all of them.                                    *)
ToOriginalPos(pos, entries) ==
  LET k == Passed(pos, entries) IN
  IF k < Len(entries) /\ pos > RedactedStart(entries, k + 1)
  THEN entries[k + 1].start
  ELSE pos - Shift(entries)[k]

-----------------------------------------------------------------------------
(* []rune(text): a character begins at cell i, unless the cell is the      *)
(* second byte of the character before it.                                 *)
Begins(text, i) == ~(text[i] \in pipe.cont /\ i > 1 /\ text[i - 1] = text[i] - 1)

Boundary(text, pos) == pos = Len(text) \/ Begins(text, pos + 1)

(* What a layer can find: spans of characters of the text it is shown.  An *)
(* orderly layer's findings start with a character of the text, not inside *)
(* a label, and do not overlap one another.                                *)
Spans(text) == {sp \in (0..Len(text)) \X (0..Len(text)) :
                  /\ sp[1] < sp[2] /\ Boundary(text, sp[1]) /\ Boundary(text, sp[2])
                  /\ pipe.orderly => text[sp[1] + 1] # Label}

(* The position a layer reports for a byte offset: the offset itself, or   *)
(* the number of characters before it.                                     *)
Position(text, pos) ==
  IF pipe.units[layer + 1] = "bytes" THEN pos
  ELSE Cardinality({i \in 1..pos : Begins(text, i)})

Overlap(x, y) == x[1] < y[2] /\ y[1] < x[2]

(* What a layer may report: any findings, which an orderly one keeps apart. *)
Reports(text) ==
  {{}} \cup {{sp[i] : i \in 1..MaxReports} :
             sp \in {sp \in [1..MaxReports -> Spans(text)] :
                      pipe.orderly => \A i, j \in 1..MaxReports :
                                        sp[i] = sp[j] \/ ~Overlap(sp[i], sp[j])}}

Mapped(span, len) ==
  [start |-> ToOriginalPos(Position(CurrentText, span[1]), offsets),
   end   |-> ToOriginalPos(Position(CurrentText, span[2]), offsets),
   len   |-> len,
   seen  |-> {CurrentText[i] : i \in (span[1] + 1)..span[2]} \ {Label}]

Init ==
  /\ pipe \in Pipelines
  /\ layer = 0 /\ findings = {} /\ offsets = <<>> /\ output = <<>> /\ redacted = FALSE

(* Mutant: only the findings of this layer are applied to the text. *)
ScanLatestOnly ==
  /\ layer < Len(pipe.units)
  /\ \E ss \in Reports(CurrentText) : \E len \in [ss -> LabelLens] :
       LET new == {Mapped(span, len[span]) : span \in ss} IN
       /\ findings' = findings \cup new
       /\ offsets' \in IF ss = {} THEN {offsets} ELSE Applied(new)
  /\ layer' = layer + 1
  /\ UNCHANGED <<pipe, output, redacted>>

(* One turn of Scan's loop. *)
Scan ==
  /\ layer < Len(pipe.units)
  /\ \E ss \in Reports(CurrentText) : \E len \in [ss -> LabelLens] :
       LET new == {Mapped(span, len[span]) : span \in ss} IN
       /\ findings' = findings \cup new
       /\ offsets' \in IF ss = {} THEN {offsets} ELSE Applied(findings')
  /\ layer' = layer + 1
  /\ UNCHANGED <<pipe, output, redacted>>

(* The coordinator's filter: findings whose value is an allowed word go. *)
AllowWord(f) ==
  /\ layer = Len(pipe.units) /\ ~redacted
  /\ findings' = findings \ {f}
  /\ UNCHANGED <<pipe, layer, offsets, output, redacted>>

Contained(f, g) == f.start >= g.start /\ f.end <= g.end

(* Mutant: dedup drops the finding that contains another. *)
DedupKeepsShortest(fs) ==
  {f \in fs : \A g \in fs : Contained(g, f) => Contained(f, g)}

(* dedup: longest first, a finding contained in one that stays goes (of    *)
(* equal spans one stays).                                                 *)
Dedup(fs) == {f \in fs : \A g \in fs : Contained(f, g) => Contained(g, f)}

(* Redact.  It has no range check: Positions is what makes it safe.  (An   *)
(* empty finding adds a label and hides nothing.)                          *)
Redact ==
  /\ layer = Len(pipe.units) /\ ~redacted
  /\ redacted' = TRUE
  /\ output' \in Applied(Dedup(findings))
  /\ UNCHANGED <<pipe, layer, findings, offsets>>

Next ==
  \/ Scan
  \/ \E f \in findings : AllowWord(f)
  \/ Redact

Spec == Init /\ [][Next]_vars

-----------------------------------------------------------------------------
(* toOriginalPos never leaves the text nor turns a span round, whatever    *)
(* was masked and whatever a layer reports: text[prev:f.Start] in Redact,  *)
(* which has no check of its own, cannot panic.                            *)
Positions == \A f \in findings : f \in Finding /\ f.start <= f.end

(* A span of visible bytes is mapped back to exactly the place they have   *)
(* in the original: shifts of labels shorter and longer than what they    *)
(* replace add up, at the edges of labels too.                             *)
RoundTrip ==
  LET text == CurrentText IN
  \A s \in 0..Len(text), e \in 0..Len(text) :
    s < e /\ (\A i \in (s + 1)..e : text[i] # Label) =>
      /\ ToOriginalPos(s, offsets) = text[s + 1]
      /\ ToOriginalPos(e, offsets) = text[e] + 1

(* If the layers are orderly and all characters are single bytes, every    *)
(* byte one reported, unless its finding was an allowed word, is hidden in *)
(* the text that leaves.                                                   *)
AllFoundHidden ==
  redacted /\ pipe.orderly /\ pipe.cont = {} =>
    \A f \in findings : f.seen \subseteq Hidden(output)

(* The same of any text: what a layer found is replaced. *)
FoundIsReplaced ==
  redacted /\ pipe.orderly => \A f \in findings : f.seen \subseteq Hidden(output)

(* If the layers are orderly and all characters are single bytes, what is  *)
(* masked for one layer is masked for every later one.                     *)
MaskedStays ==
  [][pipe.orderly /\ pipe.cont = {} => Hidden(offsets) \subseteq Hidden(offsets')]_vars

(* Of overlapping findings the longest is the one that is redacted. *)
LongestWins ==
  redacted =>
    \A f \in findings :
      (\A g \in findings \ {f} :
         f.start < g.end /\ g.start < f.end => g.end - g.start < f.end - f.start)
      => f.start..(f.end - 1) \subseteq Hidden(output)
=============================================================================
