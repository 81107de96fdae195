----------------------------- MODULE LineNumbers -----------------------------
(***************************************************************************)
(* Where a comment is in the file: matching the code it quotes against the *)
(* hunks of the diff and the new file's content (internal/diff/hunk.go,    *)
(* resolver.go, relocation.go).                                            *)
(*                                                                         *)
(* A line of text is a value; Norm[l] is what is left of it without        *)
(* surrounding space and a leading + or -. A file is two sections of lines *)
(* around one line that never changes, so that a diff can have two hunks   *)
(* and a line can be outside every hunk.                                   *)
(***************************************************************************)
EXTENDS Naturals, Sequences, FiniteSetsExt, Positions

CONSTANTS
  Norm,  \* normalizeLine, for each line value; "" for a blank one
  Gap    \* the line between the two sections

Absent == [is |-> "absent", top |-> <<>>, end |-> <<>>]

Text(c) == IF c = Absent THEN <<>> ELSE c.top \o <<Gap>> \o c.end

------------------------------------------------------------------------------
(* What git prints (external): one hunk per changed section, with its common
   prefix and suffix as context; a side without lines starts one line early. *)
Marked(mark, lines) == [i \in DOMAIN lines |-> [mark |-> mark, text |-> lines[i]]]

Start(lines, first) == IF lines = <<>> THEN first - 1 ELSE first

Hunk(old, new, oldFirst, newFirst) ==
  LET shorter == IF Len(old) < Len(new) THEN Len(old) ELSE Len(new)
      p == Max({k \in 0..shorter : SubSeq(old, 1, k) = SubSeq(new, 1, k)})
      s == Max({k \in 0..(shorter - p) :
                  SubSeq(old, Len(old) - k + 1, Len(old)) = SubSeq(new, Len(new) - k + 1, Len(new))})
  IN  [oldStart |-> Start(old, oldFirst), newStart |-> Start(new, newFirst),
       raw |-> Marked(" ", SubSeq(old, 1, p))
                 \o Marked("-", SubSeq(old, p + 1, Len(old) - s))
                 \o Marked("+", SubSeq(new, p + 1, Len(new) - s))
                 \o Marked(" ", SubSeq(old, Len(old) - s + 1, Len(old)))]

GitHunks(old, new) ==
  IF "binary" \in {old.is, new.is} THEN <<>>
  ELSE IF "absent" \in {old.is, new.is} THEN <<Hunk(Text(old), Text(new), 1, 1)>>
  ELSE (IF old.top = new.top THEN <<>> ELSE <<Hunk(old.top, new.top, 1, 1)>>)
         \o (IF old.end = new.end THEN <<>>
             ELSE <<Hunk(old.end, new.end, Len(old.top) + 2, Len(new.top) + 2)>>)

------------------------------------------------------------------------------
(* ParseHunks: a marker chooses the type, anything else is context; the note
   about a missing newline is no line. *)
ParseHunks(hunks) ==
  [h \in DOMAIN hunks |->
     [hunks[h] EXCEPT !.raw = Among(@, {l \in Range(@) : l.mark # "\\"})]]

(* extractSideLines, with the side's line numbers. *)
OnSide(l, newSide) == l.mark # (IF newSide THEN "-" ELSE "+")
Side(h, newSide)   == Among(h.raw, {l \in Range(h.raw) : OnSide(l, newSide)})

NumberedFromOld(h, newSide) ==  \* mutant: both sides count from the old start
  LET side == Side(h, newSide)
  IN  [k \in DOMAIN side |-> [num |-> h.oldStart + k - 1, text |-> Norm[side[k].text]]]
ExtractSideLines(h, newSide) ==
  LET side  == Side(h, newSide)
      first == IF newSide THEN h.newStart ELSE h.oldStart
  IN  [k \in DOMAIN side |-> [num |-> first + k - 1, text |-> Norm[side[k].text]]]

(* splitAndNormalize drops blank lines; the sides keep theirs. *)
SplitAndNormalize(code) ==
  LET lines == [i \in DOMAIN code |-> Norm[code[i]]] IN Among(lines, Range(lines) \ {""})

(* matchConsecutive: the first run of lines equal to the target. *)
Unplaced == [start |-> 0, end |-> 0]

RunsAfterTheFirst(lines, target) ==  \* mutant: the first start is not tried
  {i \in 2..(Len(lines) - Len(target) + 1) :
     \A j \in DOMAIN target : lines[i + j - 1].text = target[j]}
Runs(lines, target) ==
  {i \in 1..(Len(lines) - Len(target) + 1) :
     \A j \in DOMAIN target : lines[i + j - 1].text = target[j]}

MatchConsecutive(lines, target) ==
  IF target = <<>> \/ Runs(lines, target) = {} THEN Unplaced
  ELSE LET i == Min(Runs(lines, target))
       IN  [start |-> lines[i].num, end |-> lines[i + Len(target) - 1].num]

(* resolveFromHunk: every hunk's new side before any hunk's old side. *)
FirstPlace(places) ==
  LET found == {i \in DOMAIN places : places[i] # Unplaced}
  IN  IF found = {} THEN Unplaced ELSE places[Min(found)]

ResolveFromHunk(d, code) ==
  LET hunks  == ParseHunks(d.hunks)
      target == SplitAndNormalize(code)
      on(newSide) == [h \in DOMAIN hunks |->
                        MatchConsecutive(ExtractSideLines(hunks[h], newSide), target)]
  IN  FirstPlace(on(TRUE) \o on(FALSE))

ResolveFromFileContent(d, code) ==
  MatchConsecutive([i \in DOMAIN d.content |-> [num |-> i, text |-> Norm[d.content[i]]]],
                   SplitAndNormalize(code))

(* ResolveComment, of a comment without lines. *)
ResolveComment(d, code) == FirstPlace(<<ResolveFromHunk(d, code), ResolveFromFileContent(d, code)>>)

(* findDiff takes the first diff that names the path, old or new;
   ResolveLineNumbers' map keeps the last. *)
Naming(diffs, path) == {i \in DOMAIN diffs : path \in {diffs[i].oldPath, diffs[i].newPath}}
FindDiff(diffs, path) == diffs[Min(Naming(diffs, path))]
LastDiff(diffs, path) == diffs[Max(Naming(diffs, path))]
=============================================================================
