---------------------------- MODULE ReviewPlanner ----------------------------
(***************************************************************************)
(* ReviewPlanner: from the changed files of an accepted input to coverage  *)
(* scopes and work units, file first, then groups of hunks, then blocks of *)
(* lines, for a model of a given capacity.                                 *)
(*                                                                         *)
(* An identity is the tuple of what its digest is taken of.                *)
(***************************************************************************)
EXTENDS DiffParser, SequencesExt

CONSTANTS TextBytes   \* the length in bytes of each text

\* _FIXED_OVERHEAD_TOKENS, _BYTES_PER_TOKEN and the bytes that a line of a
\* line block is counted with
Overhead      == 256
BytesPerToken == 4
BytesPerLine  == 20

-----------------------------------------------------------------------------
(* Capacity                                                                *)

HunkLines(hunks) == FlattenSeq([k \in DOMAIN hunks |-> hunks[k].lines])

Estimate(bytes, lines) == [input  |-> Overhead + bytes \div BytesPerToken + 1,
                           output |-> Max({1, lines \div 2})]

\* _estimate_hunks: by the bytes of the lines
EstimateText(lines) ==
    Estimate(FoldLeft(LAMBDA n, l : n + TextBytes[l.text], 0, lines), Len(lines))

\* _estimate_lines: by the number of the lines
EstimateCount(n) == Estimate(n * BytesPerLine, n)

Fits(e, capacity) == e.input <= capacity.context /\ e.output <= capacity.output

\* A hunk joins the last group if the group then still fits.
Boxed(groups, h, capacity) ==
    IF /\ groups # <<>>
       /\ Fits(EstimateText(HunkLines(Append(Last(groups), h))), capacity)
    THEN Append(Front(groups), Append(Last(groups), h))
    ELSE Append(groups, <<h>>)

\* _box_hunks, one hunk after the other
BoxHunks(hunks, capacity) ==
    LET box[k \in 0 .. Len(hunks)] ==
            IF k = 0 THEN <<>> ELSE Boxed(box[k - 1], hunks[k], capacity)
    IN  box[Len(hunks)]

Blocks(lines, size) ==
    [k \in 1 .. (Len(lines) + size - 1) \div size |->
        SubSeq(lines, (k - 1) * size + 1, Min({k * size, Len(lines)}))]

\* Mutant: the last, shorter block is forgotten.
WholeBlocks(h, capacity) ==
    LET room  == ((capacity.context - Overhead) * BytesPerToken) \div BytesPerLine
        first == Max({1, Min({Len(h.lines), IF room = 0 THEN 1 ELSE room})})
        sizes == {n \in 1 .. first : Fits(EstimateCount(n), capacity)}
    IN  IF h.lines = <<>> \/ sizes = {} THEN <<>>
        ELSE SubSeq(Blocks(h.lines, Max(sizes)), 1, Len(h.lines) \div Max(sizes))

\* _line_blocks: blocks of the largest size, from what the context has room
\* for downwards, whose estimate fits; none if a single line does not.
LineBlocks(h, capacity) ==
    LET room  == ((capacity.context - Overhead) * BytesPerToken) \div BytesPerLine
        first == Max({1, Min({Len(h.lines), IF room = 0 THEN 1 ELSE room})})
        sizes == {n \in 1 .. first : Fits(EstimateCount(n), capacity)}
    IN  IF h.lines = <<>> \/ sizes = {} THEN <<>> ELSE Blocks(h.lines, Max(sizes))

-----------------------------------------------------------------------------
(* Scopes and units of one file                                            *)

\* LineRange: the numbers from the first to the last of each side
LineRange(lines) ==
    LET on(side) == {l.old : l \in {m \in ToSet(lines) : side = "old" /\ m.old # Null}}
                      \cup {l.new : l \in {m \in ToSet(lines) : side = "new" /\ m.new # Null}}
        span(S)  == IF S = {} THEN {} ELSE Min(S) .. Max(S)
    IN  [old |-> span(on("old")), new |-> span(on("new"))]

NoRange == [old |-> {}, new |-> {}]

\* A part of a file: its scope, and the unit that covers it if it is planned.
Part(c, kind, digest, range, disposition, units) ==
    [scope |-> [id |-> <<FileId(c), kind>> \o digest, file |-> FileId(c), kind |-> kind,
                range |-> range, disposition |-> disposition],
     units |-> units]

Unit(c, kind, lines, estimate) ==
    [kind |-> kind, file |-> FileId(c), lines |-> lines, estimate |-> estimate]

\* The lines of a hunk, each with the hunk it belongs to.
LinesOf(hunks) ==
    FlattenSeq([k \in DOMAIN hunks |->
                   [j \in DOMAIN hunks[k].lines |-> [hunk |-> hunks[k], at |-> j]]])

WholeFile(c, disposition, units) ==
    Part(c, "file", <<>>, NoRange, disposition, units)

GroupPart(c, group) ==
    Part(c, "hunk_group", group, LineRange(HunkLines(group)), "planned",
         <<Unit(c, "hunk_group", LinesOf(group), EstimateText(HunkLines(group)))>>)

TooLargePart(c, h) ==
    Part(c, "hunk_group", <<h>>, LineRange(h.lines), "unreviewable", <<>>)

TextsOf(block) == [k \in DOMAIN block |-> block[k].text]

\* Mutant: the identity of a block leaves its hunk out.
BlockPartOfTexts(c, h, block) ==
    Part(c, "line_block", <<TextsOf(block)>>, LineRange(block), "planned",
         <<Unit(c, "line_block",
                [k \in DOMAIN block |-> [hunk |-> h, at |-> block[k].sequence]],
                EstimateCount(Len(block)))>>)

\* The identity of a block is of the texts of its lines, not of their range.
BlockPart(c, h, block) ==
    Part(c, "line_block", <<h, TextsOf(block)>>, LineRange(block), "planned",
         <<Unit(c, "line_block",
                [k \in DOMAIN block |-> [hunk |-> h, at |-> block[k].sequence]],
                EstimateCount(Len(block)))>>)

\* A group of the boxing: planned as one if it fits, by line blocks otherwise.
PlanGroup(c, group, capacity) ==
    LET h      == group[1]
        blocks == LineBlocks(h, capacity)
    IN  IF Len(group) > 1 \/ Fits(EstimateText(HunkLines(group)), capacity)
        THEN <<GroupPart(c, group)>>
        ELSE IF blocks = <<>> THEN <<TooLargePart(c, h)>>
        ELSE [k \in DOMAIN blocks |-> BlockPart(c, h, blocks[k])]

\* _plan_file
PlanFile(c, capacity) ==
    LET all == HunkLines(c.hunks)
        groups == BoxHunks(c.hunks, capacity)
    IN  IF IsBinary(c) THEN <<WholeFile(c, "unreviewable", <<>>)>>
        ELSE IF c.hunks = <<>> THEN <<WholeFile(c, "no_review_required", <<>>)>>
        ELSE IF Fits(EstimateText(all), capacity)
        THEN <<WholeFile(c, "planned",
                         <<Unit(c, "file", LinesOf(c.hunks), EstimateText(all))>>)>>
        ELSE FlattenSeq([k \in DOMAIN groups |-> PlanGroup(c, groups[k], capacity)])

-----------------------------------------------------------------------------
(* The plan                                                                *)

\* The change types in the order of their names.
TypeRank == [added |-> 1, binary |-> 2, deleted |-> 3, modified |-> 4, renamed |-> 5]

SortKey(c) == <<c.new, c.old, TypeRank[c.type]>>

Before(a, b) == \E k \in 1 .. 3 : /\ \A j \in 1 .. k - 1 : SortKey(a)[j] = SortKey(b)[j]
                                  /\ SortKey(a)[k] < SortKey(b)[k]

Rank(files, k) == 1 + Cardinality({j \in DOMAIN files : Before(files[j], files[k])})

\* _ordered_files, of files that differ in their keys
OrderedFiles(files) ==
    [n \in DOMAIN files |-> files[CHOOSE k \in DOMAIN files : Rank(files, k) = n]]

\* The units are ranked in the order in which they are planned.
Plan(files, capacity) ==
    LET ordered == OrderedFiles(files)
        parts   == FlattenSeq([k \in DOMAIN ordered |-> PlanFile(ordered[k], capacity)])
    IN  [capacity |-> capacity,
         scopes |-> [k \in DOMAIN parts |-> parts[k].scope],
         units  |-> FlattenSeq([k \in DOMAIN parts |->
                        [j \in DOMAIN parts[k].units |->
                            [unit |-> parts[k].units[j], scope |-> parts[k].scope.id]]])]

\* What WorkUnit, LineRange and ReviewPlan refuse: a unit without lines, a part
\* of a file without numbers on either side, a scope identity that occurs twice,
\* a planned scope without a unit.
PlanValid(p) ==
    /\ \A k \in DOMAIN p.units : p.units[k].unit.lines # <<>>
    /\ \A k \in DOMAIN p.scopes : p.scopes[k].kind # "file" => p.scopes[k].range # NoRange
    /\ \A j, k \in DOMAIN p.scopes : j # k => p.scopes[j].id # p.scopes[k].id
    /\ \A j, k \in DOMAIN p.units : j # k => p.units[j].scope # p.units[k].scope
    /\ {p.units[k].scope : k \in DOMAIN p.units}
          = {p.scopes[k].id : k \in {k \in DOMAIN p.scopes : p.scopes[k].disposition = "planned"}}
=============================================================================
