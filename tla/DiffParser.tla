----------------------------- MODULE DiffParser -----------------------------
(***************************************************************************)
(* The normalization of a unified diff: _UnifiedDiffParser, and the checks *)
(* that the input aggregate makes of what the parser built.                *)
(*                                                                         *)
(* A line is what the parser tells lines apart by.  A "fact" line states   *)
(* one thing about the file of its section (its paths, its modes, that it  *)
(* is new ...); the two marker lines "---" and "+++" only count together   *)
(* and are one line here.  Paths are numbers in their sort order, and the  *)
(* text of a content line is a member of a small set.                      *)
(***************************************************************************)
EXTENDS Integers, Sequences, FiniteSets, Functions

CONSTANTS Paths,            \* normalized paths, positive numbers
          MaxFiles,         \* InputLimits, scaled down
          MaxChangedLines,
          MaxPhysicalLines

ASSUME InputAssumption ==
    /\ Paths \subseteq Nat \ {0}
    /\ MaxFiles \in Nat \ {0}
    /\ MaxChangedLines \in Nat \ {0}
    /\ MaxPhysicalLines \in Nat \ {0}

Null == 0   \* the path of a side that does not exist, "/dev/null"

\* What a section of the diff has stated about its file so far.  A fact that
\* was not stated is the empty set, a stated one a singleton.
FactNames == {"header", "marker", "rename_old", "rename_new", "similarity",
              "new_file", "deleted_file", "old_mode", "new_mode", "index", "binary"}

NoFacts == [n \in FactNames |-> {}]
Stated(f, n) == f[n] # {}
Value(f, n)  == CHOOSE v \in f[n] : TRUE

\* The state of the parser.  hunk: the hunk that is being read, at most one;
\* fault: the first error that was met.
Start == [files |-> <<>>, facts |-> NoFacts, hunks |-> <<>>, hunk |-> {},
          changed |-> 0, sections |-> 0, physical |-> 0, fault |-> "none"]

\* An error ends the parsing; the lines and sections that follow only count.
Fails(st, code) == [Start EXCEPT !.sections = st.sections, !.physical = st.physical,
                                 !.fault = code]

-----------------------------------------------------------------------------
(* The facts of one section                                                *)

\* _header_path_hints: the paths that are stated before the first hunk, by the
\* markers if one of their sides exists, otherwise by a whole rename.
Hints(f) ==
    LET sided == {m \in f.marker : m.old # Null \/ m.new # Null}
        whole == [old : f.rename_old, new : f.rename_new]
    IN  IF sided # {}
        THEN {[old |-> IF m.old = Null THEN m.new ELSE m.old,
               new |-> IF m.new = Null THEN m.old ELSE m.new] : m \in sided}
        ELSE whole

\* _parse_diff_header, of a header that is not quoted
HeaderAgrees(f) == Hints(f) = {} \/ Hints(f) = f.header

Renamed(f) == \/ Value(f, "header").old # Value(f, "header").new
              \/ Stated(f, "rename_old") \/ Stated(f, "rename_new")

\* new_file, deleted_file, modes and blob hashes
LifecycleAgrees(f) ==
    LET new == Stated(f, "new_file")  deleted == Stated(f, "deleted_file")
        modes == Stated(f, "old_mode")
    IN  /\ ~(new /\ deleted)
        /\ (new \/ deleted) => ~Renamed(f)
        /\ modes <=> Stated(f, "new_mode")
        /\ modes => f.old_mode # f.new_mode /\ ~new /\ ~deleted
        /\ \A x \in f.index :
              /\ x.mode => ~modes /\ ~new /\ ~deleted
              /\ x.old = "zero" <=> new
              /\ x.new = "zero" <=> deleted

\* Mutant: a new file may have markers that name an old side.
PathsAgreeForNew(f) ==
    LET h == Value(f, "header")
    IN  /\ \A p \in f.rename_old : p = h.old
        /\ \A p \in f.rename_new : p = h.new
        /\ Renamed(f) => (Stated(f, "rename_old") <=> Stated(f, "rename_new"))
        /\ \A b \in f.binary :
              /\ f.marker # {} => f.marker = f.binary
              /\ b.old = Null <=> Stated(f, "new_file")
              /\ b.new = Null <=> Stated(f, "deleted_file")
              /\ b.old \in {h.old, Null} /\ b.new \in {h.new, Null}
        /\ \A m \in f.marker :
              /\ Stated(f, "deleted_file") => m.new = Null
              /\ m.old \in {h.old, Null} /\ m.new \in {h.new, Null}

\* renames, markers and "Binary files" against the header
PathsAgree(f) ==
    LET h == Value(f, "header")
    IN  /\ \A p \in f.rename_old : p = h.old
        /\ \A p \in f.rename_new : p = h.new
        /\ Renamed(f) => (Stated(f, "rename_old") <=> Stated(f, "rename_new"))
        /\ \A b \in f.binary :
              /\ f.marker # {} => f.marker = f.binary
              /\ b.old = Null <=> Stated(f, "new_file")
              /\ b.new = Null <=> Stated(f, "deleted_file")
              /\ b.old \in {h.old, Null} /\ b.new \in {h.new, Null}
        /\ \A m \in f.marker :
              /\ Stated(f, "new_file") => m.old = Null
              /\ Stated(f, "deleted_file") => m.new = Null
              /\ m.old \in {h.old, Null} /\ m.new \in {h.new, Null}

\* hunks, similarity and blob hashes against each other
ContentAgrees(f, hunks) ==
    LET content   == hunks # <<>> \/ Stated(f, "binary")
        lifecycle == Stated(f, "new_file") \/ Stated(f, "deleted_file")
    IN  /\ hunks # <<>> => Stated(f, "marker") /\ ~Stated(f, "binary")
        /\ \A s \in f.similarity :
              /\ s.kind = "similarity" =>
                    /\ Stated(f, "rename_old") /\ Stated(f, "rename_new")
                    /\ s.whole <=> ~content
              /\ s.kind = "dissimilarity" =>
                    ~Stated(f, "rename_old") /\ ~Stated(f, "rename_new") /\ content
        /\ \A x \in f.index :
              IF content THEN x.old # x.new ELSE lifecycle

Recognized(f, hunks) == hunks # <<>> \/ \E n \in FactNames \ {"header"} : Stated(f, n)

Consistent(f, hunks) ==
    /\ Recognized(f, hunks)
    /\ LifecycleAgrees(f) /\ PathsAgree(f) /\ ContentAgrees(f, hunks)

-----------------------------------------------------------------------------
(* Hunks and files                                                         *)

Sides == [context |-> {"old", "new"}, deletion |-> {"old"}, addition |-> {"new"}]

\* The lines of the hunk that lie on a side of it, by their places, all of
\* them and those ahead of the k-th.
OnSide(h, side)    == {k \in DOMAIN h.lines : side \in Sides[h.lines[k].type]}
Seen(h, side)      == Cardinality(OnSide(h, side))
Ahead(h, side, k)  == Cardinality({j \in OnSide(h, side) : j < k})

Complete(h) == Seen(h, "old") = h.oldCount /\ Seen(h, "new") = h.newCount

\* _validate_line_locations: on each side the numbers run on from its start.
LocationsValid(h) ==
    /\ \A k \in DOMAIN h.lines : h.lines[k].sequence = k
    /\ \A k \in OnSide(h, "old") : h.lines[k].old = h.oldStart + Ahead(h, "old", k)
    /\ \A k \in OnSide(h, "new") : h.lines[k].new = h.newStart + Ahead(h, "new", k)

\* Mutant: only the old side is looked at.
OrderedOnOldSide(hunks) ==
    \A k \in 2 .. Len(hunks) : hunks[k].oldStart >= hunks[k - 1].oldStart + hunks[k - 1].oldCount

\* _validate_hunk_order
Ordered(hunks) ==
    \A k \in 2 .. Len(hunks) :
       /\ hunks[k].oldStart >= hunks[k - 1].oldStart + hunks[k - 1].oldCount
       /\ hunks[k].newStart >= hunks[k - 1].newStart + hunks[k - 1].newCount

ChangeType(f, old, new) ==
    IF Stated(f, "binary") THEN "binary"
    ELSE IF old = Null THEN "added"
    ELSE IF new = Null THEN "deleted"
    ELSE IF Renamed(f) THEN "renamed"
    ELSE "modified"

\* The ChangedFile of a section, its paths those of the binary line, of the
\* markers or of the header, without the side that the file's lifecycle lacks.
FileOf(f, hunks) ==
    LET pair == IF Stated(f, "binary") THEN Value(f, "binary")
                ELSE IF Stated(f, "marker") THEN Value(f, "marker")
                ELSE Value(f, "header")
        old == IF Stated(f, "new_file") THEN Null ELSE pair.old
        new == IF Stated(f, "deleted_file") THEN Null ELSE pair.new
    IN  [old |-> old, new |-> new, type |-> ChangeType(f, old, new), hunks |-> hunks]

\* derive_file_id, injective by its digest
FileId(c) == <<c.type, c.old, c.new>>
IsBinary(c) == c.type = "binary"

OfType(h, t)    == Cardinality({k \in DOMAIN h.lines : h.lines[k].type = t})
CountType(c, t) == SumFunction([k \in DOMAIN c.hunks |-> OfType(c.hunks[k], t)])

Changed(c) == CountType(c, "addition") + CountType(c, "deletion")

\* The checks of Hunk and ChangedFile on what the parser hands them.
FileValid(c) ==
    /\ c.old # Null \/ c.new # Null
    /\ IsBinary(c) => c.hunks = <<>>
    /\ \A k \in DOMAIN c.hunks : Complete(c.hunks[k]) /\ LocationsValid(c.hunks[k])
    /\ Ordered(c.hunks)

-----------------------------------------------------------------------------
(* The parser, one line after the other                                    *)

Counted(st, lines) == [st EXCEPT !.physical = @ + lines]

InSection(st) == Stated(st.facts, "header")

\* The end of a section, before the next header or at the end of the input.
EndSection(st) ==
    LET f == st.facts
        c == FileOf(f, st.hunks)
    IN  CASE st.fault # "none" \/ ~InSection(st) -> st
          [] st.fault = "none" /\ InSection(st) /\ st.hunk # {} -> Fails(st, "incomplete")
          [] OTHER ->
               IF /\ st.hunks = <<>> => HeaderAgrees(f)
                  /\ Consistent(f, st.hunks)
                  /\ FileValid(c)
                  /\ \A k \in DOMAIN st.files : FileId(st.files[k]) # FileId(c)
               THEN [st EXCEPT !.files = Append(@, c), !.facts = NoFacts, !.hunks = <<>>]
               ELSE Fails(st, "malformed")

\* "diff --git" begins a section wherever it stands.
Header(st, paths) ==
    LET ended == EndSection(st)
    IN  IF ended.fault # "none"
        THEN [ended EXCEPT !.sections = @ + 1]
        ELSE [ended EXCEPT !.sections = @ + 1, !.facts.header = {paths}]

\* No fact is stated twice, and none inside a hunk.
Fact(st, name, value) ==
    IF st.fault # "none" THEN st
    ELSE IF ~InSection(st) \/ st.hunk # {} \/ Stated(st.facts, name)
    THEN Fails(st, "malformed")
    ELSE [st EXCEPT !.facts[name] = {value}]

\* The hunk becomes one of the section's once both its sides are complete.
WithHunk(st, h) ==
    IF Complete(h) THEN [st EXCEPT !.hunks = Append(@, h), !.hunk = {}]
    ELSE [st EXCEPT !.hunk = {h}]

HunkHeader(st, h) ==
    CASE st.fault # "none" -> st
      [] OTHER ->
           IF \/ ~InSection(st) \/ st.hunk # {}
              \/ st.hunks = <<>> /\ ~HeaderAgrees(st.facts)
              \/ h.oldCount > 0 /\ h.oldStart = 0
              \/ h.newCount > 0 /\ h.newStart = 0
           THEN Fails(st, "malformed")
           ELSE WithHunk(st, [oldStart |-> h.oldStart, oldCount |-> h.oldCount,
                              newStart |-> h.newStart, newCount |-> h.newCount,
                              lines |-> <<>>])

\* Mutant: a deletion moves the new side on as well.
LocatedTogether(h, type, text) ==
    [type |-> type, text |-> text, sequence |-> Len(h.lines) + 1,
     old |-> IF "old" \in Sides[type] THEN h.oldStart + Seen(h, "old") ELSE Null,
     new |-> IF "new" \in Sides[type] THEN h.newStart + Len(h.lines) ELSE Null]

\* A line of the hunk, numbered on each side it lies on.
Located(h, type, text) ==
    [type |-> type, text |-> text, sequence |-> Len(h.lines) + 1,
     old |-> IF "old" \in Sides[type] THEN h.oldStart + Seen(h, "old") ELSE Null,
     new |-> IF "new" \in Sides[type] THEN h.newStart + Seen(h, "new") ELSE Null]

\* A content line of the open hunk.  The limit on changed lines is looked at
\* before the room on the line's side; outside a hunk the line is not known.
Content(st, type, text) ==
    CASE st.fault # "none" -> st
      [] st.fault = "none" /\ st.hunk = {} -> Fails(st, "malformed")
      [] OTHER ->
           LET h == CHOOSE x \in st.hunk : TRUE
           IN  IF type # "context" /\ st.changed >= MaxChangedLines
               THEN Fails(st, "too_large")
               ELSE IF \/ "old" \in Sides[type] /\ Seen(h, "old") >= h.oldCount
                       \/ "new" \in Sides[type] /\ Seen(h, "new") >= h.newCount
               THEN Fails(st, "malformed")
               ELSE [WithHunk(st, [h EXCEPT !.lines = Append(@, Located(h, type, text))])
                     EXCEPT !.changed = IF type = "context" THEN @ ELSE @ + 1]

\* "\ No newline at end of file", after a line of a hunk
NoNewline(st) ==
    IF \/ st.fault # "none"
       \/ \E h \in st.hunk : h.lines # <<>>
       \/ st.hunk = {} /\ st.hunks # <<>>
    THEN st ELSE Fails(st, "malformed")

\* A line that the parser does not know, "GIT binary patch" among them.
Unknown(st) == IF st.fault # "none" THEN st ELSE Fails(st, "malformed")

-----------------------------------------------------------------------------
(* The whole input                                                         *)

\* The limits of the whole document are looked at before its sections are.
\* started: its first line is a header
Verdict(st, started) ==
    LET ended == EndSection(st)
    IN  CASE st.physical > MaxPhysicalLines -> "input_too_large"
          [] st.physical <= MaxPhysicalLines /\ st.physical > 0 /\ ~started ->
                 "input_malformed"
          [] OTHER -> IF st.sections > MaxFiles THEN "input_too_large"
                      ELSE CASE ended.fault = "none"       -> "accepted"
                             [] ended.fault = "malformed"  -> "input_malformed"
                             [] ended.fault = "incomplete" -> "input_incomplete"
                             [] ended.fault = "too_large"  -> "input_too_large"

\* The ChangeSet of an accepted input: every file is classified, and the
\* binary ones make its coverage partial.
ChangeSet(files) ==
    LET ids(P(_)) == {FileId(files[k]) : k \in {k \in DOMAIN files : P(files[k])}}
    IN  [files        |-> files,
         changed      |-> SumFunction([k \in DOMAIN files |-> Changed(files[k])]),
         reviewable   |-> ids(LAMBDA c : ~IsBinary(c)),
         unreviewable |-> ids(IsBinary),
         coverage     |-> IF \E k \in DOMAIN files : IsBinary(files[k])
                          THEN "partial" ELSE "complete"]

\* What ScopeCoverage asks of its parts.
CoverageValid(s) ==
    /\ s.reviewable \cap s.unreviewable = {}
    /\ s.coverage = IF s.unreviewable = {} THEN "complete" ELSE "partial"

\* What CompletenessProof asks: the statistics are within the limits.
ProofValid(s) == Len(s.files) <= MaxFiles /\ s.changed <= MaxChangedLines

\* What ChangeSet asks of its files and of the two.
ChangeSetValid(s) ==
    LET ids    == {FileId(s.files[k]) : k \in DOMAIN s.files}
        binary == {FileId(s.files[k]) : k \in {k \in DOMAIN s.files : IsBinary(s.files[k])}}
    IN  /\ Cardinality(ids) = Len(s.files)
        /\ s.reviewable \cup s.unreviewable = ids
        /\ s.unreviewable = binary
        /\ CoverageValid(s) /\ ProofValid(s)
        /\ \A k \in DOMAIN s.files : FileValid(s.files[k])
=============================================================================
