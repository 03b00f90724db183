----------------------------- MODULE ReviewInput -----------------------------
(***************************************************************************)
(* From a diff to a frozen review plan: PlainDiffProvider acquires the     *)
(* text through the security boundary, or a remote provider does, for      *)
(* InputService to normalize and ReviewPlanner to plan.  The document is   *)
(* fed line by line, so that every document within the bounds is read.     *)
(***************************************************************************)
EXTENDS ReviewPlanner, RemoteInput

CONSTANTS Dialects,    \* [remote, lines, size, files]: kinds of documents to feed,
                       \* if they are of a platform, the lines they are made of
                       \* and the bounds of the model
          Capacities   \* [context, output]: capacities of the models to plan for

\* The lines that the parser tells apart, by their kind.
FactValues ==
    LET sides  == [old : Paths \cup {Null}, new : Paths \cup {Null}]
        hashes == [old : STRING, new : STRING, mode : BOOLEAN]
    IN  [marker |-> sides, binary |-> sides, index |-> hashes,
         rename_old |-> Paths, rename_new |-> Paths,
         similarity |-> [kind : {"similarity", "dissimilarity"}, whole : BOOLEAN],
         new_file |-> {TRUE}, deleted_file |-> {TRUE},
         old_mode |-> STRING, new_mode |-> STRING]

IsLine(l) ==
    \/ l.kind = "header" /\ l.old \in Paths /\ l.new \in Paths
    \/ l.kind = "fact" /\ l.name \in DOMAIN FactValues /\ l.value \in FactValues[l.name]
    \/ l.kind = "hunk" /\ {l.oldStart, l.oldCount, l.newStart, l.newCount} \subseteq Nat
    \/ l.kind = "content" /\ l.type \in DOMAIN Sides /\ l.text \in DOMAIN TextBytes
    \/ l.kind \in {"no_newline", "unknown"}

ASSUME DialectAssumption == \A d \in Dialects : \A l \in d.lines : IsLine(l)

ASSUME CapacityAssumption == Capacities \subseteq [context : Nat, output : Nat]

VARIABLES stage,    \* "acquire", "read", "plan" or "done"
          result,   \* the outcome: an error code, "accepted", "planned", "refused"
          dialect,  \* the kind of the document
          started,  \* the first line that was fed is a header
          parser,   \* the state of the parser
          change,   \* the accepted change set
          plan      \* the plan, with the capacity it was made for

vars == <<stage, result, dialect, started, parser, change, plan, remoteVars>>

NoChange == ChangeSet(<<>>)
NoPlan   == Plan(<<>>, [context |-> 0, output |-> 0])

-----------------------------------------------------------------------------
(* Acquisition                                                             *)

\* What may be true of a request: where its text comes from, and what the scan
\* of that text finds.
Sources == [text : BOOLEAN, file : BOOLEAN, readable : BOOLEAN, utf8 : BOOLEAN,
            large : BOOLEAN, scan : {s \in Scans : ~s.large}]

\* _acquire and resolve: the text as the security boundary hands it out.
PassesBoundary(s) ==
    LET artifact == Prepared("diff", "domain_ingress", Decision(s.scan))
    IN  Resolves(Committed({}, artifact), artifact, "domain_ingress")

\* acquire_text, acquire_file and _acquire, as far as they get.
AcquireOutcome(s) ==
    IF s.text = s.file THEN IF s.text THEN "input_multiple_sources" ELSE "input_missing"
    ELSE IF s.file /\ ~s.readable THEN "input_unreadable"
    ELSE IF s.text /\ ~s.utf8 THEN "input_invalid_utf8"
    ELSE IF s.large THEN "input_too_large"
    ELSE IF ~s.utf8 THEN "input_invalid_utf8"
    ELSE IF PassesBoundary(s) THEN "acquired"
    ELSE "security_boundary_failed"

Acquire ==
    /\ stage = "acquire" /\ ~dialect.remote
    /\ \E s \in Sources :
          /\ stage' = IF AcquireOutcome(s) = "acquired" THEN "read" ELSE "done"
          /\ result' = AcquireOutcome(s)
    /\ UNCHANGED <<dialect, started, parser, change, plan, remoteVars>>

\* normalize_remote, step by step; the error of the provider is its result.
AcquireRemote ==
    /\ stage = "acquire" /\ dialect.remote
    /\ RemoteNext
    /\ stage' = CASE remote'.step = "committed" -> "read"
                  [] remote'.step = "failed"    -> "done"
                  [] OTHER                      -> "acquire"
    /\ result' = CASE stage' = "read" -> "acquired"
                   [] stage' = "done" -> remote'.code
                   [] OTHER           -> result
    /\ UNCHANGED <<dialect, started, parser, change, plan>>

-----------------------------------------------------------------------------
(* Normalization                                                           *)

Feed(lines, next) ==
    /\ stage = "read"
    /\ parser.physical + lines <= dialect.size
    /\ parser' = Counted(next, lines)
    /\ started' = (started \/ (parser.physical = 0 /\ next.sections = 1))
    /\ UNCHANGED <<stage, result, dialect, change, plan, remoteVars>>

OpenHunk == parser.hunk # {}

FeedHeader(l) == /\ l.kind = "header"
                 /\ parser.sections < dialect.files
                 /\ Feed(1, Header(parser, [old |-> l.old, new |-> l.new]))

FeedFact(l) == /\ l.kind = "fact"
               /\ l.name # "marker"
               /\ Feed(1, Fact(parser, l.name, l.value))

\* Inside a hunk the two marker lines are a deletion and an addition.
FeedMarkers(l) == /\ l.kind = "fact" /\ l.name = "marker"
                  /\ ~OpenHunk
                  /\ Feed(2, Fact(parser, l.name, l.value))

FeedHunkHeader(l) == l.kind = "hunk" /\ Feed(1, HunkHeader(parser, l))

FeedContent(l) == l.kind = "content" /\ Feed(1, Content(parser, l.type, l.text))

FeedNoNewline(l) == l.kind = "no_newline" /\ Feed(1, NoNewline(parser))

FeedUnknown(l) == l.kind = "unknown" /\ Feed(1, Unknown(parser))

\* The end of the input: a verdict on the whole of it.
EndOfInput ==
    /\ stage = "read"
    /\ LET verdict == Verdict(parser, started)
           ended   == EndSection(parser)
       IN  IF verdict = "accepted" /\ ChangeSetValid(ChangeSet(ended.files))
           THEN /\ stage' = "plan" /\ result' = "accepted"
                /\ change' = ChangeSet(ended.files)
           ELSE /\ stage' = "done" /\ UNCHANGED change
                /\ result' = IF verdict = "accepted" THEN "input_malformed" ELSE verdict
    /\ parser' = Start
    /\ UNCHANGED <<dialect, started, plan, remoteVars>>

-----------------------------------------------------------------------------
(* Planning                                                                *)

MakePlan(capacity) ==
    /\ stage = "plan"
    /\ LET p == Plan(change.files, capacity)
       IN  /\ plan' = p
           /\ result' = IF PlanValid(p) THEN "planned" ELSE "refused"
    /\ stage' = "done"
    /\ UNCHANGED <<dialect, started, parser, change, remoteVars>>

-----------------------------------------------------------------------------
Init ==
    /\ stage = "acquire"
    /\ result = "none"
    /\ dialect \in Dialects
    /\ started = FALSE
    /\ parser = Start
    /\ change = NoChange
    /\ plan = NoPlan
    /\ RemoteInit

Next ==
    \/ Acquire
    \/ AcquireRemote
    \/ \E l \in dialect.lines :
          \/ FeedHeader(l)
          \/ FeedFact(l)
          \/ FeedMarkers(l)
          \/ FeedHunkHeader(l)
          \/ FeedContent(l)
          \/ FeedNoNewline(l)
          \/ FeedUnknown(l)
    \/ EndOfInput
    \/ \E capacity \in Capacities : MakePlan(capacity)

Spec == Init /\ [][Next]_vars

-----------------------------------------------------------------------------
(* Properties                                                              *)

\* The same change read from the new side to the old one.
Swapped(pairs) == {[p EXCEPT !.old = p.new, !.new = p.old] : p \in pairs}

ReversedFacts(f) ==
    [f EXCEPT !.header   = Swapped(@),      !.marker       = Swapped(@),
              !.binary   = Swapped(@),      !.index        = Swapped(@),
              !.new_file = f.deleted_file,  !.deleted_file = f.new_file,
              !.old_mode = f.new_mode,      !.new_mode     = f.old_mode,
              !.rename_old = f.rename_new,  !.rename_new   = f.rename_old]

ReversedType == [context |-> "context", deletion |-> "addition", addition |-> "deletion"]

ReversedHunks(hunks) ==
    [k \in DOMAIN hunks |->
        [oldStart |-> hunks[k].newStart, oldCount |-> hunks[k].newCount,
         newStart |-> hunks[k].oldStart, newCount |-> hunks[k].oldCount,
         lines |-> [j \in DOMAIN hunks[k].lines |->
                       [hunks[k].lines[j] EXCEPT !.type = ReversedType[@],
                                                 !.old = hunks[k].lines[j].new,
                                                 !.new = hunks[k].lines[j].old]]]]

Reads(f, hunks) == HeaderAgrees(f) /\ Consistent(f, hunks) /\ FileValid(FileOf(f, hunks))

\* A section whose hunks are complete.
AtRest == stage = "read" /\ parser.fault = "none" /\ InSection(parser) /\ ~OpenHunk

\* A diff is read exactly if the reverse diff is, and then as the reverse
\* change: the dozens of checks on paths, modes, hashes, similarity and hunks
\* treat the two sides of a file alike.
ReversedIsReversed ==
    AtRest =>
        LET f == parser.facts
            g == ReversedFacts(f)
            h == parser.hunks
            back == ReversedHunks(h)
            there == FileOf(f, h)
            other == FileOf(g, back)
        IN  /\ Reads(f, h) <=> Reads(g, back)
            /\ Reads(f, h) =>
                  /\ other.old = there.new /\ other.new = there.old
                  /\ other.type = CASE there.type = "added"   -> "deleted"
                                     [] there.type = "deleted" -> "added"
                                     [] OTHER                  -> there.type
                  /\ CountType(other, "addition") = CountType(there, "deletion")

\* The aggregate checks again what the parser counted and numbered.  Its own
\* contribution is the order of the hunks and a path on one side: no input is
\* refused because the two counts disagree.
AggregateAgrees ==
    /\ AtRest =>
          LET c == FileOf(parser.facts, parser.hunks)
          IN  (Consistent(parser.facts, parser.hunks) /\ HeaderAgrees(parser.facts)) =>
                  (FileValid(c) <=> /\ Ordered(c.hunks)
                                    /\ c.old # Null \/ c.new # Null)
    /\ (stage = "read" /\ Verdict(parser, started) = "accepted") =>
          ChangeSetValid(ChangeSet(EndSection(parser).files))

LineIds(c) == {[file |-> FileId(c), hunk |-> x.hunk, at |-> x.at] : x \in ToSet(LinesOf(c.hunks))}

UnitLines(u) == {[file |-> u.file, hunk |-> x.hunk, at |-> x.at] : x \in ToSet(u.lines)}

\* No line of an accepted change gets lost or is reviewed twice: it is in
\* exactly one work unit, or its hunk is declared unreviewable and it is in
\* none; and no unit has a line that is not of the change.
PlanConservesLines ==
    result = "planned" =>
        LET lines == UNION {LineIds(change.files[k]) : k \in DOMAIN change.files}
            units == DOMAIN plan.units
            given == UNION {UnitLines(plan.units[k].unit) : k \in units}
            dropped(id) == \E k \in DOMAIN plan.scopes :
                              /\ plan.scopes[k].disposition = "unreviewable"
                              /\ plan.scopes[k].id = <<id.file, "hunk_group", id.hunk>>
        IN  /\ given \subseteq lines
            /\ \A id \in lines : IF dropped(id) THEN id \notin given ELSE id \in given
            /\ \A j, k \in units : j # k =>
                  UnitLines(plan.units[j].unit) \cap UnitLines(plan.units[k].unit) = {}

\* The coordinates that planning, findings and report share: on either side of
\* a file, no number lies in the ranges of two scopes.
ScopesAreDisjoint ==
    \A j, k \in DOMAIN plan.scopes :
        (j # k /\ plan.scopes[j].file = plan.scopes[k].file) =>
            /\ plan.scopes[j].range.old \cap plan.scopes[k].range.old = {}
            /\ plan.scopes[j].range.new \cap plan.scopes[k].range.new = {}

\* A change is refused after it was accepted only if one of its hunks has no
\* lines or repeats a text: the identities of scopes and units of different
\* files, hunks and groups never meet.
RefusedPlansRepeat ==
    result = "refused" =>
        \E k \in DOMAIN change.files : \E h \in ToSet(change.files[k].hunks) :
            \/ h.lines = <<>>
            \/ \E i, j \in DOMAIN h.lines : i # j /\ h.lines[i].text = h.lines[j].text

\* Every planned unit fits the model it is planned for, by the bytes that it
\* has: the estimate is conservative.
PlannedUnitsFit ==
    result = "planned" =>
        \A k \in DOMAIN plan.units :
            LET lines == plan.units[k].unit.lines
            IN  Fits(EstimateText([j \in DOMAIN lines |-> lines[j].hunk.lines[lines[j].at]]),
                     plan.capacity)
=============================================================================
