---------------------------- MODULE MCReviewInput ----------------------------
(* Instances of ReviewInput for TLC.                                       *)
EXTENDS ReviewInput

Pair(old, new) == [old |-> old, new |-> new]
HeaderLine(old, new) == [kind |-> "header", old |-> old, new |-> new]
Says(name, values) == {[kind |-> "fact", name |-> name, value |-> v] : v \in values}
HunkLine(a, b, c, d) == [kind |-> "hunk", oldStart |-> a, oldCount |-> b,
                         newStart |-> c, newCount |-> d]
Texted(types, texts) == {[kind |-> "content", type |-> t, text |-> x] :
                            t \in types, x \in texts}
Types == {"context", "deletion", "addition"}
Rest  == {[kind |-> "no_newline"], [kind |-> "unknown"]}

\* One file, everything that can be stated about it, and a short hunk.
Metadata ==
    [remote |-> FALSE, size |-> 7, files |-> 1, lines |->
        {HeaderLine(1, 1), HeaderLine(1, 2), HunkLine(1, 0, 1, 0), HunkLine(1, 1, 1, 1)}
        \cup Texted({"context"}, {"short"}) \cup Rest
        \cup Says("marker", {Pair(1, 1), Pair(1, 2), Pair(Null, 1), Pair(1, Null)})
        \cup Says("binary", {Pair(1, 1), Pair(1, 2), Pair(Null, 1), Pair(1, Null)})
        \cup Says("rename_old", {1, 2}) \cup Says("rename_new", {1, 2})
        \cup Says("similarity", {[kind |-> "similarity", whole |-> TRUE],
                                 [kind |-> "similarity", whole |-> FALSE],
                                 [kind |-> "dissimilarity", whole |-> FALSE]})
        \cup Says("new_file", {TRUE}) \cup Says("deleted_file", {TRUE})
        \cup Says("old_mode", {"m1", "m2"}) \cup Says("new_mode", {"m1"})
        \cup Says("index", {[old |-> "zero", new |-> "h1", mode |-> FALSE],
                            [old |-> "h1", new |-> "zero", mode |-> FALSE],
                            [old |-> "h1", new |-> "h2", mode |-> FALSE],
                            [old |-> "h1", new |-> "h2", mode |-> TRUE],
                            [old |-> "h1", new |-> "h1", mode |-> FALSE]})]

\* One file, and a second one if there is room, with hunks of many shapes.
Hunks ==
    [remote |-> FALSE, size |-> 9, files |-> 3, lines |->
        {HeaderLine(1, 1), HeaderLine(2, 2),
         HunkLine(1, 1, 1, 1), HunkLine(2, 1, 2, 1), HunkLine(3, 2, 3, 0),
         HunkLine(1, 2, 1, 3), HunkLine(0, 0, 1, 1), HunkLine(0, 0, 2, 1),
         HunkLine(1, 0, 1, 0)}
        \cup Texted(Types, {"short"}) \cup Texted({"addition"}, {"long"})
        \cup Says("marker", {Pair(1, 1)})]

\* Two files with a hunk each, and a third one without.
Files ==
    [remote |-> FALSE, size |-> 12, files |-> 3, lines |->
        {HeaderLine(1, 1), HeaderLine(2, 2), HunkLine(0, 0, 1, 1)}
        \cup Texted({"addition"}, {"short", "long"})
        \cup Says("marker", {Pair(1, 1), Pair(2, 2), Pair(Null, 2)})]

\* More lines than are allowed, after an error and without one.
Long ==
    [remote |-> FALSE, size |-> 13, files |-> 1, lines |->
        {HeaderLine(1, 1), HunkLine(1, 1, 1, 1)} \cup Texted({"context"}, {"short"}) \cup Rest]

\* A file of a platform.
Remote ==
    [remote |-> TRUE, size |-> 5, files |-> 1, lines |->
        {HeaderLine(1, 1), HunkLine(0, 0, 1, 1)} \cup Texted({"addition"}, {"short"})
        \cup Says("marker", {Pair(1, 1)})]

\* Versions of a change with fewer and with more pages than the one before.
MCPagesOf == <<2, 1, 3>>

MCDialects   == {Metadata, Hunks, Files, Long, Remote}
MCTextBytes  == [short |-> 10, long |-> 60]
MCCapacities == {[context |-> 260, output |-> 4], [context |-> 270, output |-> 1],
                 [context |-> 400, output |-> 8]}
=============================================================================
