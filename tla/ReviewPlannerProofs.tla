------------------------ MODULE ReviewPlannerProofs ------------------------
(***************************************************************************)
(* Proofs about the plans of ReviewInput: what the planner makes of any    *)
(* change that was accepted, for every capacity.                           *)
(***************************************************************************)
EXTENDS ReviewInputProofs

-----------------------------------------------------------------------------
(* The numbers of the lines of a file                                      *)

Number(l, side)   == IF side = "old" THEN l.old ELSE l.new
StartOf(h, side)  == IF side = "old" THEN h.oldStart ELSE h.newStart
CountOf(h, side)  == IF side = "old" THEN h.oldCount ELSE h.newCount

\* On a side, the numbers of a hunk grow, and stay between its start and its end.
LEMMA HunkNumbers ==
  ASSUME NEW h \in HunkType, GoodHunk(h), Complete(h), NEW side \in {"old", "new"}
  PROVE  /\ StartOf(h, side) \in Nat /\ CountOf(h, side) \in Nat
         /\ \A k \in DOMAIN h.lines :
               Number(h.lines[k], side) # Null => k \in OnSide(h, side)
         /\ \A k \in OnSide(h, side) :
               /\ Number(h.lines[k], side) \in Nat
               /\ StartOf(h, side) <= Number(h.lines[k], side)
               /\ Number(h.lines[k], side) < StartOf(h, side) + CountOf(h, side)
         /\ \A j, k \in OnSide(h, side) :
               j < k => Number(h.lines[j], side) < Number(h.lines[k], side)
  <1> DEFINE On == OnSide(h, side)
             before(k) == {j \in On : j < k}
  <1>1. /\ On \in SUBSET (1 .. Len(h.lines)) /\ IsFiniteSet(On) /\ Seen(h, side) \in Nat
        /\ \A k : IsFiniteSet(before(k)) /\ Ahead(h, side, k) \in Nat
    BY HunkFields, OnSideFinite
  <1>2. StartOf(h, side) \in Nat /\ CountOf(h, side) \in Nat /\ Len(h.lines) \in Nat
    BY HunkFields DEF StartOf, CountOf
  <1>3. Seen(h, side) = CountOf(h, side)
    BY DEF Complete, CountOf
  <1>4. \A k \in On : Number(h.lines[k], side) = StartOf(h, side) + Ahead(h, side, k)
    BY DEF GoodHunk, LocationsValid, Number, StartOf
  <1>5. \A k \in DOMAIN h.lines : Number(h.lines[k], side) # Null => k \in On
    BY DEF GoodHunk, Number
  <1>6. \A k : Cardinality(before(k)) = Ahead(h, side, k)
    BY DEF Ahead
  <1>7. Cardinality(On) = Seen(h, side)
    BY DEF Seen
  <1> HIDE DEF On
  <1>8. ASSUME NEW k \in On, NEW S \in SUBSET On, before(k) \subseteq S, k \in S
        PROVE  Ahead(h, side, k) < Cardinality(S)
    <2>1. IsFiniteSet(S) /\ Cardinality(S) \in Nat
      BY <1>1, FS_Subset, FS_CardinalityType
    <2>2. ~(k < k)
      BY <1>1, <1>2
    <2>3. k \notin before(k)
      BY <2>2
    <2> HIDE DEF before
    <2>4. Cardinality(before(k) \cup {k}) = Cardinality(before(k)) + 1
      BY <1>1, <2>3, FS_AddElement
    <2>5. before(k) \cup {k} \subseteq S
      BY <1>8
    <2>6. Cardinality(before(k) \cup {k}) <= Cardinality(S)
      BY <2>1, <2>5, FS_Subset
    <2>7. QED BY <1>1, <1>6, <2>1, <2>4, <2>6
  <1>9. \A k \in On : Ahead(h, side, k) < Seen(h, side)
    <2> TAKE k \in On
    <2>1. before(k) \subseteq On
      OBVIOUS
    <2> HIDE DEF before
    <2>2. QED BY <1>7, <1>8, <2>1
  <1>10. ASSUME NEW j \in On, NEW k \in On, j < k
         PROVE  Ahead(h, side, j) < Ahead(h, side, k)
    <2>1. \A i \in On : i < j => i < k
      BY <1>1, <1>2, <1>10
    <2>2. before(j) \subseteq before(k) /\ j \in before(k) /\ before(k) \in SUBSET On
      BY <1>10, <2>1
    <2> HIDE DEF before
    <2>3. QED BY <1>6, <1>8, <2>2
  <1>11. ASSUME NEW k \in On
         PROVE  /\ Number(h.lines[k], side) \in Nat
                /\ StartOf(h, side) <= Number(h.lines[k], side)
                /\ Number(h.lines[k], side) < StartOf(h, side) + CountOf(h, side)
    <2>1. Ahead(h, side, k) \in Nat
      BY <1>1
    <2>2. Ahead(h, side, k) < CountOf(h, side)
      BY <1>3, <1>9
    <2>3. Number(h.lines[k], side) = StartOf(h, side) + Ahead(h, side, k)
      BY <1>4
    <2>4. QED BY <1>2, <2>1, <2>2, <2>3
  <1>12. ASSUME NEW j \in On, NEW k \in On, j < k
         PROVE  Number(h.lines[j], side) < Number(h.lines[k], side)
    <2>1. Ahead(h, side, j) \in Nat /\ Ahead(h, side, k) \in Nat
      BY <1>1
    <2>2. Ahead(h, side, j) < Ahead(h, side, k)
      BY <1>10, <1>12
    <2>3. /\ Number(h.lines[j], side) = StartOf(h, side) + Ahead(h, side, j)
          /\ Number(h.lines[k], side) = StartOf(h, side) + Ahead(h, side, k)
      BY <1>4
    <2>4. QED BY <1>2, <2>1, <2>2, <2>3
  <1>13. QED BY <1>2, <1>5, <1>11, <1>12 DEF On

\* The hunks of a file that the planner is given.
FileHunks(hunks) == hunks \in Seq(HunkType) /\ GoodHunks(hunks) /\ Ordered(hunks)

\* Each hunk begins behind the end of every hunk before it.
LEMMA HunksFollow ==
  ASSUME NEW hunks, FileHunks(hunks), NEW side \in {"old", "new"},
         NEW i \in DOMAIN hunks, NEW k \in DOMAIN hunks, i < k
  PROVE  StartOf(hunks[k], side) >= StartOf(hunks[i], side) + CountOf(hunks[i], side)
  <1> DEFINE n == Len(hunks)
             end == StartOf(hunks[i], side) + CountOf(hunks[i], side)
             P == {m \in 0 .. n : m <= i \/ StartOf(hunks[m], side) >= end}
  <1>1. n \in Nat /\ DOMAIN hunks = 1 .. n
    BY DEF FileHunks
  <1>2. \A m \in 1 .. n : StartOf(hunks[m], side) \in Nat /\ CountOf(hunks[m], side) \in Nat
    <2> TAKE m \in 1 .. n
    <2>1. hunks[m] \in HunkType
      BY DEF FileHunks
    <2>2. QED BY <2>1, HunkFields DEF StartOf, CountOf
  <1>3. \A m \in 2 .. n :
           StartOf(hunks[m], side) >= StartOf(hunks[m - 1], side) + CountOf(hunks[m - 1], side)
    BY DEF FileHunks, Ordered, StartOf, CountOf
  <1> HIDE DEF n
  <1>4. end \in Nat
    BY <1>1, <1>2
  <1>5. 0 \in P
    BY <1>1
  <1>6. ASSUME NEW m \in 0 .. n - 1, m \in P PROVE m + 1 \in P
    <2>0. (m + 1) - 1 = m /\ m + 1 \in 0 .. n /\ m \in Nat
      BY <1>1
    <2>1. CASE m + 1 <= i
      BY <2>0, <2>1
    <2>2. CASE m = i
      <3>1. m + 1 \in 2 .. n
        BY <1>1, <2>2
      <3>2. StartOf(hunks[m + 1], side) >= StartOf(hunks[(m + 1) - 1], side) + CountOf(hunks[(m + 1) - 1], side)
        BY <1>3, <3>1
      <3>3. StartOf(hunks[m + 1], side) >= end
        BY <2>0, <2>2, <3>2
      <3> HIDE DEF end
      <3>4. QED BY <2>0, <3>3
    <2>3. CASE i < m
      <3>1. m + 1 \in 2 .. n /\ m \in 1 .. n /\ m + 1 \in 1 .. n
        BY <1>1, <2>3
      <3>2. StartOf(hunks[m + 1], side) >= StartOf(hunks[(m + 1) - 1], side) + CountOf(hunks[(m + 1) - 1], side)
        BY <1>3, <3>1
      <3>3. StartOf(hunks[m + 1], side) >= StartOf(hunks[m], side) + CountOf(hunks[m], side)
        BY <2>0, <3>2
      <3>4. ~(m <= i)
        BY <1>1, <2>3
      <3> HIDE DEF end
      <3>5. StartOf(hunks[m], side) >= end
        BY <1>6, <3>4
      <3>6. /\ StartOf(hunks[m], side) \in Nat /\ CountOf(hunks[m], side) \in Nat
            /\ StartOf(hunks[m + 1], side) \in Nat
        BY <1>2, <3>1
      <3>7. StartOf(hunks[m + 1], side) >= end
        BY <1>4, <3>3, <3>5, <3>6
      <3>8. QED BY <2>0, <3>7
    <2>4. QED BY <1>1, <2>0, <2>1, <2>2, <2>3
  <1> HIDE DEF end
  <1>7. k \in P
    <2>1. k \in 0 .. n
      BY <1>1
    <2> HIDE DEF P
    <2>2. QED BY <1>1, <1>5, <1>6, <2>1, UpTo
  <1>8. ~(k <= i)
    BY <1>1
  <1>9. QED BY <1>7, <1>8 DEF end

\* The places of the lines of some hunks, and the order of them.
LinePlaces(hunks) == UNION {{<<i, j>> : j \in DOMAIN hunks[i].lines} : i \in DOMAIN hunks}
LineAt(hunks, p)  == hunks[p[1]].lines[p[2]]
Comes(p, q)       == Earlier(p[1], p[2], q[1], q[2])

\* A place is a hunk and a line of it.
LEMMA LinePlace ==
  ASSUME NEW hunks, NEW p
  PROVE  p \in LinePlaces(hunks) <=> /\ p = <<p[1], p[2]>>
                                     /\ p[1] \in DOMAIN hunks /\ p[2] \in DOMAIN hunks[p[1]].lines
  BY DEF LinePlaces

\* On a side, the numbers grow from the first line of a file to its last.
LEMMA NumbersGrow ==
  ASSUME NEW hunks, FileHunks(hunks), NEW side \in {"old", "new"},
         NEW p \in LinePlaces(hunks), NEW q \in LinePlaces(hunks), Comes(p, q),
         Number(LineAt(hunks, p), side) # Null, Number(LineAt(hunks, q), side) # Null
  PROVE  Number(LineAt(hunks, p), side) < Number(LineAt(hunks, q), side)
  <1> DEFINE g == hunks[p[1]]
             h == hunks[q[1]]
             m == Number(LineAt(hunks, p), side)
             n == Number(LineAt(hunks, q), side)
  <1>1. /\ p[1] \in DOMAIN hunks /\ p[2] \in DOMAIN g.lines
        /\ q[1] \in DOMAIN hunks /\ q[2] \in DOMAIN h.lines
    BY LinePlace
  <1>2. /\ g \in HunkType /\ GoodHunk(g) /\ Complete(g)
        /\ h \in HunkType /\ GoodHunk(h) /\ Complete(h)
    BY <1>1 DEF FileHunks, GoodHunks
  <1>3. m = Number(g.lines[p[2]], side) /\ n = Number(h.lines[q[2]], side)
    BY DEF LineAt
  <1>4. p[2] \in OnSide(g, side) /\ q[2] \in OnSide(h, side)
    BY <1>1, <1>2, <1>3, HunkNumbers
  <1>5. CASE p[1] < q[1]
    <2>1. StartOf(h, side) >= StartOf(g, side) + CountOf(g, side)
      BY <1>1, <1>5, HunksFollow
    <2>2. /\ m \in Nat /\ n \in Nat /\ StartOf(h, side) <= n /\ m < StartOf(g, side) + CountOf(g, side)
          /\ StartOf(g, side) \in Nat /\ CountOf(g, side) \in Nat /\ StartOf(h, side) \in Nat
      <3>1. m \in Nat /\ m < StartOf(g, side) + CountOf(g, side) /\ StartOf(g, side) \in Nat /\ CountOf(g, side) \in Nat
        <4> HIDE DEF g, m
        <4>1. QED BY <1>2, <1>3, <1>4, HunkNumbers
      <3>2. n \in Nat /\ StartOf(h, side) <= n /\ StartOf(h, side) \in Nat
        <4> HIDE DEF h, n
        <4>1. QED BY <1>2, <1>3, <1>4, HunkNumbers
      <3>3. QED BY <3>1, <3>2
    <2> HIDE DEF m, n, g, h
    <2>3. m < n
      BY <2>1, <2>2
    <2>4. QED BY <2>3 DEF m, n
  <1>6. CASE p[1] = q[1] /\ p[2] < q[2]
    <2>1. g = h
      BY <1>6
    <2> HIDE DEF g, h, m, n
    <2>2. m < n
      BY <1>2, <1>3, <1>4, <1>6, <2>1, HunkNumbers
    <2>3. QED BY <2>2 DEF m, n
  <1>7. QED BY <1>5, <1>6 DEF Comes, Earlier

\* From the first to the last of some numbers there is none of later ones.
LEMMA SpansDisjoint ==
  ASSUME NEW S \in SUBSET Nat, NEW T \in SUBSET Nat, IsFiniteSet(S), IsFiniteSet(T),
         \A x \in S, y \in T : x < y
  PROVE  (IF S = {} THEN {} ELSE Min(S) .. Max(S)) \cap (IF T = {} THEN {} ELSE Min(T) .. Max(T)) = {}
  <1>1. CASE S = {} \/ T = {}
    BY <1>1
  <1>2. CASE S # {} /\ T # {}
    <2>1. S \in SUBSET Int /\ T \in SUBSET Int
      OBVIOUS
    <2>2. Max(S) \in S /\ Min(T) \in T /\ Min(S) \in S /\ Max(T) \in T
      BY <1>2, <2>1, MaxIsLast, MinIsLeast
    <2>3. Max(S) < Min(T)
      BY <2>2
    <2>4. Min(S) \in Int /\ Max(S) \in Int /\ Min(T) \in Int /\ Max(T) \in Int
      BY <2>1, <2>2
    <2>5. \A a, b, d, e \in Int : b < d => (a .. b) \cap (d .. e) = {}
      OBVIOUS
    <2>6. (Min(S) .. Max(S)) \cap (Min(T) .. Max(T)) = {}
      BY <2>3, <2>4, <2>5
    <2>7. QED BY <1>2, <2>6
  <1>3. QED BY <1>1, <1>2

\* The numbers that some lines have on a side.
NumbersOf(lines, side) == {Number(l, side) : l \in {m \in ToSet(lines) : Number(m, side) # Null}}

\* A range goes, on each side, from the least number to the greatest.
LEMMA LineRangeSpans ==
  ASSUME NEW lines
  PROVE  LET span(S) == IF S = {} THEN {} ELSE Min(S) .. Max(S)
         IN  /\ LineRange(lines).old = span(NumbersOf(lines, "old"))
             /\ LineRange(lines).new = span(NumbersOf(lines, "new"))
  <1> DEFINE on(side) == {l.old : l \in {m \in ToSet(lines) : side = "old" /\ m.old # Null}}
                      \cup {l.new : l \in {m \in ToSet(lines) : side = "new" /\ m.new # Null}}
             span(S) == IF S = {} THEN {} ELSE Min(S) .. Max(S)
  <1>1. LineRange(lines) = [old |-> span(on("old")), new |-> span(on("new"))]
    BY DEF LineRange
  <1>2. on("old") = NumbersOf(lines, "old")
    <2>1. on("old") = {l.old : l \in {m \in ToSet(lines) : m.old # Null}}
      OBVIOUS
    <2>2. QED BY <2>1 DEF NumbersOf, Number
  <1>3. on("new") = NumbersOf(lines, "new")
    <2>1. on("new") = {l.new : l \in {m \in ToSet(lines) : m.new # Null}}
      OBVIOUS
    <2>2. QED BY <2>1 DEF NumbersOf, Number
  <1> HIDE DEF on, span
  <1>4. LineRange(lines).old = span(on("old")) /\ LineRange(lines).new = span(on("new"))
    BY <1>1
  <1>5. QED BY <1>2, <1>3, <1>4 DEF span

\* s has the lines at the places F.
LinesAt(hunks, s, F) == IsSeq(s) /\ ToSet(s) = {LineAt(hunks, p) : p \in F}

\* The numbers of lines of a file are some natural numbers.
LEMMA NumbersAt ==
  ASSUME NEW hunks, FileHunks(hunks), NEW r, NEW H \in SUBSET LinePlaces(hunks),
         LinesAt(hunks, r, H), NEW side \in {"old", "new"}
  PROVE  NumbersOf(r, side) \in SUBSET Nat /\ IsFiniteSet(NumbersOf(r, side))
  <1> USE DEF LinesAt
  <1>1. \A l \in ToSet(r) : l \in LineType
    <2> SUFFICES ASSUME NEW p \in H PROVE LineAt(hunks, p) \in LineType
      OBVIOUS
    <2>1. p \in LinePlaces(hunks)
      OBVIOUS
    <2>2. p[1] \in DOMAIN hunks /\ p[2] \in DOMAIN hunks[p[1]].lines
      BY <2>1, LinePlace
    <2>3. hunks[p[1]] \in HunkType
      BY <2>2 DEF FileHunks
    <2>4. QED BY <2>2, <2>3, HunkFields DEF LineAt
  <1>2. \A l \in LineType : Number(l, side) \in Nat
    BY DEF Number, LineType
  <1>3. NumbersOf(r, side) \in SUBSET Nat
    BY <1>1, <1>2 DEF NumbersOf
  <1>4. IsFiniteSet(NumbersOf(r, side))
    <2> DEFINE D == {i \in DOMAIN r : Number(r[i], side) # Null}
               f == [i \in D |-> Number(r[i], side)]
               S == NumbersOf(r, side)
    <2>1. Len(r) \in Nat /\ DOMAIN r = 1 .. Len(r)
      BY SeqFacts
    <2>2. IsFiniteSet(D)
      <3>1. D \in SUBSET (1 .. Len(r))
        BY <2>1
      <3>2. IsFiniteSet(1 .. Len(r))
        BY <2>1, FS_Interval
      <3> HIDE DEF D
      <3>3. QED BY <3>1, <3>2, FS_Subset
    <2>3. f \in Surjection(D, S)
      <3>1. \A i \in D : f[i] \in S
        BY DEF NumbersOf, ToSet
      <3>2. \A x \in S : \E i \in D : f[i] = x
        BY DEF NumbersOf, ToSet
      <3> HIDE DEF D, S
      <3>3. QED BY <3>1, <3>2 DEF Surjection
    <2> HIDE DEF D, f, S
    <2>4. IsFiniteSet(S)
      BY <2>2, <2>3, FS_Surjection
    <2>5. QED BY <2>4 DEF S
  <1>5. QED BY <1>3, <1>4

\* Every line of a file has a number, on one side or the other.
LEMMA LinesHaveNumbers ==
  ASSUME NEW hunks, FileHunks(hunks), NEW p \in LinePlaces(hunks)
  PROVE  \E side \in {"old", "new"} : Number(LineAt(hunks, p), side) # Null
  <1> DEFINE h == hunks[p[1]]
             k == p[2]
             l == LineAt(hunks, p)
  <1>1. p[1] \in DOMAIN hunks /\ k \in DOMAIN h.lines
    BY LinePlace
  <1>2. h \in HunkType /\ GoodHunk(h) /\ Complete(h)
    BY <1>1 DEF FileHunks, GoodHunks
  <1>3. l = h.lines[k]
    BY DEF LineAt
  <1> HIDE DEF h, k, l
  <1>4. l \in LineType
    BY <1>1, <1>2, <1>3, HunkFields
  <1>5. PICK side \in {"old", "new"} : side \in Sides[l.type]
    BY <1>4 DEF LineType, Sides
  <1>6. k \in OnSide(h, side)
    BY <1>1, <1>3, <1>5 DEF OnSide
  <1>7. /\ StartOf(h, side) \in Nat /\ CountOf(h, side) \in Nat /\ Number(l, side) \in Nat
        /\ StartOf(h, side) <= Number(l, side)
        /\ Number(l, side) < StartOf(h, side) + CountOf(h, side)
    BY <1>2, <1>3, <1>6, HunkNumbers
  <1>8. CountOf(h, side) > 0 => StartOf(h, side) > 0
    BY <1>2, <1>5 DEF GoodHunk, CountOf, StartOf
  <1>9. Number(l, side) # Null
    BY <1>7, <1>8 DEF Null
  <1>10. QED BY <1>5, <1>9 DEF l

\* The range of some lines of a file is not empty on both sides.
LEMMA RangeNotEmpty ==
  ASSUME NEW hunks, FileHunks(hunks), NEW F \in SUBSET LinePlaces(hunks), F # {},
         NEW s, LinesAt(hunks, s, F)
  PROVE  LineRange(s) # NoRange
  <1>1. PICK p \in F : TRUE
    OBVIOUS
  <1>2. PICK side \in {"old", "new"} : Number(LineAt(hunks, p), side) # Null
    BY <1>1, LinesHaveNumbers
  <1> DEFINE S == NumbersOf(s, side)
             span == IF S = {} THEN {} ELSE Min(S) .. Max(S)
  <1>3. Number(LineAt(hunks, p), side) \in S
    BY <1>1, <1>2 DEF NumbersOf, LinesAt
  <1>4. S \in SUBSET Nat /\ IsFiniteSet(S)
    BY NumbersAt
  <1>5. (side = "old" => LineRange(s).old = span) /\ (side = "new" => LineRange(s).new = span)
    BY LineRangeSpans
  <1> HIDE DEF S
  <1>6. S \in SUBSET Int /\ S # {}
    BY <1>3, <1>4
  <1>7. /\ Min(S) \in S /\ Max(S) \in S
        /\ \A y \in S : Min(S) <= y
    BY <1>4, <1>6, MaxIsLast, MinIsLeast
  <1>8. Min(S) \in Int /\ Max(S) \in Int /\ Min(S) <= Max(S)
    BY <1>6, <1>7
  <1>9. Min(S) \in span
    <2>1. \A a, b \in Int : a <= b => a \in a .. b
      OBVIOUS
    <2>2. Min(S) \in Min(S) .. Max(S)
      BY <1>8, <2>1
    <2>3. QED BY <1>6, <2>2
  <1> HIDE DEF span
  <1>10. QED BY <1>5, <1>9 DEF NoRange

\* Two ranges share no number on either side.
DoNotMeet(r, t) == r.old \cap t.old = {} /\ r.new \cap t.new = {}

\* Lines of a file that come one after the other lie in ranges that do not meet.
LEMMA RangesDisjoint ==
  ASSUME NEW hunks, FileHunks(hunks),
         NEW F \in SUBSET LinePlaces(hunks), NEW G \in SUBSET LinePlaces(hunks),
         \A p \in F, q \in G : Comes(p, q),
         NEW s, LinesAt(hunks, s, F), NEW t, LinesAt(hunks, t, G)
  PROVE  DoNotMeet(LineRange(s), LineRange(t))
  <1> USE DEF LinesAt
  <1>1. ASSUME NEW r, NEW H \in SUBSET LinePlaces(hunks), LinesAt(hunks, r, H),
               NEW side \in {"old", "new"}
        PROVE  NumbersOf(r, side) \in SUBSET Nat /\ IsFiniteSet(NumbersOf(r, side))
    BY <1>1, NumbersAt
  <1>2. ASSUME NEW side \in {"old", "new"}, NEW x \in NumbersOf(s, side), NEW y \in NumbersOf(t, side)
        PROVE  x < y
    <2>1. PICK p \in F : x = Number(LineAt(hunks, p), side) /\ x # Null
      BY <1>2 DEF NumbersOf
    <2>2. PICK q \in G : y = Number(LineAt(hunks, q), side) /\ y # Null
      BY <1>2 DEF NumbersOf
    <2>3. QED BY <2>1, <2>2, NumbersGrow
  <1>3. ASSUME NEW side \in {"old", "new"}
        PROVE  LET span(S) == IF S = {} THEN {} ELSE Min(S) .. Max(S)
               IN  span(NumbersOf(s, side)) \cap span(NumbersOf(t, side)) = {}
    <2> DEFINE A == NumbersOf(s, side)
               B == NumbersOf(t, side)
    <2>1. A \in SUBSET Nat /\ IsFiniteSet(A) /\ B \in SUBSET Nat /\ IsFiniteSet(B)
      BY <1>1
    <2>2. \A x \in A, y \in B : x < y
      BY <1>2
    <2> HIDE DEF A, B
    <2>3. (IF A = {} THEN {} ELSE Min(A) .. Max(A)) \cap (IF B = {} THEN {} ELSE Min(B) .. Max(B)) = {}
      BY <2>1, <2>2, SpansDisjoint
    <2>4. QED BY <2>3 DEF A, B
  <1>4. QED BY <1>3, LineRangeSpans DEF DoNotMeet

-----------------------------------------------------------------------------
(* Boxing                                                                  *)

\* B has the groups of the first k hunks.
IsBoxing(B, hunks, capacity, n) ==
    /\ B = [k \in 0 .. n |-> B[k]]
    /\ B[0] = <<>>
    /\ \A k \in 1 .. n : B[k] = Boxed(B[k - 1], hunks[k], capacity)

\* There is such a function, and BoxHunks is its last value.
LEMMA BoxingSteps ==
  ASSUME NEW hunks, NEW capacity, Len(hunks) \in Nat
  PROVE  \E B : IsBoxing(B, hunks, capacity, Len(hunks)) /\ BoxHunks(hunks, capacity) = B[Len(hunks)]
  <1> DEFINE n == Len(hunks)
             P == {k \in 0 .. n : \E B : IsBoxing(B, hunks, capacity, k)}
  <1>2. 0 \in P
    <2>1. IsBoxing([k \in 0 .. 0 |-> <<>>], hunks, capacity, 0)
      BY DEF IsBoxing
    <2>2. QED BY <2>1
  <1>3. ASSUME NEW k \in 0 .. n - 1, k \in P PROVE k + 1 \in P
    <2>1. PICK B : IsBoxing(B, hunks, capacity, k)
      BY <1>3
    <2> DEFINE new == Boxed(B[k], hunks[k + 1], capacity)
               G == [j \in 0 .. k + 1 |-> IF j = k + 1 THEN new ELSE B[j]]
    <2>2. k \in Nat /\ k + 1 \in 0 .. n /\ k \in 0 .. k + 1 /\ (k + 1) - 1 = k
      BY <1>3
    <2> HIDE DEF new
    <2>3. G[0] = <<>> /\ G = [j \in 0 .. k + 1 |-> G[j]] /\ G[k + 1] = new /\ \A j \in 0 .. k : G[j] = B[j]
      BY <2>1, <2>2 DEF IsBoxing
    <2> HIDE DEF G
    <2>4. \A j \in 1 .. k + 1 : G[j] = Boxed(G[j - 1], hunks[j], capacity)
      <3> TAKE j \in 1 .. k + 1
      <3>1. CASE j = k + 1
        <4>1. j - 1 = k /\ k \in 0 .. k
          BY <2>2, <3>1
        <4>2. QED BY <2>3, <3>1, <4>1 DEF new
      <3>2. CASE j # k + 1
        <4>1. j \in 1 .. k /\ j \in 0 .. k /\ j - 1 \in 0 .. k
          BY <2>2, <3>2
        <4>2. QED BY <2>1, <2>3, <4>1 DEF IsBoxing
      <3>3. QED BY <3>1, <3>2
    <2>5. IsBoxing(G, hunks, capacity, k + 1)
      BY <2>3, <2>4 DEF IsBoxing
    <2>6. QED BY <2>2, <2>5
  <1>4. n \in P
    <2> HIDE DEF P, n
    <2>1. n \in Nat
      BY DEF n
    <2>2. n \in 0 .. n
      BY <2>1
    <2>3. QED BY <1>2, <1>3, <2>1, <2>2, UpTo
  <1>5. PICK B : IsBoxing(B, hunks, capacity, n)
    BY <1>4
  <1> DEFINE Picks(b) == b = [k \in 0 .. n |->
                 IF k = 0 THEN <<>> ELSE Boxed(b[k - 1], hunks[k], capacity)]
  <1>6. Picks(B)
    <2>1. \A k \in 0 .. n : B[k] = IF k = 0 THEN <<>> ELSE Boxed(B[k - 1], hunks[k], capacity)
      BY <1>5 DEF IsBoxing
    <2>2. QED BY <1>5, <2>1 DEF IsBoxing
  <1>7. ASSUME NEW b, Picks(b) PROVE b[n] = B[n]
    <2> DEFINE Q == {k \in 0 .. n : b[k] = B[k]}
    <2>1. \A k \in 0 .. n : b[k] = IF k = 0 THEN <<>> ELSE Boxed(b[k - 1], hunks[k], capacity)
      <3>1. \A k \in 0 .. n : [j \in 0 .. n |->
               IF j = 0 THEN <<>> ELSE Boxed(b[j - 1], hunks[j], capacity)][k]
                  = IF k = 0 THEN <<>> ELSE Boxed(b[k - 1], hunks[k], capacity)
        OBVIOUS
      <3>2. QED BY <1>7, <3>1
    <2> HIDE DEF n
    <2>0. n \in Nat
      BY DEF n
    <2>2. 0 \in Q
      BY <1>5, <2>0, <2>1 DEF IsBoxing
    <2>3. ASSUME NEW k \in 0 .. n - 1, k \in Q PROVE k + 1 \in Q
      <3>1. k + 1 \in 0 .. n /\ k + 1 \in 1 .. n /\ k + 1 # 0 /\ (k + 1) - 1 = k
        BY <2>0
      <3>2. b[k + 1] = Boxed(b[(k + 1) - 1], hunks[k + 1], capacity)
        BY <2>1, <3>1
      <3>3. B[k + 1] = Boxed(B[(k + 1) - 1], hunks[k + 1], capacity)
        BY <1>5, <3>1 DEF IsBoxing
      <3>4. b[k] = B[k]
        BY <2>3
      <3>5. QED BY <3>1, <3>2, <3>3, <3>4
    <2>4. n \in Q
      <3> HIDE DEF Q
      <3>1. n \in 0 .. n
        BY <2>0
      <3>2. QED BY <2>0, <2>2, <2>3, <3>1, UpTo
    <2>5. QED BY <2>4
  <1>8. BoxHunks(hunks, capacity) = (CHOOSE b : Picks(b))[n]
    BY DEF BoxHunks
  <1> HIDE DEF Picks, n
  <1>9. Picks(CHOOSE b : Picks(b))
    BY <1>6
  <1>10. BoxHunks(hunks, capacity) = B[n]
    BY <1>7, <1>8, <1>9
  <1>11. QED BY <1>5, <1>10 DEF n

\* One element more.
LEMMA AppendFacts ==
  ASSUME NEW s, IsSeq(s), NEW x
  PROVE  LET t == Append(s, x)
         IN  /\ IsSeq(t) /\ t # <<>> /\ Len(t) = Len(s) + 1
             /\ \A i \in DOMAIN s : t[i] = s[i]
             /\ t[Len(s) + 1] = x
             /\ ToSet(t) = ToSet(s) \cup {x}
  <1> DEFINE T == ToSet(s) \cup {x}
             t == Append(s, x)
  <1>1. Len(s) \in Nat /\ DOMAIN s = 1 .. Len(s)
    BY SeqFacts
  <1>2. s \in Seq(T)
    <2> DEFINE S == ToSet(s)
    <2>1. s \in Seq(S) /\ S \subseteq T
      BY DEF IsSeq
    <2> HIDE DEF S, T
    <2>2. QED BY <2>1
  <1> DEFINE U == T
  <1>3. x \in U
    OBVIOUS
  <1> HIDE DEF U
  <1>4. s \in Seq(U)
    BY <1>2 DEF U
  <1>5. t \in Seq(U) /\ Len(t) = Len(s) + 1 /\ t # <<>>
    <2>1. t \in Seq(U)
      BY <1>3, <1>4
    <2>2. Len(t) = Len(s) + 1
      BY <1>3, <1>4
    <2>3. Len(t) # 0
      BY <1>1, <2>2
    <2> HIDE DEF t
    <2>4. t # <<>>
      BY <2>3
    <2>5. QED BY <2>1, <2>2, <2>4
  <1>6. (\A i \in 1 .. Len(s) : t[i] = s[i]) /\ t[Len(s) + 1] = x
    BY <1>3, <1>4
  <1>7. DOMAIN t = 1 .. Len(s) + 1
    BY <1>5
  <1>8. ToSet(t) = ToSet(s) \cup {x}
    <2> HIDE DEF t
    <2>1. \A y \in ToSet(t) : y \in ToSet(s) \cup {x}
      BY <1>1, <1>6, <1>7 DEF ToSet
    <2>2. \A i \in 1 .. Len(s) : i \in 1 .. Len(s) + 1 /\ Len(s) + 1 \in 1 .. Len(s) + 1
      BY <1>1
    <2>3. Len(s) + 1 \in 1 .. Len(s) + 1
      BY <1>1
    <2>4. \A y \in ToSet(s) \cup {x} : y \in ToSet(t)
      BY <1>1, <1>6, <1>7, <2>2, <2>3 DEF ToSet
    <2>5. QED BY <2>1, <2>4
  <1>9. IsSeq(t)
    <2> HIDE DEF t
    <2>1. QED BY <1>5, SeqIsSeq
  <1> HIDE DEF t
  <1>10. QED BY <1>1, <1>5, <1>6, <1>8, <1>9 DEF t

\* One element less.
LEMMA FrontFacts ==
  ASSUME NEW s, IsSeq(s), s # <<>>
  PROVE  /\ IsSeq(Front(s)) /\ Len(Front(s)) = Len(s) - 1 /\ Len(s) \in Nat \ {0}
         /\ \A i \in 1 .. Len(s) - 1 : Front(s)[i] = s[i]
         /\ Last(s) = s[Len(s)]
  <1> DEFINE S == ToSet(s)
  <1>1. Len(s) \in Nat \ {0} /\ s \in Seq(S)
    BY SeqFacts DEF IsSeq
  <1> HIDE DEF S
  <1>2. /\ SubSeq(s, 1, Len(s) - 1) \in Seq(S) /\ Len(SubSeq(s, 1, Len(s) - 1)) = Len(s) - 1
        /\ \A i \in 1 .. Len(s) - 1 : SubSeq(s, 1, Len(s) - 1)[i] = s[i]
    <2> DEFINE f == SubSeq(s, 1, Len(s) - 1)
    <2>1. f \in Seq(S) /\ Len(f) = Len(s) - 1
      <3>1. 1 \in Int /\ Len(s) - 1 \in Nat /\ Len(s) - 1 <= Len(s)
        BY <1>1
      <3> DEFINE n == Len(s) - 1
      <3>2. \A i \in 1 .. n : s[i] \in S
        <4>1. \A i \in 1 .. n : i \in 1 .. Len(s)
          BY <1>1
        <4>2. QED BY <1>1, <4>1
      <3> HIDE DEF n
      <3>3. n \in Nat
        BY <3>1 DEF n
      <3>4. SubSeq(s, 1, n) \in Seq(S) /\ Len(SubSeq(s, 1, n)) = IF 1 <= n THEN n - 1 + 1 ELSE 0
        BY <3>2, <3>3, SubSeqProperties
      <3>5. (IF 1 <= n THEN n - 1 + 1 ELSE 0) = n
        BY <3>3
      <3>6. QED BY <3>4, <3>5 DEF n
    <2>2. ASSUME NEW i \in 1 .. Len(s) - 1 PROVE f[i] = s[i]
      <3>1. f[i] = s[1 + i - 1]
        BY <1>1, SubSeqProperties
      <3>2. 1 + i - 1 = i
        BY <1>1
      <3>3. QED BY <3>1, <3>2
    <2>3. QED BY <2>1, <2>2
  <1>3. QED BY <1>1, <1>2, SeqIsSeq DEF Front, Last

\* The first k hunks lie in groups that follow one another: the i-th in the group
\* row[i].
Groups(row, groups, hunks, k) ==
    /\ IsSeq(groups) /\ \A g \in DOMAIN groups : IsSeq(groups[g]) /\ groups[g] # <<>>
    /\ \A i \in 1 .. k : row[i] \in DOMAIN groups
    /\ \A i, j \in 1 .. k : i < j => row[i] <= row[j]
    /\ \A g \in DOMAIN groups :
          /\ ToSet(groups[g]) = {hunks[i] : i \in {m \in 1 .. k : row[m] = g}}
          /\ Len(groups[g]) = 1 => \A i, j \in 1 .. k : row[i] = g /\ row[j] = g => i = j

\* One more hunk leaves the groups as they must be.
LEMMA BoxedGroups ==
  ASSUME NEW row, NEW groups, NEW hunks, NEW k \in Nat, NEW capacity,
         Groups(row, groups, hunks, k)
  PROVE  \E r : Groups(r, Boxed(groups, hunks[k + 1], capacity), hunks, k + 1)
  <1> DEFINE h == hunks[k + 1]
             n == Len(groups)
             new == Boxed(groups, h, capacity)
  <1>1. n \in Nat /\ DOMAIN groups = 1 .. n /\ (groups # <<>> => n # 0)
    BY SeqFacts DEF Groups
  <1>2. \A i \in 1 .. k : row[i] \in 1 .. n /\ row[i] \in Nat
    BY <1>1 DEF Groups
  <1> DEFINE r(m) == [i \in 1 .. k + 1 |-> IF i = k + 1 THEN m ELSE row[i]]
  <1>3. \A m : r(m)[k + 1] = m /\ \A i \in 1 .. k : r(m)[i] = row[i]
    OBVIOUS
  <1>4. /\ \A i \in 1 .. k + 1 : i = k + 1 \/ i \in 1 .. k
        /\ k + 1 \in 1 .. k + 1 /\ \A i \in 1 .. k : i \in 1 .. k + 1 /\ i # k + 1 /\ i < k + 1 /\ ~(k + 1 < i)
        /\ ~(k + 1 < k + 1)
    OBVIOUS
  <1>5. ASSUME NEW m \in Nat, \A i \in 1 .. k : row[i] <= m
        PROVE  \A i, j \in 1 .. k + 1 : i < j => r(m)[i] <= r(m)[j]
    <2> TAKE i, j \in 1 .. k + 1
    <2> HAVE i < j
    <2>1. i \in 1 .. k
      OBVIOUS
    <2> HIDE DEF r
    <2>2. CASE j = k + 1
      BY <1>3, <1>5, <2>1, <2>2
    <2>3. CASE j \in 1 .. k
      <3>1. row[i] <= row[j]
        BY <2>1, <2>3 DEF Groups
      <3>2. QED BY <1>3, <2>1, <2>3, <3>1
    <2>4. QED BY <1>4, <2>2, <2>3
  <1> HIDE DEF r, h
  <1>6. CASE new = Append(groups, <<h>>)
    <2>1. /\ IsSeq(new) /\ Len(new) = n + 1 /\ \A g \in 1 .. n : new[g] = groups[g]
          /\ new[n + 1] = <<h>>
      <3> HIDE DEF new
      <3>1. QED BY <1>1, <1>6, AppendFacts DEF Groups
    <2>2. DOMAIN new = 1 .. n + 1
      <3> HIDE DEF new
      <3>1. QED BY <2>1, SeqFacts
    <2>3. IsSeq(<<h>>) /\ <<h>> # <<>> /\ Len(<<h>>) = 1 /\ ToSet(<<h>>) = {h}
      <3>1. <<h>> \in Seq({h}) /\ DOMAIN <<h>> = {1} /\ <<h>>[1] = h
        OBVIOUS
      <3>2. ToSet(<<h>>) = {h}
        BY <3>1 DEF ToSet
      <3>3. QED BY <3>1, <3>2, SeqIsSeq
    <2> HIDE DEF new, n
    <2>4. \A i \in 1 .. k : row[i] <= n + 1 /\ row[i] # n + 1
      BY <1>1, <1>2
    <2>5. \A i, j \in 1 .. k + 1 : i < j => r(n + 1)[i] <= r(n + 1)[j]
      BY <1>1, <1>5, <2>4
    <2>6. \A i \in 1 .. k + 1 : r(n + 1)[i] \in 1 .. n + 1
      BY <1>1, <1>2, <1>3, <1>4
    <2>7. \A g \in 1 .. n + 1 : g \in 1 .. n \/ g = n + 1
      BY <1>1
    <2>8. \A g \in 1 .. n : g # n + 1
      BY <1>1
    <2>9. \A g \in 1 .. n + 1 : IsSeq(new[g]) /\ new[g] # <<>>
      BY <1>1, <2>1, <2>3, <2>7 DEF Groups
    <2>10. ASSUME NEW g \in 1 .. n + 1
           PROVE  /\ ToSet(new[g]) = {hunks[i] : i \in {m \in 1 .. k + 1 : r(n + 1)[m] = g}}
                  /\ Len(new[g]) = 1 =>
                        \A i, j \in 1 .. k + 1 : r(n + 1)[i] = g /\ r(n + 1)[j] = g => i = j
      <3>1. CASE g = n + 1
        <4>1. {m \in 1 .. k + 1 : r(n + 1)[m] = g} = {k + 1}
          BY <1>3, <1>4, <2>4, <3>1
        <4>2. QED BY <2>1, <2>3, <3>1, <4>1 DEF h
      <3>2. CASE g \in 1 .. n
        <4>1. {m \in 1 .. k + 1 : r(n + 1)[m] = g} = {m \in 1 .. k : row[m] = g}
          BY <1>3, <1>4, <2>8, <3>2
        <4>2. ToSet(groups[g]) = {hunks[i] : i \in {m \in 1 .. k : row[m] = g}}
          BY <1>1, <3>2 DEF Groups
        <4>3. Len(groups[g]) = 1 => \A i, j \in 1 .. k : row[i] = g /\ row[j] = g => i = j
          BY <1>1, <3>2 DEF Groups
        <4>4. new[g] = groups[g]
          BY <2>1, <3>2
        <4>5. \A i \in 1 .. k + 1 : r(n + 1)[i] = g => i \in 1 .. k /\ row[i] = g
          BY <4>1
        <4>6. Len(new[g]) = 1 => \A i, j \in 1 .. k + 1 : r(n + 1)[i] = g /\ r(n + 1)[j] = g => i = j
          BY <4>3, <4>4, <4>5
        <4>7. QED BY <4>1, <4>2, <4>4, <4>6
      <3>3. QED BY <2>7, <3>1, <3>2
    <2>11. Groups(r(n + 1), new, hunks, k + 1)
      BY <2>1, <2>2, <2>5, <2>6, <2>9, <2>10 DEF Groups
    <2>12. QED BY <2>11 DEF new, h
  <1>7. CASE groups # <<>> /\ new = Append(Front(groups), Append(Last(groups), h))
    <2> DEFINE last == Append(groups[n], h)
    <2>1. /\ IsSeq(Front(groups)) /\ Len(Front(groups)) = n - 1 /\ n \in Nat \ {0}
          /\ \A g \in 1 .. n - 1 : Front(groups)[g] = groups[g]
          /\ Last(groups) = groups[n]
      BY <1>7, FrontFacts DEF Groups
    <2>2. n \in 1 .. n /\ IsSeq(groups[n]) /\ groups[n] # <<>>
      BY <1>1, <2>1 DEF Groups
    <2>3. /\ IsSeq(last) /\ last # <<>> /\ Len(last) = Len(groups[n]) + 1
          /\ ToSet(last) = ToSet(groups[n]) \cup {h} /\ Len(groups[n]) \in Nat \ {0}
      BY <2>2, AppendFacts, SeqFacts
    <2>4. Len(last) # 1
      <3> HIDE DEF last
      <3>1. QED BY <2>3
    <2>5. new = Append(Front(groups), last)
      BY <1>7, <2>1
    <2> HIDE DEF new, last
    <2>6. /\ IsSeq(new) /\ Len(new) = (n - 1) + 1 /\ new[(n - 1) + 1] = last
          /\ \A g \in DOMAIN Front(groups) : new[g] = Front(groups)[g]
      BY <2>1, <2>5, AppendFacts
    <2>7. (n - 1) + 1 = n
      BY <2>1
    <2>8. DOMAIN Front(groups) = 1 .. n - 1
      BY <2>1, SeqFacts
    <2>9. IsSeq(new) /\ Len(new) = n /\ new[n] = last /\ \A g \in 1 .. n - 1 : new[g] = groups[g]
      BY <2>1, <2>6, <2>7, <2>8
    <2>10. DOMAIN new = 1 .. n
      BY <2>9, SeqFacts
    <2> HIDE DEF n
    <2>11. \A i \in 1 .. k : row[i] <= n
      BY <1>1, <1>2
    <2>12. \A i, j \in 1 .. k + 1 : i < j => r(n)[i] <= r(n)[j]
      BY <1>1, <1>5, <2>11
    <2>13. \A i \in 1 .. k + 1 : r(n)[i] \in 1 .. n
      BY <1>2, <1>3, <1>4, <2>2
    <2>14. \A g \in 1 .. n : g \in 1 .. n - 1 \/ g = n
      BY <1>1
    <2>15. \A g \in 1 .. n - 1 : g # n /\ g \in 1 .. n
      BY <1>1
    <2>16. \A g \in 1 .. n : IsSeq(new[g]) /\ new[g] # <<>>
      BY <1>1, <2>3, <2>9, <2>14 DEF Groups
    <2>17. ASSUME NEW g \in 1 .. n
           PROVE  /\ ToSet(new[g]) = {hunks[i] : i \in {m \in 1 .. k + 1 : r(n)[m] = g}}
                  /\ Len(new[g]) = 1 =>
                        \A i, j \in 1 .. k + 1 : r(n)[i] = g /\ r(n)[j] = g => i = j
      <3>0. ToSet(groups[g]) = {hunks[i] : i \in {m \in 1 .. k : row[m] = g}}
        BY <1>1 DEF Groups
      <3>1. CASE g = n
        <4>1. {m \in 1 .. k + 1 : r(n)[m] = g} = {m \in 1 .. k : row[m] = g} \cup {k + 1}
          BY <1>3, <1>4, <3>1
        <4>2. ToSet(new[g]) = {hunks[i] : i \in {m \in 1 .. k + 1 : r(n)[m] = g}}
          BY <2>3, <2>9, <3>0, <3>1, <4>1 DEF h
        <4>3. QED BY <2>4, <2>9, <3>1, <4>2
      <3>2. CASE g \in 1 .. n - 1
        <4>1. {m \in 1 .. k + 1 : r(n)[m] = g} = {m \in 1 .. k : row[m] = g}
          BY <1>3, <1>4, <2>15, <3>2
        <4>3. Len(groups[g]) = 1 => \A i, j \in 1 .. k : row[i] = g /\ row[j] = g => i = j
          BY <1>1 DEF Groups
        <4>4. new[g] = groups[g]
          BY <2>9, <3>2
        <4>5. \A i \in 1 .. k + 1 : r(n)[i] = g => i \in 1 .. k /\ row[i] = g
          BY <4>1
        <4>6. Len(new[g]) = 1 => \A i, j \in 1 .. k + 1 : r(n)[i] = g /\ r(n)[j] = g => i = j
          BY <4>3, <4>4, <4>5
        <4>7. QED BY <3>0, <4>1, <4>4, <4>6
      <3>3. QED BY <2>14, <3>1, <3>2
    <2>18. Groups(r(n), new, hunks, k + 1)
      BY <2>9, <2>10, <2>12, <2>13, <2>16, <2>17 DEF Groups
    <2>19. QED BY <2>18 DEF new, h
  <1>8. QED BY <1>6, <1>7 DEF Boxed

\* The boxing puts every hunk into one group.
LEMMA BoxingGroups ==
  ASSUME NEW hunks, IsSeq(hunks), NEW capacity
  PROVE  \E row : Groups(row, BoxHunks(hunks, capacity), hunks, Len(hunks))
  <1> DEFINE n == Len(hunks)
  <1>1. n \in Nat
    BY SeqFacts
  <1>2. PICK B : IsBoxing(B, hunks, capacity, n) /\ BoxHunks(hunks, capacity) = B[n]
    BY <1>1, BoxingSteps
  <1> DEFINE P == {k \in 0 .. n : \E row : Groups(row, B[k], hunks, k)}
  <1> HIDE DEF n
  <1>3. 0 \in P
    <2>1. IsSeq(<<>>) /\ DOMAIN <<>> = {}
      <3>1. <<>> \in Seq({})
        OBVIOUS
      <3>2. IsSeq(<<>>)
        BY <3>1, SeqIsSeq
      <3>3. DOMAIN <<>> = {}
        OBVIOUS
      <3>4. QED BY <3>2, <3>3
    <2>2. Groups(<<>>, <<>>, hunks, 0)
      BY <2>1 DEF Groups
    <2>3. B[0] = <<>>
      BY <1>2 DEF IsBoxing
    <2>4. QED BY <1>1, <2>2, <2>3
  <1>4. ASSUME NEW k \in 0 .. n - 1, k \in P PROVE k + 1 \in P
    <2>1. k \in Nat /\ k + 1 \in 1 .. n /\ k + 1 \in 0 .. n /\ (k + 1) - 1 = k
      BY <1>1
    <2>2. PICK row : Groups(row, B[k], hunks, k)
      BY <1>4
    <2>3. B[k + 1] = Boxed(B[(k + 1) - 1], hunks[k + 1], capacity)
      BY <1>2, <2>1 DEF IsBoxing
    <2>4. \E r : Groups(r, B[k + 1], hunks, k + 1)
      BY <2>1, <2>2, <2>3, BoxedGroups
    <2>5. QED BY <2>1, <2>4
  <1>5. n \in P
    <2> HIDE DEF P
    <2>1. n \in 0 .. n
      BY <1>1
    <2>2. QED BY <1>1, <1>3, <1>4, <2>1, UpTo
  <1>6. QED BY <1>2, <1>5 DEF n

-----------------------------------------------------------------------------
(* The parts of a file                                                     *)

\* A hunk that has lines is unlike every other hunk of its file.
LEMMA HunksDiffer ==
  ASSUME NEW hunks, FileHunks(hunks), NEW i \in DOMAIN hunks, NEW k \in DOMAIN hunks,
         i # k, hunks[i].lines # <<>>
  PROVE  hunks[i] # hunks[k]
  <1> SUFFICES ASSUME hunks[i] = hunks[k] PROVE FALSE
    OBVIOUS
  <1> DEFINE h == hunks[i]
  <1>1. h \in HunkType /\ GoodHunk(h) /\ Complete(h)
    BY DEF FileHunks, GoodHunks
  <1>2. Len(hunks) \in Nat /\ DOMAIN hunks = 1 .. Len(hunks)
    BY DEF FileHunks
  <1>3. PICK side \in {"old", "new"} : 1 \in OnSide(h, side)
    <2>1. h.lines \in Seq(LineType)
      BY <1>1, HunkFields
    <2>2. 1 \in DOMAIN h.lines
      BY <2>1
    <2> DEFINE l == h.lines[1]
    <2>3. l.type \in DOMAIN Sides
      <3>1. l \in LineType
        BY <2>1, <2>2
      <3> HIDE DEF l
      <3>2. QED BY <3>1 DEF LineType
    <2>4. "old" \in Sides[h.lines[1].type] \/ "new" \in Sides[h.lines[1].type]
      BY <2>3, SideFacts
    <2>5. QED BY <2>2, <2>4 DEF OnSide
  <1> DEFINE a == StartOf(h, side)
             b == CountOf(h, side)
             x == Number(h.lines[1], side)
  <1>4. a \in Nat /\ b \in Nat /\ x \in Nat /\ a <= x /\ x < a + b
    BY <1>1, <1>3, HunkNumbers
  <1>5. ~(a >= a + b)
    <2> HIDE DEF a, b, x
    <2>1. QED BY <1>4
  <1>6. i < k => a >= a + b
    BY HunksFollow
  <1>7. k < i => a >= a + b
    BY HunksFollow
  <1>8. i < k \/ k < i
    BY <1>2
  <1>9. QED BY <1>5, <1>6, <1>7, <1>8

\* What a unit names a line by.
LineId(hunks, p) == [hunk |-> hunks[p[1]], at |-> p[2]]

\* Two lines of a file that are named alike are one.
LEMMA LineIdsDiffer ==
  ASSUME NEW hunks, FileHunks(hunks), NEW p \in LinePlaces(hunks), NEW q \in LinePlaces(hunks),
         LineId(hunks, p) = LineId(hunks, q)
  PROVE  p = q
  <1>1. /\ p = <<p[1], p[2]>> /\ p[1] \in DOMAIN hunks /\ p[2] \in DOMAIN hunks[p[1]].lines
        /\ q = <<q[1], q[2]>> /\ q[1] \in DOMAIN hunks /\ q[2] \in DOMAIN hunks[q[1]].lines
    BY LinePlace
  <1>2. hunks[p[1]] = hunks[q[1]] /\ p[2] = q[2]
    <2>1. LineId(hunks, p).hunk = hunks[p[1]] /\ LineId(hunks, p).at = p[2]
      BY DEF LineId
    <2>2. LineId(hunks, q).hunk = hunks[q[1]] /\ LineId(hunks, q).at = q[2]
      BY DEF LineId
    <2>3. QED BY <2>1, <2>2
  <1>3. hunks[p[1]].lines # <<>>
    BY <1>1
  <1>4. p[1] = q[1]
    BY <1>1, <1>2, <1>3, HunksDiffer
  <1>5. QED BY <1>1, <1>2, <1>4

\* No place comes before itself, and of two places one comes before the other.
LEMMA PlacesOrdered ==
  ASSUME NEW hunks, FileHunks(hunks), NEW p \in LinePlaces(hunks), NEW q \in LinePlaces(hunks)
  PROVE  Comes(p, q) => p # q /\ ~Comes(q, p)
  <1>1. /\ p[1] \in DOMAIN hunks /\ p[2] \in DOMAIN hunks[p[1]].lines
        /\ q[1] \in DOMAIN hunks /\ q[2] \in DOMAIN hunks[q[1]].lines
    BY LinePlace
  <1>2. hunks[p[1]] \in HunkType /\ hunks[q[1]] \in HunkType
    BY <1>1 DEF FileHunks
  <1>3. DOMAIN hunks = 1 .. Len(hunks) /\ Len(hunks) \in Nat
    BY DEF FileHunks
  <1>4. p[1] \in Nat /\ q[1] \in Nat
    BY <1>1, <1>3
  <1>5. p[2] \in Nat /\ q[2] \in Nat
    <2>1. p[2] \in 1 .. Len(hunks[p[1]].lines) /\ Len(hunks[p[1]].lines) \in Nat
      BY <1>1, <1>2, HunkFields
    <2>2. q[2] \in 1 .. Len(hunks[q[1]].lines) /\ Len(hunks[q[1]].lines) \in Nat
      BY <1>1, <1>2, HunkFields
    <2>3. QED BY <2>1, <2>2
  <1>6. QED BY <1>4, <1>5 DEF Comes, Earlier

\* The places of the lines of the hunks in I.
PlacesIn(hunks, I) == {p \in LinePlaces(hunks) : p[1] \in I}

\* The lines of a group of hunks.
LEMMA GroupLines ==
  ASSUME NEW hunks, FileHunks(hunks), NEW I \in SUBSET DOMAIN hunks,
         NEW group, IsSeq(group), ToSet(group) = {hunks[i] : i \in I}
  PROVE  /\ IsSeq(HunkLines(group))
         /\ ToSet(HunkLines(group)) = {LineAt(hunks, p) : p \in PlacesIn(hunks, I)}
         /\ IsSeq(LinesOf(group))
         /\ ToSet(LinesOf(group)) = {LineId(hunks, p) : p \in PlacesIn(hunks, I)}
  <1> DEFINE n == Len(group)
             L == [k \in DOMAIN group |-> group[k].lines]
             ids(h) == [j \in DOMAIN h.lines |-> [hunk |-> h, at |-> j]]
             U == [k \in DOMAIN group |-> ids(group[k])]
  <1>1. n \in Nat /\ DOMAIN group = 1 .. n
    BY SeqFacts
  <1>2. \A k \in DOMAIN group : \E i \in I : group[k] = hunks[i]
    <2>1. \A k \in DOMAIN group : group[k] \in ToSet(group)
      BY DEF ToSet
    <2>2. QED BY <2>1
  <1>3. \A i \in I : \E k \in DOMAIN group : group[k] = hunks[i]
    <2>1. \A i \in I : hunks[i] \in ToSet(group)
      OBVIOUS
    <2>2. QED BY <2>1 DEF ToSet
  <1>4. \A i \in I : hunks[i] \in HunkType
    BY DEF FileHunks
  <1>5. \A h \in HunkType : h.lines \in Seq(LineType) /\ DOMAIN h.lines = 1 .. Len(h.lines) /\ Len(h.lines) \in Nat
    BY HunkFields
  <1>6. \A h \in HunkType : IsSeq(h.lines) /\ IsSeq(ids(h)) /\ DOMAIN ids(h) = DOMAIN h.lines
    <2> TAKE h \in HunkType
    <2>1. IsSeq(h.lines)
      BY <1>5, SeqIsSeq
    <2> DEFINE s == ids(h)
               m == Len(h.lines)
    <2>2. s = [j \in 1 .. m |-> s[j]] /\ m \in Nat
      BY <1>5
    <2> HIDE DEF s, m
    <2>3. IsSeq(s)
      BY <2>2, FunctionIsSeq
    <2>4. QED BY <2>1, <2>3 DEF s
  <1>7. DOMAIN L = DOMAIN group /\ DOMAIN U = DOMAIN group /\ IsSeq(L) /\ IsSeq(U)
    <2>1. L = [k \in 1 .. n |-> L[k]] /\ U = [k \in 1 .. n |-> U[k]]
      BY <1>1
    <2> HIDE DEF n, L, U
    <2>2. QED BY <1>1, <2>1, FunctionIsSeq
  <1>8. \A k \in DOMAIN group : L[k] = group[k].lines /\ U[k] = ids(group[k])
    OBVIOUS
  <1>9. HunkLines(group) = FlattenSeq(L) /\ LinesOf(group) = FlattenSeq(U)
    BY DEF HunkLines, LinesOf
  <1>10. \A h : \A j \in DOMAIN h.lines : ids(h)[j] = [hunk |-> h, at |-> j]
    OBVIOUS
  <1> HIDE DEF L, U, n, ids
  <1>11. /\ IsSeq(HunkLines(group)) /\ IsSeq(LinesOf(group))
         /\ ToSet(HunkLines(group)) = UNION {ToSet(L[k]) : k \in DOMAIN L}
         /\ ToSet(LinesOf(group)) = UNION {ToSet(U[k]) : k \in DOMAIN U}
    <2>1. \A k \in DOMAIN group : IsSeq(L[k]) /\ IsSeq(U[k])
      BY <1>2, <1>4, <1>6, <1>8
    <2>2. QED BY <1>7, <1>9, <2>1, FlattenSequences
  <1>12. ASSUME NEW x \in ToSet(HunkLines(group))
         PROVE  x \in {LineAt(hunks, p) : p \in PlacesIn(hunks, I)}
    <2>1. PICK k \in DOMAIN group : x \in ToSet(group[k].lines)
      BY <1>7, <1>8, <1>11
    <2>2. PICK i \in I : group[k] = hunks[i]
      BY <1>2
    <2>3. PICK j \in DOMAIN hunks[i].lines : x = hunks[i].lines[j]
      BY <2>1, <2>2 DEF ToSet
    <2> DEFINE p == <<i, j>>
    <2>4. p[1] = i /\ p[2] = j /\ p = <<p[1], p[2]>>
      OBVIOUS
    <2> HIDE DEF p
    <2>5. p \in PlacesIn(hunks, I)
      BY <2>4, LinePlace DEF PlacesIn
    <2>6. x = LineAt(hunks, p)
      BY <2>3, <2>4 DEF LineAt
    <2>7. QED BY <2>5, <2>6
  <1>13. ASSUME NEW p \in PlacesIn(hunks, I) PROVE LineAt(hunks, p) \in ToSet(HunkLines(group))
    <2>1. p[1] \in I /\ p[2] \in DOMAIN hunks[p[1]].lines
      BY LinePlace DEF PlacesIn
    <2>2. PICK k \in DOMAIN group : group[k] = hunks[p[1]]
      BY <1>3, <2>1
    <2>3. LineAt(hunks, p) \in ToSet(L[k])
      BY <1>8, <2>1, <2>2 DEF ToSet, LineAt
    <2>4. QED BY <1>7, <1>11, <2>3
  <1>14. ASSUME NEW x \in ToSet(LinesOf(group))
         PROVE  x \in {LineId(hunks, p) : p \in PlacesIn(hunks, I)}
    <2>1. PICK k \in DOMAIN group : x \in ToSet(ids(group[k]))
      BY <1>7, <1>8, <1>11
    <2>2. PICK i \in I : group[k] = hunks[i]
      BY <1>2
    <2>3. PICK j \in DOMAIN hunks[i].lines : x = [hunk |-> hunks[i], at |-> j]
      <3>1. PICK j \in DOMAIN ids(hunks[i]) : x = ids(hunks[i])[j]
        BY <2>1, <2>2 DEF ToSet
      <3>2. j \in DOMAIN hunks[i].lines
        BY <1>4, <1>6, <3>1
      <3>3. QED BY <1>10, <3>1, <3>2
    <2> DEFINE p == <<i, j>>
    <2>4. p[1] = i /\ p[2] = j /\ p = <<p[1], p[2]>>
      OBVIOUS
    <2> HIDE DEF p
    <2>5. p \in PlacesIn(hunks, I)
      BY <2>4, LinePlace DEF PlacesIn
    <2>6. x = LineId(hunks, p)
      BY <2>3, <2>4 DEF LineId
    <2>7. QED BY <2>5, <2>6
  <1>15. ASSUME NEW p \in PlacesIn(hunks, I) PROVE LineId(hunks, p) \in ToSet(LinesOf(group))
    <2>1. p[1] \in I /\ p[2] \in DOMAIN hunks[p[1]].lines
      BY LinePlace DEF PlacesIn
    <2>2. PICK k \in DOMAIN group : group[k] = hunks[p[1]]
      BY <1>3, <2>1
    <2>3. ids(hunks[p[1]])[p[2]] = LineId(hunks, p) /\ DOMAIN ids(hunks[p[1]]) = DOMAIN hunks[p[1]].lines
      BY <1>4, <1>6, <1>10, <2>1 DEF LineId
    <2>4. LineId(hunks, p) \in ToSet(U[k])
      BY <1>8, <2>1, <2>2, <2>3 DEF ToSet
    <2>5. QED BY <1>7, <1>11, <2>4
  <1>16. QED BY <1>11, <1>12, <1>13, <1>14, <1>15

\* A unit has the lines at the places F of its file.
UnitHas(c, u, F) ==
    u.file = FileId(c) /\ IsSeq(u.lines) /\ ToSet(u.lines) = {LineId(c.hunks, p) : p \in F}

\* A range is that of the lines at the places F.  A file has none.
RangeHas(c, scope, F) ==
    \/ scope.kind = "file" /\ scope.range = NoRange
    \/ \E lines : LinesAt(c.hunks, lines, F) /\ scope.range = LineRange(lines)

\* A part is about the places F of its file: it has the unit for them, or it
\* names the hunk that they are and has none.
PartHas(c, part, F) ==
    /\ F \subseteq LinePlaces(c.hunks)
    /\ part.scope.file = FileId(c) /\ part.scope.id[1] = FileId(c)
    /\ RangeHas(c, part.scope, F)
    /\ \/ /\ part.scope.disposition = "planned" /\ c.hunks # <<>>
          /\ part.units = <<part.units[1]>> /\ UnitHas(c, part.units[1], F)
       \/ /\ part.scope.disposition = "unreviewable" /\ part.units = <<>>
          /\ \E i \in DOMAIN c.hunks :
                /\ part.scope.id = <<FileId(c), "hunk_group", c.hunks[i]>>
                /\ F = PlacesIn(c.hunks, {i})
       \/ /\ part.scope.disposition # "planned" /\ part.units = <<>>
          /\ part.scope.kind = "file" /\ LinePlaces(c.hunks) = {}

\* Its identity names a hunk that it has, or the first text of a block that it has.
KeyNames(c, part, F) ==
    \/ /\ part.scope.id[2] = "hunk_group"
       /\ \E i \in DOMAIN c.hunks : /\ part.scope.id[3] = c.hunks[i]
                                    /\ PlacesIn(c.hunks, {i}) \subseteq F
    \/ /\ part.scope.id[2] = "line_block"
       /\ \E p \in F : /\ part.scope.id[3] = c.hunks[p[1]]
                       /\ part.scope.id[4][1] = LineAt(c.hunks, p).text

\* The parts have the places H between them, in their order.
PartsHave(c, parts, foot, H) ==
    /\ IsSeq(parts)
    /\ \A m \in DOMAIN parts : PartHas(c, parts[m], foot[m]) /\ foot[m] \subseteq H
    /\ \A m, n \in DOMAIN parts : m < n => \A p \in foot[m], q \in foot[n] : Comes(p, q)
    /\ \A p \in H : \E m \in DOMAIN parts : p \in foot[m]

KeysName(c, parts, foot) == \A m \in DOMAIN parts : KeyNames(c, parts[m], foot[m])

\* The places of an identity.
LEMMA IdFields ==
  ASSUME NEW a, NEW b, NEW d, IsSeq(d)
  PROVE  LET id == <<a, b>> \o d
         IN  /\ id[1] = a /\ id[2] = b
             /\ d # <<>> => id[3] = d[1]
             /\ Len(d) > 1 => id[4] = d[2]
  <1> DEFINE S == ToSet(d) \cup {a, b}
             T == ToSet(d)
  <1>1. d \in Seq(T) /\ T \subseteq S /\ Len(d) \in Nat /\ (d # <<>> => Len(d) # 0)
    BY SeqFacts DEF IsSeq
  <1>2. a \in S /\ b \in S
    OBVIOUS
  <1> HIDE DEF S, T
  <1>3. d \in Seq(S) /\ <<a, b>> \in Seq(S) /\ Len(<<a, b>>) = 2
    BY <1>1, <1>2
  <1> DEFINE ab == <<a, b>>
             id == ab \o d
  <1>4. ab[1] = a /\ ab[2] = b /\ Len(ab) = 2
    OBVIOUS
  <1> HIDE DEF ab
  <1>5. \A i \in 1 .. Len(ab) + Len(d) : id[i] = IF i <= Len(ab) THEN ab[i] ELSE d[i - Len(ab)]
    <2>1. ab \in Seq(S)
      BY <1>3 DEF ab
    <2>2. QED BY <1>3, <2>1, ConcatProperties
  <1> HIDE DEF id
  <1>6. /\ 1 \in 1 .. 2 + Len(d) /\ 2 \in 1 .. 2 + Len(d)
        /\ (d # <<>> => 3 \in 1 .. 2 + Len(d)) /\ (Len(d) > 1 => 4 \in 1 .. 2 + Len(d))
    BY <1>1
  <1>7. id[1] = a /\ id[2] = b
    BY <1>4, <1>5, <1>6
  <1>8. d # <<>> => id[3] = d[1]
    BY <1>4, <1>5, <1>6
  <1>9. Len(d) > 1 => id[4] = d[2]
    BY <1>4, <1>5, <1>6
  <1>10. QED BY <1>7, <1>8, <1>9 DEF id, ab

\* An identity with a digest of one element.
LEMMA TwoAndOne == ASSUME NEW a, NEW b, NEW h PROVE <<a, b>> \o <<h>> = <<a, b, h>>
  <1> DEFINE S == {a, b, h}
             ab == <<a, b>>
             s == <<h>>
             t == <<a, b, h>>
  <1>1. ab \in Seq(S) /\ s \in Seq(S) /\ t \in Seq(S)
    OBVIOUS
  <1>2. Len(ab) = 2 /\ Len(s) = 1 /\ Len(t) = 3
        /\ ab[1] = a /\ ab[2] = b /\ s[1] = h /\ t[1] = a /\ t[2] = b /\ t[3] = h
    OBVIOUS
  <1> HIDE DEF S, ab, s, t
  <1> DEFINE u == ab \o s
  <1>3. /\ u \in Seq(S) /\ Len(u) = Len(ab) + Len(s)
        /\ \A i \in 1 .. Len(ab) + Len(s) : u[i] = IF i <= Len(ab) THEN ab[i] ELSE s[i - Len(ab)]
    BY <1>1, ConcatProperties
  <1> HIDE DEF u
  <1>4. Len(u) = 3 /\ \A i \in 1 .. 3 : u[i] = IF i <= 2 THEN ab[i] ELSE s[i - 2]
    BY <1>2, <1>3
  <1>5. u[1] = a /\ u[2] = b /\ u[3] = h
    BY <1>2, <1>4
  <1>6. \A i \in 1 .. 3 : u[i] = t[i]
    BY <1>2, <1>5
  <1>7. u = t
    BY <1>1, <1>2, <1>3, <1>4, <1>6, SeqEqual
  <1>8. QED BY <1>7 DEF u, ab, s, t

\* The fields of a part.
PartIs(part, c, kind, digest, range, disposition, units) ==
    /\ part.scope.id = <<FileId(c), kind>> \o digest
    /\ part.scope.file = FileId(c) /\ part.scope.range = range
    /\ part.scope.kind = kind
    /\ part.scope.disposition = disposition /\ part.units = units
    /\ part.scope.id[1] = FileId(c) /\ part.scope.id[2] = kind
    /\ digest # <<>> => part.scope.id[3] = digest[1]
    /\ Len(digest) > 1 => part.scope.id[4] = digest[2]

\* The fields of a part.
LEMMA PartFields ==
  ASSUME NEW c, NEW kind, NEW digest, IsSeq(digest), NEW range, NEW disposition, NEW units
  PROVE  PartIs(Part(c, kind, digest, range, disposition, units),
                c, kind, digest, range, disposition, units)
  <1> DEFINE part == Part(c, kind, digest, range, disposition, units)
             id == <<FileId(c), kind>> \o digest
  <1>1. /\ part.scope.id = id
        /\ part.scope.file = FileId(c) /\ part.scope.range = range
        /\ part.scope.kind = kind
        /\ part.scope.disposition = disposition /\ part.units = units
    BY DEF Part
  <1>2. /\ id[1] = FileId(c) /\ id[2] = kind
        /\ digest # <<>> => id[3] = digest[1]
        /\ Len(digest) > 1 => id[4] = digest[2]
    BY IdFields
  <1> HIDE DEF id, part
  <1>3. PartIs(part, c, kind, digest, range, disposition, units)
    BY <1>1, <1>2 DEF id, PartIs
  <1>4. QED BY <1>3 DEF part

\* The part of a group.
LEMMA GroupPartHas ==
  ASSUME NEW c, FileHunks(c.hunks), NEW I \in SUBSET DOMAIN c.hunks,
         NEW group, IsSeq(group), group # <<>>, ToSet(group) = {c.hunks[i] : i \in I}
  PROVE  /\ PartHas(c, GroupPart(c, group), PlacesIn(c.hunks, I))
         /\ KeyNames(c, GroupPart(c, group), PlacesIn(c.hunks, I))
  <1> DEFINE F == PlacesIn(c.hunks, I)
             u == Unit(c, "hunk_group", LinesOf(group), EstimateText(HunkLines(group)))
             range == LineRange(HunkLines(group))
             part == GroupPart(c, group)
  <1>1. /\ IsSeq(HunkLines(group)) /\ ToSet(HunkLines(group)) = {LineAt(c.hunks, p) : p \in F}
        /\ IsSeq(LinesOf(group)) /\ ToSet(LinesOf(group)) = {LineId(c.hunks, p) : p \in F}
    BY GroupLines
  <1>2. part = Part(c, "hunk_group", group, range, "planned", <<u>>)
    BY DEF GroupPart
  <1>3. u.file = FileId(c) /\ u.lines = LinesOf(group)
    BY DEF Unit
  <1> HIDE DEF u, F, part, range
  <1>4. /\ part.scope.file = FileId(c) /\ part.scope.range = range
        /\ part.scope.disposition = "planned" /\ part.units = <<u>>
        /\ part.scope.id[1] = FileId(c) /\ part.scope.id[2] = "hunk_group"
        /\ part.scope.id[3] = group[1]
    <2>1. PartIs(part, c, "hunk_group", group, range, "planned", <<u>>)
      BY <1>2, PartFields
    <2>2. QED BY <2>1 DEF PartIs
  <1>5. PICK i \in I : group[1] = c.hunks[i]
    <2>1. 1 \in DOMAIN group
      BY SeqFacts
    <2>2. group[1] \in ToSet(group)
      BY <2>1 DEF ToSet
    <2>3. QED BY <2>2
  <1>6. F \subseteq LinePlaces(c.hunks) /\ PlacesIn(c.hunks, {i}) \subseteq F /\ i \in DOMAIN c.hunks
    BY DEF F, PlacesIn
  <1>7. c.hunks # <<>>
    BY <1>6
  <1>8. UnitHas(c, part.units[1], F) /\ part.units = <<part.units[1]>>
    BY <1>1, <1>3, <1>4 DEF UnitHas
  <1>9. RangeHas(c, part.scope, F)
    BY <1>1, <1>4 DEF RangeHas, LinesAt, range
  <1>10. PartHas(c, part, F)
    BY <1>4, <1>6, <1>7, <1>8, <1>9 DEF PartHas
  <1>11. KeyNames(c, part, F)
    BY <1>4, <1>5, <1>6 DEF KeyNames
  <1>12. QED BY <1>10, <1>11 DEF part, F

\* The places of one hunk.
LEMMA PlacesOfHunk ==
  ASSUME NEW hunks, NEW i \in DOMAIN hunks
  PROVE  PlacesIn(hunks, {i}) = {<<i, j>> : j \in DOMAIN hunks[i].lines}
  BY DEF PlacesIn, LinePlaces

\* The part of a hunk of which not even a line fits.
LEMMA TooLargePartHas ==
  ASSUME NEW c, FileHunks(c.hunks), NEW i \in DOMAIN c.hunks
  PROVE  /\ PartHas(c, TooLargePart(c, c.hunks[i]), PlacesIn(c.hunks, {i}))
         /\ KeyNames(c, TooLargePart(c, c.hunks[i]), PlacesIn(c.hunks, {i}))
  <1> DEFINE h == c.hunks[i]
             F == PlacesIn(c.hunks, {i})
             part == TooLargePart(c, h)
             range == LineRange(h.lines)
  <1>1. part = Part(c, "hunk_group", <<h>>, range, "unreviewable", <<>>)
    BY DEF TooLargePart
  <1>2. IsSeq(<<h>>) /\ <<h>> # <<>> /\ <<h>>[1] = h
    <2>1. <<h>> \in Seq({h}) /\ <<h>> # <<>> /\ <<h>>[1] = h
      OBVIOUS
    <2>2. QED BY <2>1, SeqIsSeq
  <1>3. <<FileId(c), "hunk_group">> \o <<h>> = <<FileId(c), "hunk_group", h>>
    BY TwoAndOne
  <1>4. h \in HunkType
    BY DEF FileHunks
  <1>5. IsSeq(h.lines)
    BY <1>4, HunkFields, SeqIsSeq
  <1>6. ToSet(h.lines) = {LineAt(c.hunks, p) : p \in F}
    <2>1. F = {<<i, j>> : j \in DOMAIN h.lines}
      BY PlacesOfHunk
    <2>2. \A j : LineAt(c.hunks, <<i, j>>) = h.lines[j]
      BY DEF LineAt
    <2>3. ToSet(h.lines) = {h.lines[j] : j \in DOMAIN h.lines}
      BY DEF ToSet
    <2> HIDE DEF F, h
    <2>4. QED BY <2>1, <2>2, <2>3
  <1>7. F \subseteq LinePlaces(c.hunks)
    BY DEF PlacesIn
  <1> HIDE DEF part, range
  <1>8. /\ part.scope.id = <<FileId(c), "hunk_group", h>>
        /\ part.scope.file = FileId(c) /\ part.scope.range = range
        /\ part.scope.disposition = "unreviewable" /\ part.units = <<>>
        /\ part.scope.id[1] = FileId(c) /\ part.scope.id[2] = "hunk_group"
        /\ part.scope.id[3] = h
    <2> HIDE DEF h
    <2>1. PartIs(part, c, "hunk_group", <<h>>, range, "unreviewable", <<>>)
      BY <1>1, <1>2, PartFields
    <2>2. QED BY <1>2, <1>3, <2>1 DEF PartIs
  <1>9. RangeHas(c, part.scope, F)
    BY <1>5, <1>6, <1>8 DEF RangeHas, LinesAt, range
  <1>10. PartHas(c, part, F)
    BY <1>7, <1>8, <1>9 DEF PartHas
  <1>11. KeyNames(c, part, F)
    BY <1>8 DEF KeyNames
  <1>12. QED BY <1>10, <1>11 DEF part

\* The part of the lines of a hunk behind the first a, up to the b-th.
LEMMA BlockPartHas ==
  ASSUME NEW c, FileHunks(c.hunks), NEW i \in DOMAIN c.hunks,
         NEW a \in Nat, NEW b \in Nat, a < b, b <= Len(c.hunks[i].lines),
         NEW block, IsSeq(block), Len(block) = b - a,
         \A j \in 1 .. b - a : block[j] = c.hunks[i].lines[a + j],
         NEW F, F = {<<i, j>> : j \in a + 1 .. b}
  PROVE  /\ PartHas(c, BlockPart(c, c.hunks[i], block), F)
         /\ KeyNames(c, BlockPart(c, c.hunks[i], block), F)
  <1> DEFINE h == c.hunks[i]
             n == b - a
             lines == [k \in DOMAIN block |-> [hunk |-> h, at |-> block[k].sequence]]
             u == Unit(c, "line_block", lines, EstimateCount(Len(block)))
             texts == TextsOf(block)
             range == LineRange(block)
             part == BlockPart(c, h, block)
  <1>1. part = Part(c, "line_block", <<h, texts>>, range, "planned", <<u>>)
    BY DEF BlockPart
  <1>2. h \in HunkType /\ GoodHunk(h)
    BY DEF FileHunks, GoodHunks
  <1>3. Len(h.lines) \in Nat /\ DOMAIN h.lines = 1 .. Len(h.lines)
    BY <1>2, HunkFields
  <1>4. \A j \in DOMAIN h.lines : h.lines[j].sequence = j
    BY <1>2 DEF GoodHunk, LocationsValid
  <1>5. n \in Nat \ {0} /\ 1 \in 1 .. n /\ DOMAIN block = 1 .. n
    BY SeqFacts
  <1>6. \A j \in 1 .. n : a + j \in DOMAIN h.lines /\ a + j \in a + 1 .. b
    <2>1. \A j \in 1 .. n : a + j \in 1 .. Len(h.lines) /\ a + j \in a + 1 .. b
      BY <1>3
    <2>2. QED BY <1>3, <2>1
  <1>7. \A m \in a + 1 .. b : m - a \in 1 .. n /\ a + (m - a) = m /\ m \in 1 .. Len(h.lines)
    BY <1>3
  <1>8. /\ \A j \in 1 .. n : block[j] = h.lines[a + j] /\ lines[j] = [hunk |-> h, at |-> a + j]
        /\ DOMAIN lines = 1 .. n /\ lines = [k \in 1 .. n |-> lines[k]]
    <2>1. \A j \in 1 .. n : block[j] = h.lines[a + j]
      OBVIOUS
    <2>2. \A j \in 1 .. n : block[j].sequence = a + j
      BY <1>4, <1>6, <2>1
    <2>3. QED BY <1>5, <2>1, <2>2
  <1>9. u.file = FileId(c) /\ u.lines = lines
    BY DEF Unit
  <1>10. texts[1] = block[1].text
    BY <1>5 DEF TextsOf
  <1>11. \A m : LineAt(c.hunks, <<i, m>>) = h.lines[m] /\ LineId(c.hunks, <<i, m>>) = [hunk |-> h, at |-> m]
    BY DEF LineAt, LineId
  <1>12. F \subseteq LinePlaces(c.hunks) /\ c.hunks # <<>>
    <2>1. \A m \in a + 1 .. b : <<i, m>> \in LinePlaces(c.hunks)
      <3> TAKE m \in a + 1 .. b
      <3>1. m \in DOMAIN h.lines
        BY <1>3, <1>7
      <3>2. QED BY <3>1 DEF LinePlaces
    <2>2. c.hunks # <<>>
      OBVIOUS
    <2>3. QED BY <2>1, <2>2
  <1> DEFINE p == <<i, a + 1>>
  <1>13. p \in F /\ p[1] = i /\ LineAt(c.hunks, p).text = texts[1]
    <2>1. a + 1 \in a + 1 .. b
      OBVIOUS
    <2>2. block[1] = h.lines[a + 1]
      BY <1>5, <1>8
    <2>3. QED BY <1>10, <1>11, <2>1, <2>2
  <1>14. IsSeq(<<h, texts>>) /\ <<h, texts>> # <<>> /\ Len(<<h, texts>>) > 1
         /\ <<h, texts>>[1] = h /\ <<h, texts>>[2] = texts
    <2> HIDE DEF h, texts
    <2>1. <<h, texts>> \in Seq({h, texts}) /\ <<h, texts>> # <<>> /\ Len(<<h, texts>>) > 1
         /\ <<h, texts>>[1] = h /\ <<h, texts>>[2] = texts
      OBVIOUS
    <2>2. QED BY <2>1, SeqIsSeq
  <1> HIDE DEF u, part, range, texts, lines, h, n
  <1>15. /\ part.scope.file = FileId(c) /\ part.scope.range = range
         /\ part.scope.disposition = "planned" /\ part.units = <<u>>
         /\ part.scope.id[1] = FileId(c) /\ part.scope.id[2] = "line_block"
         /\ part.scope.id[3] = h /\ part.scope.id[4] = texts
    <2>1. PartIs(part, c, "line_block", <<h, texts>>, range, "planned", <<u>>)
      BY <1>1, <1>14, PartFields
    <2>2. QED BY <1>14, <2>1 DEF PartIs
  <1>16. IsSeq(lines) /\ ToSet(lines) = {LineId(c.hunks, q) : q \in F}
    <2>1. IsSeq(lines)
      BY <1>5, <1>8, FunctionIsSeq
    <2>2. ASSUME NEW x \in ToSet(lines) PROVE x \in {LineId(c.hunks, q) : q \in F}
      <3>1. PICK j \in 1 .. n : x = lines[j]
        BY <1>8 DEF ToSet
      <3>2. x = LineId(c.hunks, <<i, a + j>>) /\ <<i, a + j>> \in F
        BY <1>6, <1>8, <1>11, <3>1
      <3>3. QED BY <3>2
    <2>3. ASSUME NEW m \in a + 1 .. b PROVE LineId(c.hunks, <<i, m>>) \in ToSet(lines)
      <3>1. lines[m - a] = LineId(c.hunks, <<i, m>>)
        BY <1>7, <1>8, <1>11
      <3>2. QED BY <1>7, <1>8, <3>1 DEF ToSet
    <2>4. QED BY <2>1, <2>2, <2>3
  <1>17. ToSet(block) = {LineAt(c.hunks, q) : q \in F}
    <2>2. ASSUME NEW x \in ToSet(block) PROVE x \in {LineAt(c.hunks, q) : q \in F}
      <3>1. PICK j \in 1 .. n : x = block[j]
        BY <1>5 DEF ToSet
      <3>2. x = LineAt(c.hunks, <<i, a + j>>) /\ <<i, a + j>> \in F
        BY <1>6, <1>8, <1>11, <3>1
      <3>3. QED BY <3>2
    <2>3. ASSUME NEW m \in a + 1 .. b PROVE LineAt(c.hunks, <<i, m>>) \in ToSet(block)
      <3>1. block[m - a] = LineAt(c.hunks, <<i, m>>)
        BY <1>7, <1>8, <1>11
      <3>2. QED BY <1>5, <1>7, <3>1 DEF ToSet
    <2>4. QED BY <2>2, <2>3
  <1>18. UnitHas(c, part.units[1], F) /\ part.units = <<part.units[1]>>
    BY <1>9, <1>15, <1>16 DEF UnitHas
  <1>19. RangeHas(c, part.scope, F)
    BY <1>15, <1>17 DEF RangeHas, LinesAt, range
  <1>20. PartHas(c, part, F)
    BY <1>12, <1>15, <1>18, <1>19 DEF PartHas
  <1>21. KeyNames(c, part, F)
    <2>1. part.scope.id[3] = c.hunks[p[1]]
      BY <1>13, <1>15 DEF h
    <2> HIDE DEF p
    <2>2. QED BY <1>13, <1>15, <2>1 DEF KeyNames
  <1>22. QED BY <1>20, <1>21 DEF part, h

\* The blocks are the lines, cut up: the k-th has those behind the first a[k], up
\* to the b[k]-th.
Cut(blocks, lines, a, b) ==
    /\ IsSeq(blocks)
    /\ \A k \in DOMAIN blocks :
          /\ a[k] \in Nat /\ b[k] \in Nat /\ a[k] < b[k] /\ b[k] <= Len(lines)
          /\ IsSeq(blocks[k]) /\ Len(blocks[k]) = b[k] - a[k]
          /\ \A j \in 1 .. b[k] - a[k] : blocks[k][j] = lines[a[k] + j]
    /\ \A j, k \in DOMAIN blocks : j < k => b[j] <= a[k]
    /\ \A j \in 1 .. Len(lines) : \E k \in DOMAIN blocks : a[k] < j /\ j <= b[k]

\* The least and the greatest of two numbers.
LEMMA PairFacts ==
  ASSUME NEW x \in Int, NEW y \in Int
  PROVE  /\ Min({x, y}) \in {x, y} /\ Min({x, y}) <= x /\ Min({x, y}) <= y
         /\ Max({x, y}) \in {x, y}
  <1> DEFINE S == {x, y}
  <1>1. IsFiniteSet(S)
    <2>1. IsFiniteSet({x})
      BY FS_Singleton
    <2>2. IsFiniteSet({x} \cup {y})
      BY <2>1, FS_AddElement
    <2>3. {x} \cup {y} = S
      OBVIOUS
    <2>4. QED BY <2>2, <2>3
  <1>2. S \in SUBSET Int /\ S # {} /\ x \in S /\ y \in S
    OBVIOUS
  <1> HIDE DEF S
  <1>3. Min(S) \in S /\ Max(S) \in S /\ Min(S) <= x /\ Min(S) <= y
    BY <1>1, <1>2, MinIsLeast, MaxIsLast
  <1>4. QED BY <1>3 DEF S

\* Blocks of a size cut the lines into consecutive pieces.
LEMMA BlocksCut ==
  ASSUME NEW S, NEW lines \in Seq(S), lines # <<>>, NEW s \in Nat \ {0}
  PROVE  \E a, b : Cut(Blocks(lines, s), lines, a, b)
  <1> DEFINE m == Len(lines)
             n == (m + s - 1) \div s
             a == [k \in 1 .. n |-> (k - 1) * s]
             b == [k \in 1 .. n |-> Min({k * s, m})]
             B == Blocks(lines, s)
  <1>1. m \in Nat \ {0} /\ \A j \in 1 .. m : lines[j] \in S
    OBVIOUS
  <1>2. B = [k \in 1 .. n |-> SubSeq(lines, (k - 1) * s + 1, Min({k * s, m}))]
    BY DEF Blocks
  <1> HIDE DEF m
  <1>3. /\ n \in Nat \ {0}
        /\ \A k \in 1 .. n : (k - 1) * s \in Nat /\ (k - 1) * s + 1 <= m /\ k * s = (k - 1) * s + s
        /\ \A j, k \in 1 .. n : j < k => j * s <= (k - 1) * s
        /\ \A j \in 1 .. m : \E k \in 1 .. n : (k - 1) * s + 1 <= j /\ j <= k * s
    BY <1>1, Pieces
  <1> HIDE DEF n
  <1>4. \A k \in 1 .. n : a[k] = (k - 1) * s /\ b[k] = Min({k * s, m})
    OBVIOUS
  <1>5. \A k \in 1 .. n : B[k] = SubSeq(lines, a[k] + 1, b[k])
    BY <1>2
  <1>6. IsSeq(B) /\ DOMAIN B = 1 .. n
    <2>1. B = [k \in 1 .. n |-> B[k]]
      BY <1>2
    <2> HIDE DEF B
    <2>2. QED BY <1>3, <2>1, FunctionIsSeq
  <1> HIDE DEF a, b, B
  <1>7. \A k \in 1 .. n : /\ a[k] \in Nat /\ b[k] \in Nat /\ a[k] < b[k] /\ b[k] <= m
                          /\ b[k] <= k * s /\ (b[k] = m \/ b[k] = k * s)
    <2> TAKE k \in 1 .. n
    <2> DEFINE x == (k - 1) * s
               y == k * s
    <2>1. x \in Nat /\ x + 1 <= m /\ y = x + s /\ a[k] = x /\ b[k] = Min({y, m})
      BY <1>3, <1>4
    <2> HIDE DEF x, y
    <2>2. y \in Int /\ m \in Int
      BY <1>1, <2>1
    <2> DEFINE z == Min({y, m})
    <2>3. b[k] \in {y, m} /\ b[k] <= y /\ b[k] <= m
      <3>1. z \in {y, m} /\ z <= y /\ z <= m
        BY <2>2, PairFacts
      <3>2. b[k] = z
        BY <2>1
      <3> HIDE DEF z
      <3>3. QED BY <3>1, <3>2
    <2>4. x < y /\ y \in Nat
      BY <2>1
    <2>5. QED BY <1>1, <2>1, <2>3, <2>4 DEF y
  <1>8. ASSUME NEW k \in 1 .. n
        PROVE  /\ IsSeq(B[k]) /\ Len(B[k]) = b[k] - a[k]
               /\ \A j \in 1 .. b[k] - a[k] : B[k][j] = lines[a[k] + j]
    <2> DEFINE u == a[k]
               v == b[k]
    <2>1. u \in Nat /\ v \in Nat /\ u < v /\ v <= m
      BY <1>7
    <2>2. B[k] = SubSeq(lines, u + 1, v)
      BY <1>5
    <2> HIDE DEF u, v
    <2>3. u + 1 \in Int /\ u + 1 <= v /\ v - (u + 1) + 1 = v - u
      BY <2>1
    <2>4. \A i \in u + 1 .. v : lines[i] \in S
      <3>1. \A i \in u + 1 .. v : i \in 1 .. m
        BY <1>1, <2>1
      <3>2. QED BY <1>1, <3>1
    <2>5. SubSeq(lines, u + 1, v) \in Seq(S) /\ Len(SubSeq(lines, u + 1, v)) = v - u
      BY <2>1, <2>3, <2>4, SubSeqProperties
    <2>6. ASSUME NEW j \in 1 .. v - u PROVE SubSeq(lines, u + 1, v)[j] = lines[u + j]
      <3>1. j \in 1 .. v - (u + 1) + 1 /\ u + 1 + j - 1 = u + j
        BY <2>1
      <3>2. SubSeq(lines, u + 1, v)[j] = lines[u + 1 + j - 1]
        BY <2>1, <2>3, <2>4, <3>1, SubSeqProperties
      <3>3. QED BY <3>1, <3>2
    <2>7. IsSeq(B[k])
      BY <2>2, <2>5, SeqIsSeq
    <2>8. QED BY <2>2, <2>5, <2>6, <2>7 DEF u, v
  <1>9. ASSUME NEW j \in 1 .. n, NEW k \in 1 .. n, j < k PROVE b[j] <= a[k]
    <2>1. b[j] <= j * s /\ j * s <= (k - 1) * s /\ a[k] = (k - 1) * s
      BY <1>3, <1>4, <1>7, <1>9
    <2> DEFINE x == j * s
               y == (k - 1) * s
    <2>2. x \in Int /\ y \in Int /\ b[j] \in Int
      BY <1>3, <1>7
    <2> HIDE DEF x, y
    <2>3. b[j] <= x /\ x <= y /\ a[k] = y
      BY <2>1 DEF x, y
    <2>4. QED BY <2>2, <2>3
  <1>10. ASSUME NEW j \in 1 .. m PROVE \E k \in 1 .. n : a[k] < j /\ j <= b[k]
    <2>1. PICK k \in 1 .. n : (k - 1) * s + 1 <= j /\ j <= k * s
      BY <1>3
    <2>2. a[k] + 1 <= j /\ a[k] \in Nat
      BY <1>3, <1>4, <2>1
    <2>3. b[k] = m \/ b[k] = k * s
      BY <1>7
    <2>4. j <= b[k]
      BY <1>1, <2>1, <2>3
    <2>5. a[k] < j
      BY <2>2
    <2>6. QED BY <2>4, <2>5
  <1>11. Cut(B, lines, a, b)
    BY <1>6, <1>7, <1>8, <1>9, <1>10 DEF Cut, m
  <1>12. QED BY <1>11 DEF B

\* The line blocks of a hunk cut its lines, whatever the capacity is.
LEMMA LineBlocksCut ==
  ASSUME NEW h \in HunkType, NEW capacity \in [context : Nat, output : Nat],
         LineBlocks(h, capacity) # <<>>
  PROVE  \E a, b : Cut(LineBlocks(h, capacity), h.lines, a, b)
  <1> DEFINE base == (capacity.context - Overhead) * BytesPerToken
             room == base \div BytesPerLine
             least == Min({Len(h.lines), IF room = 0 THEN 1 ELSE room})
             first == Max({1, least})
             sizes == {n \in 1 .. first : Fits(EstimateCount(n), capacity)}
  <1>1. LineBlocks(h, capacity) = IF h.lines = <<>> \/ sizes = {} THEN <<>> ELSE Blocks(h.lines, Max(sizes))
    BY DEF LineBlocks
  <1>2. h.lines \in Seq(LineType) /\ Len(h.lines) \in Nat
    BY HunkFields
  <1>3. first \in Int
    <2>1. base \in Int /\ BytesPerLine \in Nat \ {0}
      BY DEF Overhead, BytesPerToken, BytesPerLine
    <2> HIDE DEF base
    <2>2. room \in Int
      BY <2>1, DivFacts
    <2> HIDE DEF room
    <2>3. least \in Int
      <3> DEFINE x == Len(h.lines)
                 y == IF room = 0 THEN 1 ELSE room
      <3>1. x \in Int /\ y \in Int
        BY <1>2, <2>2
      <3> HIDE DEF x, y
      <3>2. Min({x, y}) \in Int
        BY <3>1, PairFacts
      <3>3. QED BY <3>2 DEF x, y
    <2> HIDE DEF least
    <2>4. Max({1, least}) \in {1, least}
      <3> DEFINE x == 1
                 y == least
      <3>1. x \in Int /\ y \in Int
        BY <2>3
      <3> HIDE DEF x, y
      <3>2. Max({x, y}) \in {x, y}
        BY <3>1, PairFacts
      <3>3. QED BY <3>2 DEF x, y
    <2> DEFINE z == Max({1, least})
    <2> HIDE DEF z
    <2>5. z \in {1, least}
      BY <2>4 DEF z
    <2>6. z \in Int
      BY <2>3, <2>5
    <2>7. QED BY <2>6 DEF z
  <1>4. h.lines # <<>> /\ sizes # {} /\ LineBlocks(h, capacity) = Blocks(h.lines, Max(sizes))
    BY <1>1
  <1>5. Max(sizes) \in Nat \ {0}
    <2> HIDE DEF first
    <2>1. IsFiniteSet(1 .. first)
      BY <1>3, FS_Interval
    <2>2. sizes \in SUBSET (1 .. first) /\ sizes \in SUBSET Int
      BY <1>3
    <2> HIDE DEF sizes
    <2>3. IsFiniteSet(sizes)
      BY <2>1, <2>2, FS_Subset
    <2>4. Max(sizes) \in sizes
      BY <1>4, <2>2, <2>3, MaxIsLast
    <2>5. \A x \in 1 .. first : x \in Nat \ {0}
      BY <1>3
    <2>6. QED BY <2>2, <2>4, <2>5
  <1> HIDE DEF sizes
  <1>6. QED BY <1>2, <1>4, <1>5, BlocksCut

-----------------------------------------------------------------------------
\* One part that has all the places.
LEMMA OnePart ==
  ASSUME NEW c, NEW part, NEW F, PartHas(c, part, F)
  PROVE  PartsHave(c, <<part>>, <<F>>, F) /\ Len(<<part>>) = 1
         /\ (KeyNames(c, part, F) => KeysName(c, <<part>>, <<F>>))
  <1>1. <<part>> \in Seq({part}) /\ DOMAIN <<part>> = {1} /\ <<part>>[1] = part /\ <<F>>[1] = F
        /\ Len(<<part>>) = 1
    OBVIOUS
  <1>2. IsSeq(<<part>>)
    BY <1>1, SeqIsSeq
  <1> DEFINE parts == <<part>>
             foot == <<F>>
  <1> HIDE DEF parts, foot
  <1>3. PartsHave(c, parts, foot, F)
    <2>1. DOMAIN parts = {1} /\ parts[1] = part /\ foot[1] = F /\ IsSeq(parts)
      BY <1>1, <1>2 DEF parts, foot
    <2>2. \A m, n \in DOMAIN parts : ~(m < n)
      BY <2>1
    <2>3. \A m \in DOMAIN parts : PartHas(c, parts[m], foot[m]) /\ foot[m] \subseteq F
      BY <2>1
    <2>4. \A p \in F : \E m \in DOMAIN parts : p \in foot[m]
      BY <2>1
    <2>5. QED BY <2>1, <2>2, <2>3, <2>4 DEF PartsHave
  <1>4. KeyNames(c, part, F) => KeysName(c, parts, foot)
    BY <1>1 DEF KeysName, parts, foot
  <1>5. QED BY <1>1, <1>3, <1>4 DEF parts, foot

\* What becomes of a group of the boxing.
LEMMA PlanGroupHas ==
  ASSUME NEW c, FileHunks(c.hunks), NEW capacity \in [context : Nat, output : Nat],
         NEW I \in SUBSET DOMAIN c.hunks, NEW group, IsSeq(group), group # <<>>,
         ToSet(group) = {c.hunks[i] : i \in I},
         Len(group) = 1 => \A i, j \in I : i = j
  PROVE  \E foot : /\ PartsHave(c, PlanGroup(c, group, capacity), foot, PlacesIn(c.hunks, I))
                   /\ KeysName(c, PlanGroup(c, group, capacity), foot)
  <1> DEFINE parts == PlanGroup(c, group, capacity)
             H == PlacesIn(c.hunks, I)
             h == group[1]
             blocks == LineBlocks(h, capacity)
             whole == Len(group) > 1 \/ Fits(EstimateText(HunkLines(group)), capacity)
  <1>1. parts = IF whole THEN <<GroupPart(c, group)>>
                ELSE IF blocks = <<>> THEN <<TooLargePart(c, h)>>
                ELSE [k \in DOMAIN blocks |-> BlockPart(c, h, blocks[k])]
    BY DEF PlanGroup
  <1>2. CASE whole
    <2>1. parts = <<GroupPart(c, group)>>
      BY <1>1, <1>2
    <2> HIDE DEF parts, H
    <2>2. PartHas(c, GroupPart(c, group), H) /\ KeyNames(c, GroupPart(c, group), H)
      BY GroupPartHas DEF H
    <2>3. PartsHave(c, parts, <<H>>, H) /\ KeysName(c, parts, <<H>>)
      BY <2>1, <2>2, OnePart
    <2>4. QED BY <2>3 DEF parts, H
  <1>3. CASE ~whole
    <2>1. Len(group) = 1 /\ 1 \in DOMAIN group
      <3>1. Len(group) \in Nat \ {0} /\ DOMAIN group = 1 .. Len(group)
        BY SeqFacts
      <3>2. QED BY <1>3, <3>1
    <2>2. PICK i \in I : h = c.hunks[i]
      <3>1. h \in ToSet(group)
        BY <2>1 DEF ToSet
      <3>2. QED BY <3>1
    <2>3. I = {i} /\ i \in DOMAIN c.hunks
      BY <2>1, <2>2
    <2>4. h \in HunkType
      BY <2>2, <2>3 DEF FileHunks
    <2>5. CASE blocks = <<>>
      <3>1. parts = <<TooLargePart(c, h)>>
        BY <1>1, <1>3, <2>5
      <3> HIDE DEF parts, H
      <3>2. PartHas(c, TooLargePart(c, h), H) /\ KeyNames(c, TooLargePart(c, h), H)
        BY <2>2, <2>3, TooLargePartHas DEF H
      <3>3. PartsHave(c, parts, <<H>>, H) /\ KeysName(c, parts, <<H>>)
        BY <3>1, <3>2, OnePart
      <3>4. QED BY <3>3 DEF parts, H
    <2>6. CASE blocks # <<>>
      <3>1. parts = [k \in DOMAIN blocks |-> BlockPart(c, h, blocks[k])]
        BY <1>1, <1>3, <2>6
      <3>2. PICK a, b : Cut(blocks, h.lines, a, b)
        BY <2>4, <2>6, LineBlocksCut
      <3> DEFINE D == DOMAIN blocks
                 foot == [k \in D |-> {<<i, j>> : j \in a[k] + 1 .. b[k]}]
                 n == Len(blocks)
      <3>3. n \in Nat /\ D = 1 .. n
        BY <3>2, SeqFacts DEF Cut
      <3> HIDE DEF blocks, H
      <3>4. IsSeq(parts) /\ DOMAIN parts = D
        <4> DEFINE s == parts
        <4>1. s = [k \in 1 .. n |-> s[k]]
          BY <3>1, <3>3
        <4> HIDE DEF s, n
        <4>2. IsSeq(s) /\ DOMAIN s = 1 .. n
          BY <3>3, <4>1, FunctionIsSeq
        <4>3. QED BY <3>3, <4>2 DEF s
      <3>5. \A k \in D : parts[k] = BlockPart(c, h, blocks[k]) /\ foot[k] = {<<i, j>> : j \in a[k] + 1 .. b[k]}
        BY <3>1
      <3> HIDE DEF parts, foot, n
      <3>6. ASSUME NEW k \in D PROVE PartHas(c, parts[k], foot[k]) /\ KeyNames(c, parts[k], foot[k])
        <4>1. /\ a[k] \in Nat /\ b[k] \in Nat /\ a[k] < b[k] /\ b[k] <= Len(c.hunks[i].lines)
              /\ IsSeq(blocks[k]) /\ Len(blocks[k]) = b[k] - a[k]
              /\ \A j \in 1 .. b[k] - a[k] : blocks[k][j] = c.hunks[i].lines[a[k] + j]
          BY <2>2, <3>2 DEF Cut
        <4> DEFINE A == a[k]
                   B == b[k]
                   block == blocks[k]
                   F == foot[k]
                   part == parts[k]
        <4>2. F = {<<i, j>> : j \in A + 1 .. B} /\ part = BlockPart(c, c.hunks[i], block)
          BY <2>2, <3>5
        <4> HIDE DEF A, B, block, F, part
        <4>3. /\ A \in Nat /\ B \in Nat /\ A < B /\ B <= Len(c.hunks[i].lines)
              /\ IsSeq(block) /\ Len(block) = B - A
              /\ \A j \in 1 .. B - A : block[j] = c.hunks[i].lines[A + j]
          BY <4>1 DEF A, B, block
        <4>4. PartHas(c, part, F) /\ KeyNames(c, part, F)
          BY <2>3, <4>2, <4>3, BlockPartHas
        <4>5. QED BY <4>4 DEF part, F
      <3>7. H = {<<i, j>> : j \in 1 .. Len(h.lines)}
        <4>1. DOMAIN h.lines = 1 .. Len(h.lines)
          BY <2>4, HunkFields
        <4>2. PlacesIn(c.hunks, {i}) = {<<i, j>> : j \in DOMAIN c.hunks[i].lines}
          BY <2>3, PlacesOfHunk
        <4>3. QED BY <2>2, <2>3, <4>1, <4>2 DEF H
      <3>8. ASSUME NEW k \in D PROVE foot[k] \subseteq H
        <4>1. a[k] \in Nat /\ b[k] \in Nat /\ b[k] <= Len(h.lines) /\ Len(h.lines) \in Nat
          BY <2>4, <3>2, HunkFields DEF Cut
        <4>2. \A j \in a[k] + 1 .. b[k] : j \in 1 .. Len(h.lines)
          BY <4>1
        <4>3. QED BY <3>5, <3>7, <4>2
      <3>9. ASSUME NEW k \in D, NEW l \in D, k < l, NEW p \in foot[k], NEW q \in foot[l]
            PROVE  Comes(p, q)
        <4>1. PICK x \in a[k] + 1 .. b[k] : p = <<i, x>>
          BY <3>5
        <4>2. PICK y \in a[l] + 1 .. b[l] : q = <<i, y>>
          BY <3>5
        <4>3. a[k] \in Nat /\ b[k] \in Nat /\ a[l] \in Nat /\ b[l] \in Nat /\ b[k] <= a[l]
          BY <3>2, <3>9 DEF Cut
        <4>4. x < y
          BY <4>3
        <4>5. p[1] = i /\ p[2] = x /\ q[1] = i /\ q[2] = y
          BY <4>1, <4>2
        <4>6. QED BY <4>4, <4>5 DEF Comes, Earlier
      <3>10. ASSUME NEW p \in H PROVE \E k \in D : p \in foot[k]
        <4>1. PICK j \in 1 .. Len(h.lines) : p = <<i, j>>
          BY <3>7
        <4>2. PICK k \in D : a[k] < j /\ j <= b[k]
          BY <3>2 DEF Cut
        <4>3. a[k] \in Nat /\ b[k] \in Nat
          BY <3>2 DEF Cut
        <4>4. j \in a[k] + 1 .. b[k]
          BY <4>2, <4>3
        <4>5. QED BY <3>5, <4>1, <4>4
      <3>11. PartsHave(c, parts, foot, H)
        BY <3>4, <3>6, <3>8, <3>9, <3>10 DEF PartsHave
      <3>12. KeysName(c, parts, foot)
        BY <3>4, <3>6 DEF KeysName
      <3>13. QED BY <3>11, <3>12 DEF parts, H
    <2>7. QED BY <2>5, <2>6
  <1>4. QED BY <1>2, <1>3

\* The parts of ss together have all the places.
JoinHas(c, ss, H) ==
    \E foot : /\ PartsHave(c, FlattenSeq(ss), foot, UNION {H[k] : k \in DOMAIN ss})
              /\ KeysName(c, FlattenSeq(ss), foot)

\* Parts that follow one another are parts of what they have between them.
LEMMA JoinParts ==
  ASSUME NEW c, NEW ss, IsSeq(ss), NEW feet, NEW H,
         \A k \in DOMAIN ss : PartsHave(c, ss[k], feet[k], H[k]) /\ KeysName(c, ss[k], feet[k]),
         \A j, k \in DOMAIN ss : j < k => \A p \in H[j], q \in H[k] : Comes(p, q)
  PROVE  JoinHas(c, ss, H)
  <1> DEFINE s == FlattenSeq(ss)
             all == UNION {H[k] : k \in DOMAIN ss}
  <1>1. \A k \in DOMAIN ss : IsSeq(ss[k])
    BY DEF PartsHave
  <1>2. IsSeq(s)
    BY <1>1, FlattenSequences
  <1>3. PICK row, col : Places(row, col, ss, Len(ss), s)
    BY <1>1, FlattenSequences
  <1> HIDE DEF s
  <1>4. DOMAIN ss = 1 .. Len(ss)
    BY SeqFacts
  <1>5. /\ \A i \in DOMAIN s : /\ row[i] \in DOMAIN ss /\ col[i] \in DOMAIN ss[row[i]]
                               /\ s[i] = ss[row[i]][col[i]]
        /\ \A i, j \in DOMAIN s : i < j => Earlier(row[i], col[i], row[j], col[j])
        /\ \A k \in DOMAIN ss : \A j \in DOMAIN ss[k] : \E i \in DOMAIN s : row[i] = k /\ col[i] = j
    BY <1>3, <1>4 DEF Places
  <1> DEFINE foot == [i \in DOMAIN s |-> feet[row[i]][col[i]]]
  <1>6. \A i \in DOMAIN s : foot[i] = feet[row[i]][col[i]]
    OBVIOUS
  <1> HIDE DEF foot
  <1>7. \A k \in DOMAIN ss : \A m \in DOMAIN ss[k] :
           /\ PartHas(c, ss[k][m], feet[k][m]) /\ feet[k][m] \subseteq H[k]
           /\ KeyNames(c, ss[k][m], feet[k][m])
    BY DEF PartsHave, KeysName
  <1>8. \A k \in DOMAIN ss : \A m, n \in DOMAIN ss[k] :
           m < n => \A p \in feet[k][m], q \in feet[k][n] : Comes(p, q)
    BY DEF PartsHave
  <1>9. \A k \in DOMAIN ss : \A p \in H[k] : \E m \in DOMAIN ss[k] : p \in feet[k][m]
    BY DEF PartsHave
  <1>10. \A i \in DOMAIN s : PartHas(c, s[i], foot[i]) /\ KeyNames(c, s[i], foot[i]) /\ foot[i] \subseteq H[row[i]]
    BY <1>5, <1>6, <1>7
  <1>11. \A i \in DOMAIN s : foot[i] \subseteq all
    BY <1>5, <1>10
  <1>12. ASSUME NEW i \in DOMAIN s, NEW j \in DOMAIN s, i < j, NEW p \in foot[i], NEW q \in foot[j]
         PROVE  Comes(p, q)
    <2>1. CASE row[i] < row[j]
      <3>1. p \in H[row[i]] /\ q \in H[row[j]] /\ row[i] \in DOMAIN ss /\ row[j] \in DOMAIN ss
        BY <1>5, <1>10
      <3>2. QED BY <2>1, <3>1
    <2>2. CASE row[i] = row[j] /\ col[i] < col[j]
      <3>1. /\ p \in feet[row[i]][col[i]] /\ q \in feet[row[i]][col[j]] /\ row[i] \in DOMAIN ss
            /\ col[i] \in DOMAIN ss[row[i]] /\ col[j] \in DOMAIN ss[row[i]]
        BY <1>5, <1>6, <2>2
      <3>2. QED BY <1>8, <2>2, <3>1
    <2>3. Earlier(row[i], col[i], row[j], col[j])
      BY <1>5, <1>12
    <2>4. QED BY <2>1, <2>2, <2>3 DEF Earlier
  <1>13. ASSUME NEW p \in all PROVE \E i \in DOMAIN s : p \in foot[i]
    <2>1. PICK k \in DOMAIN ss : p \in H[k]
      BY <1>13
    <2>2. PICK m \in DOMAIN ss[k] : p \in feet[k][m]
      BY <1>9, <2>1
    <2>3. PICK i \in DOMAIN s : row[i] = k /\ col[i] = m
      BY <1>5
    <2>4. QED BY <1>6, <2>2, <2>3
  <1> HIDE DEF all
  <1>14. PartsHave(c, s, foot, all)
    BY <1>2, <1>10, <1>11, <1>12, <1>13 DEF PartsHave
  <1>15. KeysName(c, s, foot)
    BY <1>10 DEF KeysName
  <1>16. QED BY <1>14, <1>15 DEF s, all, JoinHas

\* A file that the planner is given.
PlannedFile(c) ==
    /\ c \in FileType /\ FileHunks(c.hunks)
    /\ IsBinary(c) => c.hunks = <<>>

\* The parts of a file have all its lines between them, and either there is one
\* or every one names what it has.
FileHas(c, parts, foot) ==
    /\ PartsHave(c, parts, foot, LinePlaces(c.hunks))
    /\ Len(parts) = 1 \/ KeysName(c, parts, foot)

\* A part that is the file.
LEMMA WholePartHas ==
  ASSUME NEW c, NEW disposition, NEW units,
         \/ /\ disposition = "planned" /\ c.hunks # <<>>
            /\ units = <<units[1]>> /\ UnitHas(c, units[1], LinePlaces(c.hunks))
         \/ disposition # "planned" /\ units = <<>> /\ LinePlaces(c.hunks) = {}
  PROVE  \E foot : FileHas(c, <<WholeFile(c, disposition, units)>>, foot)
  <1> DEFINE part == WholeFile(c, disposition, units)
             F == LinePlaces(c.hunks)
  <1>1. IsSeq(<<>>)
    <2>1. <<>> \in Seq({})
      OBVIOUS
    <2>2. QED BY <2>1, SeqIsSeq
  <1>2. PartIs(part, c, "file", <<>>, NoRange, disposition, units)
    BY <1>1, PartFields DEF WholeFile
  <1> HIDE DEF part, F
  <1>3. /\ part.scope.file = FileId(c) /\ part.scope.range = NoRange /\ part.scope.kind = "file"
        /\ part.scope.disposition = disposition /\ part.units = units
        /\ part.scope.id[1] = FileId(c)
    BY <1>2 DEF PartIs
  <1>4. PartHas(c, part, F)
    BY <1>3 DEF PartHas, RangeHas, F
  <1>5. PartsHave(c, <<part>>, <<F>>, F) /\ Len(<<part>>) = 1
    BY <1>4, OnePart
  <1>6. FileHas(c, <<part>>, <<F>>)
    BY <1>5 DEF FileHas, F
  <1>7. QED BY <1>6 DEF part

\* What is planned for a file has all its lines.
LEMMA PlanFileHas ==
  ASSUME NEW c, PlannedFile(c), NEW capacity \in [context : Nat, output : Nat]
  PROVE  \E foot : FileHas(c, PlanFile(c, capacity), foot)
  <1> DEFINE hunks == c.hunks
             all == HunkLines(c.hunks)
             groups == BoxHunks(c.hunks, capacity)
             parts == PlanFile(c, capacity)
             ss == [k \in DOMAIN groups |-> PlanGroup(c, groups[k], capacity)]
             u == Unit(c, "file", LinesOf(c.hunks), EstimateText(all))
  <1>1. parts = IF IsBinary(c) THEN <<WholeFile(c, "unreviewable", <<>>)>>
                ELSE IF c.hunks = <<>> THEN <<WholeFile(c, "no_review_required", <<>>)>>
                ELSE IF Fits(EstimateText(all), capacity) THEN <<WholeFile(c, "planned", <<u>>)>>
                ELSE FlattenSeq(ss)
    BY DEF PlanFile
  <1>2. FileHunks(hunks) /\ (IsBinary(c) => hunks = <<>>)
    BY DEF PlannedFile
  <1>3. IsSeq(hunks) /\ DOMAIN hunks = 1 .. Len(hunks) /\ Len(hunks) \in Nat
    BY <1>2, SeqIsSeq DEF FileHunks
  <1>4. hunks = <<>> => LinePlaces(hunks) = {}
    BY DEF LinePlaces
  <1>5. CASE IsBinary(c)
    <2>1. parts = <<WholeFile(c, "unreviewable", <<>>)>>
      BY <1>1, <1>5
    <2>2. \E foot : FileHas(c, <<WholeFile(c, "unreviewable", <<>>)>>, foot)
      BY <1>2, <1>4, <1>5, WholePartHas
    <2>3. QED BY <2>1, <2>2
  <1>6. CASE ~IsBinary(c) /\ hunks = <<>>
    <2>1. parts = <<WholeFile(c, "no_review_required", <<>>)>>
      BY <1>1, <1>6
    <2>2. \E foot : FileHas(c, <<WholeFile(c, "no_review_required", <<>>)>>, foot)
      BY <1>4, <1>6, WholePartHas
    <2>3. QED BY <2>1, <2>2
  <1>7. CASE ~IsBinary(c) /\ hunks # <<>> /\ Fits(EstimateText(all), capacity)
    <2>1. parts = <<WholeFile(c, "planned", <<u>>)>>
      BY <1>1, <1>7
    <2>2. UnitHas(c, u, LinePlaces(hunks))
      <3> DEFINE I == DOMAIN hunks
      <3>1. I \in SUBSET DOMAIN hunks /\ ToSet(hunks) = {hunks[i] : i \in I}
        BY DEF ToSet
      <3>2. PlacesIn(hunks, I) = LinePlaces(hunks)
        BY LinePlace DEF PlacesIn
      <3> HIDE DEF I, hunks
      <3>3. IsSeq(LinesOf(hunks)) /\ ToSet(LinesOf(hunks)) = {LineId(hunks, p) : p \in PlacesIn(hunks, I)}
        BY <1>2, <1>3, <3>1, GroupLines
      <3>4. u.file = FileId(c) /\ u.lines = LinesOf(hunks)
        BY DEF Unit, hunks
      <3> HIDE DEF u
      <3>5. QED BY <3>2, <3>3, <3>4 DEF UnitHas, hunks
    <2> DEFINE units == <<u>>
    <2>3. units = <<units[1]>> /\ units[1] = u
      OBVIOUS
    <2> HIDE DEF units, u
    <2>4. \E foot : FileHas(c, <<WholeFile(c, "planned", units)>>, foot)
      BY <1>7, <2>2, <2>3, WholePartHas
    <2>5. QED BY <2>1, <2>4 DEF units
  <1>8. CASE ~IsBinary(c) /\ hunks # <<>> /\ ~Fits(EstimateText(all), capacity)
    <2>1. parts = FlattenSeq(ss)
      BY <1>1, <1>8
    <2>2. PICK row : Groups(row, groups, hunks, Len(hunks))
      BY <1>3, BoxingGroups
    <2> DEFINE I(g) == {i \in DOMAIN hunks : row[i] = g}
               H == [g \in DOMAIN groups |-> PlacesIn(hunks, I(g))]
               Goes(g, foot) == PartsHave(c, ss[g], foot, H[g]) /\ KeysName(c, ss[g], foot)
               feet == [g \in DOMAIN groups |-> CHOOSE foot : Goes(g, foot)]
    <2>3. /\ IsSeq(groups) /\ \A g \in DOMAIN groups : IsSeq(groups[g]) /\ groups[g] # <<>>
          /\ \A i \in DOMAIN hunks : row[i] \in DOMAIN groups
          /\ \A i, j \in DOMAIN hunks : i < j => row[i] <= row[j]
          /\ \A g \in DOMAIN groups :
                /\ ToSet(groups[g]) = {hunks[i] : i \in I(g)}
                /\ Len(groups[g]) = 1 => \A i, j \in I(g) : i = j
      <3> HIDE DEF groups
      <3>1. DOMAIN hunks = 1 .. Len(hunks)
        BY <1>3
      <3>2. QED BY <2>2, <3>1 DEF Groups
    <2>4. IsSeq(ss) /\ DOMAIN ss = DOMAIN groups /\ DOMAIN groups = 1 .. Len(groups)
      <3> DEFINE s == ss
                 n == Len(groups)
      <3>1. n \in Nat /\ DOMAIN groups = 1 .. n
        BY <2>3, SeqFacts
      <3> HIDE DEF groups
      <3>2. s = [k \in 1 .. n |-> s[k]]
        BY <3>1
      <3> HIDE DEF s, n
      <3>3. IsSeq(s) /\ DOMAIN s = 1 .. n
        BY <3>1, <3>2, FunctionIsSeq
      <3>4. QED BY <3>1, <3>3 DEF s, n
    <2>5. \A g \in DOMAIN groups : ss[g] = PlanGroup(c, groups[g], capacity) /\ H[g] = PlacesIn(hunks, I(g))
      OBVIOUS
    <2>6. ASSUME NEW g \in DOMAIN groups PROVE \E foot : Goes(g, foot)
      <3> DEFINE J == I(g)
                 group == groups[g]
      <3>1. J \in SUBSET DOMAIN hunks /\ IsSeq(group) /\ group # <<>> /\ ToSet(group) = {hunks[i] : i \in J}
        BY <2>3
      <3>2. Len(group) = 1 => \A i, j \in J : i = j
        BY <2>3
      <3> HIDE DEF J, group
      <3>3. \E foot : /\ PartsHave(c, PlanGroup(c, group, capacity), foot, PlacesIn(hunks, J))
                      /\ KeysName(c, PlanGroup(c, group, capacity), foot)
        BY <1>2, <3>1, <3>2, PlanGroupHas
      <3>4. ss[g] = PlanGroup(c, group, capacity) /\ H[g] = PlacesIn(hunks, J)
        BY <2>5 DEF J, group
      <3> HIDE DEF ss, H
      <3>5. QED BY <3>3, <3>4
    <2>7. \A g \in DOMAIN ss : Goes(g, feet[g])
      <3> TAKE g \in DOMAIN ss
      <3>1. g \in DOMAIN groups
        BY <2>4
      <3>2. \E foot : Goes(g, foot)
        BY <2>6, <3>1
      <3>3. feet[g] = CHOOSE foot : Goes(g, foot)
        BY <3>1
      <3> HIDE DEF Goes, feet
      <3>4. QED BY <3>2, <3>3
    <2>8. \A g, k \in DOMAIN ss : g < k => \A p \in H[g], q \in H[k] : Comes(p, q)
      <3> SUFFICES ASSUME NEW g \in DOMAIN ss, NEW k \in DOMAIN ss, g < k,
                          NEW p \in H[g], NEW q \in H[k]
                   PROVE  Comes(p, q)
        OBVIOUS
      <3>1. p[1] \in DOMAIN hunks /\ row[p[1]] = g /\ q[1] \in DOMAIN hunks /\ row[q[1]] = k
        <4>1. p \in PlacesIn(hunks, I(g)) /\ q \in PlacesIn(hunks, I(k))
          BY <2>4, <2>5
        <4> HIDE DEF H
        <4>2. QED BY <4>1 DEF PlacesIn
      <3> DEFINE i == p[1]
                 j == q[1]
                 n == Len(groups)
      <3>2. i \in Nat /\ j \in Nat
        BY <1>3, <3>1
      <3>3. n \in Nat /\ g \in 1 .. n /\ k \in 1 .. n
        BY <2>3, <2>4, SeqFacts
      <3>4. j < i => row[j] <= row[i]
        BY <2>3, <3>1
      <3>5. row[i] = g /\ row[j] = k
        BY <3>1
      <3> HIDE DEF i, j, n
      <3>6. i < j
        BY <3>2, <3>3, <3>4, <3>5
      <3>7. QED BY <3>6 DEF Comes, Earlier, i, j
    <2>9. UNION {H[g] : g \in DOMAIN ss} = LinePlaces(hunks)
      <3>1. \A g \in DOMAIN ss : H[g] \subseteq LinePlaces(hunks)
        BY <2>4, <2>5 DEF PlacesIn
      <3>2. ASSUME NEW p \in LinePlaces(hunks) PROVE \E g \in DOMAIN ss : p \in H[g]
        <4>1. p[1] \in DOMAIN hunks
          BY LinePlace
        <4>2. row[p[1]] \in DOMAIN groups /\ p[1] \in I(row[p[1]])
          BY <2>3, <4>1
        <4>3. p \in H[row[p[1]]]
          BY <2>5, <4>2 DEF PlacesIn
        <4>4. QED BY <2>4, <4>2, <4>3
      <3> HIDE DEF H, ss
      <3>3. QED BY <3>1, <3>2
    <2> HIDE DEF H, ss, feet
    <2>10. \E foot : /\ PartsHave(c, FlattenSeq(ss), foot, UNION {H[g] : g \in DOMAIN ss})
                     /\ KeysName(c, FlattenSeq(ss), foot)
      <3>1. \A g \in DOMAIN ss : PartsHave(c, ss[g], feet[g], H[g]) /\ KeysName(c, ss[g], feet[g])
        BY <2>7
      <3>2. IsSeq(ss)
        BY <2>4
      <3>3. JoinHas(c, ss, H)
        BY <2>8, <3>1, <3>2, JoinParts
      <3>4. QED BY <3>3 DEF JoinHas
    <2>11. QED BY <2>1, <2>9, <2>10 DEF FileHas
  <1>9. QED BY <1>5, <1>6, <1>7, <1>8

-----------------------------------------------------------------------------
(* The order of the files                                                  *)

\* The files of a change are files that can be planned.
LEMMA PlannedFiles ==
  ASSUME NEW files, GoodFiles(files)
  PROVE  /\ IsSeq(files) /\ DOMAIN files = 1 .. Len(files) /\ Len(files) \in Nat
         /\ \A k \in DOMAIN files : PlannedFile(files[k])
         /\ \A j, k \in DOMAIN files : j # k => FileId(files[j]) # FileId(files[k])
  <1>1. files \in Seq(FileType)
    BY DEF GoodFiles
  <1>2. IsSeq(files)
    BY <1>1, SeqIsSeq
  <1>3. ASSUME NEW k \in DOMAIN files PROVE PlannedFile(files[k])
    <2>1. files[k] \in FileType
      BY <1>1
    <2>2. files[k].hunks \in Seq(HunkType)
      BY <2>1 DEF FileType
    <2>3. FileValid(files[k]) /\ GoodHunks(files[k].hunks)
      BY DEF GoodFiles
    <2>4. Ordered(files[k].hunks) /\ (IsBinary(files[k]) => files[k].hunks = <<>>)
      BY <2>3 DEF FileValid
    <2>5. QED BY <2>1, <2>2, <2>3, <2>4 DEF PlannedFile, FileHunks
  <1>4. QED BY <1>1, <1>2, <1>3 DEF GoodFiles

\* What a file is sorted by, and when it comes before another one.
LEMMA SortKeys ==
  ASSUME NEW c \in FileType
  PROVE  /\ c.new \in Nat /\ c.old \in Nat /\ c.type \in DOMAIN TypeRank /\ TypeRank[c.type] \in Nat
         /\ SortKey(c)[1] = c.new /\ SortKey(c)[2] = c.old /\ SortKey(c)[3] = TypeRank[c.type]
  <1>1. c.new \in MaybePaths /\ c.old \in MaybePaths /\ c.type \in DOMAIN TypeRank
    BY DEF FileType
  <1>2. MaybePaths \subseteq Nat
    BY InputAssumption DEF MaybePaths, Null
  <1>3. \A t \in DOMAIN TypeRank : TypeRank[t] \in Nat
    BY DEF TypeRank
  <1>4. QED BY <1>1, <1>2, <1>3 DEF SortKey

\* A file comes before another by its new path, then its old one, then its type.
LEMMA BeforeMeans ==
  ASSUME NEW a \in FileType, NEW b \in FileType
  PROVE  Before(a, b) <=> \/ a.new < b.new
                          \/ a.new = b.new /\ a.old < b.old
                          \/ /\ a.new = b.new /\ a.old = b.old
                             /\ TypeRank[a.type] < TypeRank[b.type]
  <1> DEFINE x == SortKey(a)
             y == SortKey(b)
             K(k) == (\A j \in 1 .. k - 1 : x[j] = y[j]) /\ x[k] < y[k]
  <1>1. Before(a, b) <=> \E k \in 1 .. 3 : K(k)
    BY DEF Before
  <1>2. 1 .. 3 = {1, 2, 3} /\ 1 .. 1 - 1 = {} /\ 1 .. 2 - 1 = {1} /\ 1 .. 3 - 1 = {1, 2}
    OBVIOUS
  <1> HIDE DEF x, y
  <1>3. /\ K(1) <=> x[1] < y[1]
        /\ K(2) <=> (x[1] = y[1] /\ x[2] < y[2])
        /\ K(3) <=> (x[1] = y[1] /\ x[2] = y[2] /\ x[3] < y[3])
    BY <1>2
  <1>4. Before(a, b) <=> K(1) \/ K(2) \/ K(3)
    <2> HIDE DEF K
    <2>1. QED BY <1>1, <1>2
  <1> HIDE DEF K
  <1>5. QED BY <1>3, <1>4, SortKeys DEF x, y

\* Files that differ in their identity are strictly ordered.
LEMMA FilesOrdered ==
  ASSUME NEW a \in FileType, NEW b \in FileType, NEW c \in FileType
  PROVE  /\ ~Before(a, a)
         /\ Before(a, b) /\ Before(b, c) => Before(a, c)
         /\ FileId(a) # FileId(b) => Before(a, b) \/ Before(b, a)
  <1>1. /\ a.new \in Nat /\ a.old \in Nat /\ TypeRank[a.type] \in Nat
        /\ b.new \in Nat /\ b.old \in Nat /\ TypeRank[b.type] \in Nat
        /\ c.new \in Nat /\ c.old \in Nat /\ TypeRank[c.type] \in Nat
    BY SortKeys
  <1>2. ~Before(a, a)
    BY <1>1, BeforeMeans
  <1>3. Before(a, b) /\ Before(b, c) => Before(a, c)
    <2> DEFINE ra == TypeRank[a.type]
               rb == TypeRank[b.type]
               rc == TypeRank[c.type]
    <2>1. Before(a, b) <=> \/ a.new < b.new
                           \/ a.new = b.new /\ a.old < b.old
                           \/ a.new = b.new /\ a.old = b.old /\ ra < rb
      BY BeforeMeans
    <2>2. Before(b, c) <=> \/ b.new < c.new
                           \/ b.new = c.new /\ b.old < c.old
                           \/ b.new = c.new /\ b.old = c.old /\ rb < rc
      BY BeforeMeans
    <2>3. Before(a, c) <=> \/ a.new < c.new
                           \/ a.new = c.new /\ a.old < c.old
                           \/ a.new = c.new /\ a.old = c.old /\ ra < rc
      BY BeforeMeans
    <2>4. ra \in Nat /\ rb \in Nat /\ rc \in Nat
      BY <1>1
    <2> HIDE DEF ra, rb, rc
    <2>5. QED BY <1>1, <2>1, <2>2, <2>3, <2>4
  <1>4. ASSUME FileId(a) # FileId(b) PROVE Before(a, b) \/ Before(b, a)
    <2> DEFINE ra == TypeRank[a.type]
               rb == TypeRank[b.type]
    <2>1. Before(a, b) <=> \/ a.new < b.new
                           \/ a.new = b.new /\ a.old < b.old
                           \/ a.new = b.new /\ a.old = b.old /\ ra < rb
      BY BeforeMeans
    <2>2. Before(b, a) <=> \/ b.new < a.new
                           \/ b.new = a.new /\ b.old < a.old
                           \/ b.new = a.new /\ b.old = a.old /\ rb < ra
      BY BeforeMeans
    <2>3. a.new # b.new \/ a.old # b.old \/ a.type # b.type
      BY <1>4 DEF FileId
    <2>4. ra = rb => a.type = b.type
      <3>1. a.type \in DOMAIN TypeRank /\ b.type \in DOMAIN TypeRank
        BY SortKeys
      <3>2. \A s, t \in DOMAIN TypeRank : TypeRank[s] = TypeRank[t] => s = t
        BY DEF TypeRank
      <3>3. QED BY <3>1, <3>2
    <2>5. ra \in Nat /\ rb \in Nat
      BY <1>1
    <2> HIDE DEF ra, rb
    <2>6. QED BY <1>1, <2>1, <2>2, <2>3, <2>4, <2>5
  <1>5. QED BY <1>2, <1>3, <1>4

\* order is the number of the file at each place of the plan.
Sorts(order, files) ==
    /\ OrderedFiles(files) = [n \in DOMAIN files |-> files[order[n]]]
    /\ \A n \in DOMAIN files : order[n] \in DOMAIN files
    /\ \A m, n \in DOMAIN files : order[m] = order[n] => m = n
    /\ \A k \in DOMAIN files : \E n \in DOMAIN files : order[n] = k

\* Sorting keeps the files, each of them once.
LEMMA OrderedFilesAre ==
  ASSUME NEW files, GoodFiles(files) PROVE \E order : Sorts(order, files)
  <1> DEFINE n == Len(files)
             D == DOMAIN files
             ahead(k) == {j \in D : Before(files[j], files[k])}
             rank == [k \in D |-> Rank(files, k)]
  <1>1. n \in Nat /\ D = 1 .. n
    BY PlannedFiles
  <1>2. \A k \in D : files[k] \in FileType
    BY DEF GoodFiles
  <1>3. \A j, k \in D : j # k => FileId(files[j]) # FileId(files[k])
    BY PlannedFiles
  <1>4. IsFiniteSet(D) /\ Cardinality(D) = n
    <2> HIDE DEF n, D
    <2>1. 1 \in Int /\ n \in Int
      BY <1>1
    <2>2. IsFiniteSet(1 .. n) /\ Cardinality(1 .. n) = IF 1 > n THEN 0 ELSE n - 1 + 1
      BY <2>1, FS_Interval
    <2>3. (IF 1 > n THEN 0 ELSE n - 1 + 1) = n
      BY <1>1
    <2>4. QED BY <1>1, <2>2, <2>3
  <1>5. \A k : Rank(files, k) = 1 + Cardinality(ahead(k))
    BY DEF Rank
  <1>6. \A k \in D : k \notin ahead(k)
    BY <1>2, FilesOrdered
  <1>7. \A j, k \in D : j \in ahead(k) => ahead(j) \subseteq ahead(k)
    BY <1>2, FilesOrdered
  <1>8. \A j, k \in D : j # k => j \in ahead(k) \/ k \in ahead(j)
    BY <1>2, <1>3, FilesOrdered
  <1>9. \A k : ahead(k) \in SUBSET D
    OBVIOUS
  <1> HIDE DEF D, ahead, n
  <1>10. \A k : IsFiniteSet(ahead(k)) /\ Cardinality(ahead(k)) \in Nat
    BY <1>4, <1>9, FS_Subset, FS_CardinalityType
  <1>11. ASSUME NEW k \in D, NEW S \in SUBSET D, ahead(k) \subseteq S, k \in S
         PROVE  Cardinality(ahead(k)) < Cardinality(S)
    <2> DEFINE T == ahead(k) \cup {k}
    <2>1. IsFiniteSet(T) /\ Cardinality(T) = Cardinality(ahead(k)) + 1
      BY <1>6, <1>10, FS_AddElement
    <2>2. T \in SUBSET S
      BY <1>11
    <2> HIDE DEF T
    <2>3. IsFiniteSet(S) /\ Cardinality(S) \in Nat
      BY <1>4, FS_Subset, FS_CardinalityType
    <2>4. Cardinality(T) <= Cardinality(S)
      BY <2>2, <2>3, FS_Subset
    <2>5. QED BY <1>10, <2>1, <2>3, <2>4
  <1>12. \A k \in D : Rank(files, k) \in D
    <2> TAKE k \in D
    <2>1. D \in SUBSET D /\ ahead(k) \subseteq D
      BY <1>9
    <2>2. Cardinality(ahead(k)) < n
      BY <1>4, <1>11, <2>1
    <2>3. QED BY <1>1, <1>5, <1>10, <2>2
  <1>13. \A j, k \in D : j # k => Rank(files, j) # Rank(files, k)
    <2>1. ASSUME NEW j \in D, NEW k \in D, j \in ahead(k) PROVE Rank(files, j) < Rank(files, k)
      <3>1. Cardinality(ahead(j)) < Cardinality(ahead(k))
        <4>1. ahead(k) \in SUBSET D /\ ahead(j) \subseteq ahead(k)
          BY <1>7, <1>9, <2>1
        <4>2. QED BY <1>11, <2>1, <4>1
      <3>2. QED BY <1>5, <1>10, <3>1
    <2>2. \A j, k \in D : Rank(files, j) < Rank(files, k) => Rank(files, j) # Rank(files, k)
      BY <1>1, <1>12
    <2>3. QED BY <1>8, <2>1, <2>2
  <1>14. rank \in Injection(D, D)
    BY <1>12, <1>13 DEF Injection, IsInjective
  <1>15. rank \in Surjection(D, D)
    <2> HIDE DEF rank
    <2>1. QED BY <1>4, <1>14, FS_Injection
  <1>16. \A m \in D : \E k \in D : Rank(files, k) = m
    BY <1>15 DEF Surjection
  <1> DEFINE at(m) == CHOOSE k \in D : Rank(files, k) = m
             order == [m \in D |-> at(m)]
  <1>17. \A m \in D : at(m) \in D /\ Rank(files, at(m)) = m
    BY <1>16
  <1>18. OrderedFiles(files) = [m \in D |-> files[at(m)]]
    BY DEF OrderedFiles, D
  <1> HIDE DEF at
  <1>19. \A m \in D : order[m] = at(m)
    OBVIOUS
  <1>20. OrderedFiles(files) = [m \in D |-> files[order[m]]]
    BY <1>18, <1>19
  <1> HIDE DEF order
  <1>21. \A m \in D : order[m] \in D
    BY <1>17, <1>19
  <1>22. \A l, m \in D : order[l] = order[m] => l = m
    BY <1>17, <1>19
  <1>23. \A k \in D : \E m \in D : order[m] = k
    <2> TAKE k \in D
    <2>1. Rank(files, k) \in D
      BY <1>12
    <2>2. Rank(files, order[Rank(files, k)]) = Rank(files, k) /\ order[Rank(files, k)] \in D
      BY <1>17, <1>19, <2>1
    <2>3. order[Rank(files, k)] = k
      BY <1>13, <2>2
    <2>4. QED BY <2>1, <2>3
  <1>24. Sorts(order, files)
    BY <1>20, <1>21, <1>22, <1>23 DEF Sorts, D
  <1>25. QED BY <1>24

-----------------------------------------------------------------------------
(* The plan                                                                *)

\* The parts behind the scopes of a plan: the m-th is about the places foot[m] of
\* the file with the number file[m].
ScopesAre(files, p, parts, file, foot) ==
    /\ DOMAIN p.scopes = DOMAIN parts
    /\ \A m \in DOMAIN parts :
          /\ p.scopes[m] = parts[m].scope
          /\ file[m] \in DOMAIN files /\ PartHas(files[file[m]], parts[m], foot[m])
          /\ \/ KeyNames(files[file[m]], parts[m], foot[m])
             \/ foot[m] = LinePlaces(files[file[m]].hunks)
    /\ \A m, n \in DOMAIN parts : m # n /\ file[m] = file[n] =>
          /\ KeyNames(files[file[m]], parts[m], foot[m])
          /\ \/ \A x \in foot[m], y \in foot[n] : Comes(x, y)
             \/ \A x \in foot[m], y \in foot[n] : Comes(y, x)
    /\ \A k \in DOMAIN files : \A x \in LinePlaces(files[k].hunks) :
          \E m \in DOMAIN parts : file[m] = k /\ x \in foot[m]

\* The units of a plan: the one of each part that has one.
UnitsAre(p, parts, of) ==
    /\ \A x \in DOMAIN p.units :
          /\ of[x] \in DOMAIN parts /\ parts[of[x]].units = <<p.units[x].unit>>
          /\ p.units[x].scope = parts[of[x]].scope.id
    /\ \A x, y \in DOMAIN p.units : of[x] = of[y] => x = y
    /\ \A m \in DOMAIN parts : parts[m].units # <<>> => \E x \in DOMAIN p.units : of[x] = m

\* What is planned for the file at each place, one after the other.
PartsOf(ordered, capacity) ==
    FlattenSeq([k \in DOMAIN ordered |-> PlanFile(ordered[k], capacity)])

UnitSeq(parts) ==
    FlattenSeq([k \in DOMAIN parts |-> [j \in DOMAIN parts[k].units |->
                   [unit |-> parts[k].units[j], scope |-> parts[k].scope.id]]])

\* The scopes and the units of a plan, from its parts.
LEMMA PlanFields ==
  ASSUME NEW files, NEW capacity
  PROVE  LET parts == PartsOf(OrderedFiles(files), capacity)
             p     == Plan(files, capacity)
         IN  p.scopes = [k \in DOMAIN parts |-> parts[k].scope] /\ p.units = UnitSeq(parts)
  BY DEF Plan, PartsOf, UnitSeq

\* The scopes, as functions on their own parts.
PartsAre(files, parts, file, foot) ==
    ScopesAre(files, [scopes |-> [k \in DOMAIN parts |-> parts[k].scope]], parts, file, foot)

\* The parts of a plan have all the lines of the files.
LEMMA PartsOfFiles ==
  ASSUME NEW files, GoodFiles(files), NEW capacity \in [context : Nat, output : Nat]
  PROVE  /\ IsSeq(PartsOf(OrderedFiles(files), capacity))
         /\ \E file, foot : PartsAre(files, PartsOf(OrderedFiles(files), capacity), file, foot)
  <1> DEFINE D == DOMAIN files
             ordered == OrderedFiles(files)
             ss == [k \in DOMAIN ordered |-> PlanFile(ordered[k], capacity)]
             parts == FlattenSeq(ss)
             n == Len(files)
  <1>1. PICK order : Sorts(order, files)
    BY OrderedFilesAre
  <1>2. /\ \A k \in D : order[k] \in D
        /\ \A j, k \in D : order[j] = order[k] => j = k
        /\ \A k \in D : \E j \in D : order[j] = k
    BY <1>1 DEF Sorts
  <1>3. DOMAIN ordered = D /\ \A k \in D : ordered[k] = files[order[k]]
    <2>1. ordered = [k \in DOMAIN files |-> files[order[k]]]
      BY <1>1 DEF Sorts
    <2> HIDE DEF ordered
    <2>2. QED BY <2>1
  <1>4. D = 1 .. n /\ n \in Nat /\ \A k \in D : PlannedFile(files[k])
    BY PlannedFiles
  <1>5. parts = PartsOf(ordered, capacity)
    BY DEF PartsOf
  <1> HIDE DEF ordered, D
  <1>6. IsSeq(ss) /\ DOMAIN ss = D /\ Len(ss) = n /\ \A k \in D : ss[k] = PlanFile(ordered[k], capacity)
    <2> DEFINE s == ss
    <2>1. s = [k \in 1 .. n |-> s[k]] /\ \A k \in D : s[k] = PlanFile(ordered[k], capacity)
      BY <1>3, <1>4
    <2> HIDE DEF s, n
    <2>2. IsSeq(s) /\ DOMAIN s = 1 .. n /\ Len(s) = n
      BY <1>4, <2>1, FunctionIsSeq
    <2>3. QED BY <1>4, <2>1, <2>2 DEF s
  <1> HIDE DEF ss, n
  <1> DEFINE feet == [k \in D |-> CHOOSE foot : FileHas(files[order[k]], ss[k], foot)]
  <1>7. \A k \in D : FileHas(files[order[k]], ss[k], feet[k])
    <2> TAKE k \in D
    <2>1. \E foot : FileHas(files[order[k]], PlanFile(files[order[k]], capacity), foot)
      BY <1>2, <1>4, PlanFileHas
    <2>2. ss[k] = PlanFile(files[order[k]], capacity)
      BY <1>3, <1>6
    <2>3. \E foot : FileHas(files[order[k]], ss[k], foot)
      BY <2>1, <2>2
    <2>4. feet[k] = CHOOSE foot : FileHas(files[order[k]], ss[k], foot)
      OBVIOUS
    <2>5. QED BY <2>3, <2>4
  <1> HIDE DEF feet
  <1>8. \A k \in D : IsSeq(ss[k])
    BY <1>7 DEF FileHas, PartsHave
  <1>9. IsSeq(parts)
    BY <1>6, <1>8, FlattenSequences
  <1>10. PICK row, col : Places(row, col, ss, Len(ss), parts)
    BY <1>6, <1>8, FlattenSequences
  <1> HIDE DEF parts
  <1>11. /\ \A i \in DOMAIN parts : row[i] \in D /\ col[i] \in DOMAIN ss[row[i]] /\ parts[i] = ss[row[i]][col[i]]
         /\ \A k \in D : \A j \in DOMAIN ss[k] : \E i \in DOMAIN parts : row[i] = k /\ col[i] = j
    BY <1>4, <1>6, <1>10 DEF Places
  <1>12. /\ \A i \in DOMAIN parts : row[i] \in Nat /\ col[i] \in Nat /\ i \in Nat
         /\ \A i, j \in DOMAIN parts : row[i] = row[j] /\ col[i] = col[j] => i = j
    BY <1>6, <1>8, <1>9, <1>10, PlacesOnce
  <1> DEFINE file == [i \in DOMAIN parts |-> order[row[i]]]
             foot == [i \in DOMAIN parts |-> feet[row[i]][col[i]]]
             p == [scopes |-> [k \in DOMAIN parts |-> parts[k].scope]]
  <1>13. \A i \in DOMAIN parts : file[i] = order[row[i]] /\ foot[i] = feet[row[i]][col[i]]
    OBVIOUS
  <1>14. DOMAIN p.scopes = DOMAIN parts /\ \A i \in DOMAIN parts : p.scopes[i] = parts[i].scope
    OBVIOUS
  <1> HIDE DEF file, foot, p
  <1>15. \A k \in D : \A m \in DOMAIN ss[k] :
            /\ PartHas(files[order[k]], ss[k][m], feet[k][m])
            /\ feet[k][m] \subseteq LinePlaces(files[order[k]].hunks)
    BY <1>7 DEF FileHas, PartsHave
  <1>16. \A k \in D : \A l, m \in DOMAIN ss[k] : l < m =>
            \A x \in feet[k][l], y \in feet[k][m] : Comes(x, y)
    BY <1>7 DEF FileHas, PartsHave
  <1>17. \A k \in D : \A x \in LinePlaces(files[order[k]].hunks) : \E m \in DOMAIN ss[k] : x \in feet[k][m]
    BY <1>7 DEF FileHas, PartsHave
  <1>18. \A k \in D : Len(ss[k]) = 1 \/ \A m \in DOMAIN ss[k] : KeyNames(files[order[k]], ss[k][m], feet[k][m])
    BY <1>7 DEF FileHas, KeysName
  <1>19. \A k \in D : DOMAIN ss[k] = 1 .. Len(ss[k])
    BY <1>8, SeqFacts
  <1>20. \A i \in DOMAIN parts : file[i] \in DOMAIN files /\ PartHas(files[file[i]], parts[i], foot[i])
    <2> TAKE i \in DOMAIN parts
    <2> DEFINE k == row[i]
               m == col[i]
               f == file[i]
    <2>1. k \in D /\ m \in DOMAIN ss[k] /\ parts[i] = ss[k][m]
      BY <1>11
    <2>2. f = order[k] /\ foot[i] = feet[k][m]
      BY <1>13
    <2> HIDE DEF k, m, f
    <2>3. f \in D
      BY <1>2, <2>1, <2>2
    <2>4. PartHas(files[order[k]], ss[k][m], feet[k][m])
      BY <1>15, <2>1
    <2>5. PartHas(files[f], parts[i], foot[i])
      BY <2>1, <2>2, <2>4
    <2>6. QED BY <2>3, <2>5 DEF f, D
  <1>21. ASSUME NEW i \in DOMAIN parts
         PROVE  \/ KeyNames(files[file[i]], parts[i], foot[i])
                \/ foot[i] = LinePlaces(files[file[i]].hunks)
    <2> DEFINE k == row[i]
    <2>1. k \in D /\ col[i] \in DOMAIN ss[k] /\ parts[i] = ss[k][col[i]] /\ file[i] = order[k]
          /\ foot[i] = feet[k][col[i]]
      BY <1>11, <1>13
    <2> HIDE DEF k
    <2>2. CASE Len(ss[k]) = 1
      <3>1. DOMAIN ss[k] = {1}
        BY <1>19, <2>1, <2>2
      <3> DEFINE H == LinePlaces(files[order[k]].hunks)
      <3>2. col[i] = 1 /\ foot[i] = feet[k][1]
        BY <2>1, <3>1
      <3>3. feet[k][1] \subseteq H
        BY <1>15, <2>1, <3>1
      <3>4. \A x \in H : \E m \in DOMAIN ss[k] : x \in feet[k][m]
        BY <1>17, <2>1
      <3>5. H = LinePlaces(files[file[i]].hunks)
        BY <2>1
      <3> HIDE DEF H
      <3>6. foot[i] = H
        BY <3>1, <3>2, <3>3, <3>4
      <3>7. QED BY <3>5, <3>6
    <2>3. CASE Len(ss[k]) # 1
      BY <1>18, <2>1, <2>3
    <2>4. QED BY <2>2, <2>3
  <1>22. ASSUME NEW i \in DOMAIN parts, NEW j \in DOMAIN parts, i # j, file[i] = file[j]
         PROVE  /\ KeyNames(files[file[i]], parts[i], foot[i])
                /\ \/ \A x \in foot[i], y \in foot[j] : Comes(x, y)
                   \/ \A x \in foot[i], y \in foot[j] : Comes(y, x)
    <2> DEFINE k == row[i]
    <2>1. row[j] = k
      BY <1>2, <1>11, <1>13, <1>22
    <2>2. /\ k \in D /\ col[i] \in DOMAIN ss[k] /\ parts[i] = ss[k][col[i]] /\ file[i] = order[k]
          /\ foot[i] = feet[k][col[i]] /\ col[j] \in DOMAIN ss[k] /\ foot[j] = feet[k][col[j]]
      BY <1>11, <1>13, <2>1
    <2>3. col[i] # col[j] /\ col[i] \in Nat /\ col[j] \in Nat
      BY <1>12, <1>22, <2>1
    <2> HIDE DEF k
    <2>4. col[i] < col[j] \/ col[j] < col[i]
      BY <2>3
    <2>5. Len(ss[k]) # 1
      <3>1. DOMAIN ss[k] = 1 .. Len(ss[k])
        BY <1>19, <2>2
      <3>2. col[i] \in 1 .. Len(ss[k]) /\ col[j] \in 1 .. Len(ss[k])
        BY <2>2, <3>1
      <3> DEFINE a == col[i]
                 b == col[j]
                 m == Len(ss[k])
      <3>3. a # b /\ a \in 1 .. m /\ b \in 1 .. m
        BY <2>3, <3>2
      <3> HIDE DEF a, b, m
      <3>4. m # 1
        BY <3>3
      <3>5. QED BY <3>4 DEF m
    <2>6. KeyNames(files[file[i]], parts[i], foot[i])
      BY <1>18, <2>2, <2>5
    <2>7. CASE col[i] < col[j]
      BY <1>16, <2>2, <2>6, <2>7
    <2>8. CASE col[j] < col[i]
      BY <1>16, <2>2, <2>6, <2>8
    <2>9. QED BY <2>4, <2>7, <2>8
  <1>23. ASSUME NEW k \in D, NEW x \in LinePlaces(files[k].hunks)
         PROVE  \E i \in DOMAIN parts : file[i] = k /\ x \in foot[i]
    <2>1. PICK j \in D : order[j] = k
      BY <1>2
    <2>2. PICK m \in DOMAIN ss[j] : x \in feet[j][m]
      BY <1>17, <2>1
    <2>3. PICK i \in DOMAIN parts : row[i] = j /\ col[i] = m
      BY <1>11
    <2>4. QED BY <1>13, <2>1, <2>2, <2>3
  <1>24. ScopesAre(files, p, parts, file, foot)
    BY <1>14, <1>20, <1>21, <1>22, <1>23 DEF ScopesAre, D
  <1>25. PartsAre(files, parts, file, foot)
    BY <1>24 DEF PartsAre, p
  <1>26. QED BY <1>5, <1>9, <1>25 DEF ordered

\* The units of parts that have one each, or none.
LEMMA UnitsOfParts ==
  ASSUME NEW parts, IsSeq(parts),
         \A m \in DOMAIN parts : parts[m].units = <<>> \/ parts[m].units = <<parts[m].units[1]>>
  PROVE  \A p : p.units = UnitSeq(parts) => \E of : UnitsAre(p, parts, of)
  <1> DEFINE n == Len(parts)
             us == [k \in DOMAIN parts |-> [j \in DOMAIN parts[k].units |->
                       [unit |-> parts[k].units[j], scope |-> parts[k].scope.id]]]
             s == FlattenSeq(us)
  <1>1. DOMAIN parts = 1 .. n /\ n \in Nat
    BY SeqFacts
  <1>2. \A m \in DOMAIN parts : parts[m].units # <<>> => DOMAIN parts[m].units = {1}
    BY Zenon, SMT
  <1>3. \A m \in DOMAIN parts : parts[m].units = <<>> => DOMAIN parts[m].units = {}
    OBVIOUS
  <1>4. IsSeq(us) /\ DOMAIN us = DOMAIN parts /\ Len(us) = n
    <2> DEFINE t == us
    <2>1. t = [k \in 1 .. n |-> t[k]]
      BY <1>1
    <2> HIDE DEF t, n
    <2>2. IsSeq(t) /\ DOMAIN t = 1 .. n /\ Len(t) = n
      BY <1>1, <2>1, FunctionIsSeq
    <2>3. QED BY <1>1, <2>2 DEF t
  <1>5. \A k \in DOMAIN parts :
           /\ DOMAIN us[k] = DOMAIN parts[k].units
           /\ \A j \in DOMAIN us[k] : us[k][j] = [unit |-> parts[k].units[j], scope |-> parts[k].scope.id]
           /\ us[k] = [j \in DOMAIN parts[k].units |-> us[k][j]]
    OBVIOUS
  <1>6. s = UnitSeq(parts)
    BY DEF UnitSeq
  <1> HIDE DEF us, n
  <1>7. \A k \in DOMAIN parts : IsSeq(us[k])
    <2> TAKE k \in DOMAIN parts
    <2> DEFINE t == us[k]
    <2>1. t = [j \in DOMAIN parts[k].units |-> t[j]]
      BY <1>5
    <2>2. DOMAIN parts[k].units = 1 .. 1 \/ DOMAIN parts[k].units = 1 .. 0
      BY <1>2, <1>3
    <2> HIDE DEF t
    <2>3. t = [j \in 1 .. 1 |-> t[j]] \/ t = [j \in 1 .. 0 |-> t[j]]
      BY <2>1, <2>2
    <2>4. IsSeq(t)
      BY <2>3, FunctionIsSeq
    <2>5. QED BY <2>4 DEF t
  <1>8. IsSeq(s) /\ \E row, col : Places(row, col, us, Len(us), s)
    BY <1>4, <1>7, FlattenSequences
  <1>9. PICK row, col : Places(row, col, us, Len(us), s)
    BY <1>8
  <1> HIDE DEF s
  <1>10. /\ \A i \in DOMAIN s : row[i] \in DOMAIN parts /\ col[i] \in DOMAIN us[row[i]] /\ s[i] = us[row[i]][col[i]]
         /\ \A k \in DOMAIN parts : \A j \in DOMAIN us[k] : \E i \in DOMAIN s : row[i] = k /\ col[i] = j
    BY <1>1, <1>4, <1>9 DEF Places
  <1>11. \A i, j \in DOMAIN s : row[i] = row[j] /\ col[i] = col[j] => i = j
    BY <1>4, <1>7, <1>8, <1>9, PlacesOnce
  <1>12. ASSUME NEW i \in DOMAIN s
         PROVE  /\ row[i] \in DOMAIN parts /\ col[i] = 1 /\ parts[row[i]].units = <<s[i].unit>>
                /\ s[i].scope = parts[row[i]].scope.id
    <2> DEFINE k == row[i]
    <2>1. k \in DOMAIN parts /\ col[i] \in DOMAIN parts[k].units /\ s[i] = us[k][col[i]]
          /\ col[i] \in DOMAIN us[k]
      BY <1>5, <1>10
    <2> HIDE DEF k
    <2>2. parts[k].units # <<>>
      BY <1>3, <2>1
    <2>3. col[i] = 1
      BY <1>2, <2>1, <2>2
    <2>4. s[i] = [unit |-> parts[k].units[1], scope |-> parts[k].scope.id]
      BY <1>5, <2>1, <2>3
    <2>5. s[i].unit = parts[k].units[1] /\ s[i].scope = parts[k].scope.id
      BY <2>4
    <2>6. parts[k].units = <<s[i].unit>>
      BY <2>1, <2>2, <2>5
    <2>7. QED BY <2>1, <2>3, <2>5, <2>6 DEF k
  <1>13. ASSUME NEW p, p.units = s PROVE UnitsAre(p, parts, row)
    <2>1. \A x, y \in DOMAIN s : row[x] = row[y] => x = y
      BY <1>11, <1>12
    <2>2. ASSUME NEW m \in DOMAIN parts, parts[m].units # <<>> PROVE \E x \in DOMAIN s : row[x] = m
      <3>1. 1 \in DOMAIN us[m]
        BY <1>2, <1>5, <2>2
      <3>2. QED BY <1>10, <3>1
    <2>3. QED BY <1>12, <1>13, <2>1, <2>2 DEF UnitsAre
  <1>14. QED BY <1>6, <1>13

\* What a plan is made of.
LEMMA PlanIs ==
  ASSUME NEW files, GoodFiles(files), NEW capacity \in [context : Nat, output : Nat]
  PROVE  \E parts, file, foot, of : /\ ScopesAre(files, Plan(files, capacity), parts, file, foot)
                                    /\ UnitsAre(Plan(files, capacity), parts, of)
  <1> DEFINE parts == PartsOf(OrderedFiles(files), capacity)
             p == Plan(files, capacity)
  <1>1. p.scopes = [k \in DOMAIN parts |-> parts[k].scope] /\ p.units = UnitSeq(parts)
    BY PlanFields
  <1>2. IsSeq(parts)
    BY PartsOfFiles
  <1>3. PICK file, foot : PartsAre(files, parts, file, foot)
    BY PartsOfFiles
  <1> HIDE DEF parts, p
  <1>4. ScopesAre(files, p, parts, file, foot)
    BY <1>1, <1>3 DEF PartsAre, ScopesAre
  <1>5. \A m \in DOMAIN parts : parts[m].units = <<>> \/ parts[m].units = <<parts[m].units[1]>>
    BY <1>4 DEF ScopesAre, PartHas
  <1>6. PICK of : UnitsAre(p, parts, of)
    BY <1>1, <1>2, <1>5, UnitsOfParts
  <1>7. QED BY <1>4, <1>6 DEF p

-----------------------------------------------------------------------------
(* What holds of every plan                                                *)

\* The parts behind two scopes of one file have no place in common, and the
\* scopes are of one file if their identities begin alike.
LEMMA PartsApart ==
  ASSUME NEW files, GoodFiles(files), NEW p, NEW parts, NEW file, NEW foot,
         ScopesAre(files, p, parts, file, foot),
         NEW m \in DOMAIN parts, NEW n \in DOMAIN parts
  PROVE  /\ parts[m].scope.id[1] = parts[n].scope.id[1] => file[m] = file[n]
         /\ parts[m].scope.file = parts[n].scope.file => file[m] = file[n]
         /\ m # n /\ file[m] = file[n] => foot[m] \cap foot[n] = {}
  <1>1. /\ file[m] \in DOMAIN files /\ PartHas(files[file[m]], parts[m], foot[m])
        /\ file[n] \in DOMAIN files /\ PartHas(files[file[n]], parts[n], foot[n])
    BY DEF ScopesAre
  <1>2. /\ parts[m].scope.file = FileId(files[file[m]]) /\ parts[m].scope.id[1] = FileId(files[file[m]])
        /\ parts[n].scope.file = FileId(files[file[n]]) /\ parts[n].scope.id[1] = FileId(files[file[n]])
    BY <1>1 DEF PartHas
  <1>3. FileId(files[file[m]]) = FileId(files[file[n]]) => file[m] = file[n]
    BY <1>1, PlannedFiles
  <1>4. ASSUME m # n, file[m] = file[n], NEW x \in foot[m], x \in foot[n] PROVE FALSE
    <2> DEFINE hunks == files[file[m]].hunks
    <2>1. Comes(x, x)
      BY <1>4 DEF ScopesAre
    <2>2. FileHunks(hunks)
      BY <1>1, PlannedFiles DEF PlannedFile
    <2>3. x \in LinePlaces(hunks)
      BY <1>1, <1>4 DEF PartHas
    <2> HIDE DEF hunks
    <2>4. QED BY <2>1, <2>2, <2>3, PlacesOrdered
  <1>5. QED BY <1>2, <1>3, <1>4

\* The ranges of two parts of a file do not meet.
LEMMA PartRangesApart ==
  ASSUME NEW c, FileHunks(c.hunks), NEW a, NEW b, NEW F, NEW G,
         PartHas(c, a, F), PartHas(c, b, G), \A x \in F, y \in G : Comes(x, y)
  PROVE  DoNotMeet(a.scope.range, b.scope.range)
  <1> DEFINE r == a.scope.range
             t == b.scope.range
  <1>1. RangeHas(c, a.scope, F) /\ RangeHas(c, b.scope, G) /\ F \subseteq LinePlaces(c.hunks) /\ G \subseteq LinePlaces(c.hunks)
    BY DEF PartHas
  <1>2. DoNotMeet(r, t)
    <2>1. CASE r = NoRange \/ t = NoRange
      BY <2>1 DEF NoRange, DoNotMeet
    <2>2. CASE r # NoRange /\ t # NoRange
      <3>1. PICK u : LinesAt(c.hunks, u, F) /\ r = LineRange(u)
        BY <1>1, <2>2 DEF RangeHas
      <3>2. PICK v : LinesAt(c.hunks, v, G) /\ t = LineRange(v)
        BY <1>1, <2>2 DEF RangeHas
      <3>3. F \in SUBSET LinePlaces(c.hunks) /\ G \in SUBSET LinePlaces(c.hunks)
        BY <1>1
      <3>4. DoNotMeet(LineRange(u), LineRange(v))
        BY <3>1, <3>2, <3>3, RangesDisjoint
      <3>5. QED BY <3>1, <3>2, <3>4
    <2>3. QED BY <2>1, <2>2
  <1>3. QED BY <1>2 DEF r, t

\* Scopes of one file lie in ranges that do not meet.
LEMMA PlanRangesApart ==
  ASSUME NEW files, GoodFiles(files), NEW p, NEW parts, NEW file, NEW foot,
         ScopesAre(files, p, parts, file, foot)
  PROVE  \A j, k \in DOMAIN p.scopes :
            (j # k /\ p.scopes[j].file = p.scopes[k].file) =>
                /\ p.scopes[j].range.old \cap p.scopes[k].range.old = {}
                /\ p.scopes[j].range.new \cap p.scopes[k].range.new = {}
  <1> SUFFICES ASSUME NEW j \in DOMAIN p.scopes, NEW k \in DOMAIN p.scopes,
                      j # k, p.scopes[j].file = p.scopes[k].file
               PROVE  /\ p.scopes[j].range.old \cap p.scopes[k].range.old = {}
                      /\ p.scopes[j].range.new \cap p.scopes[k].range.new = {}
    OBVIOUS
  <1>1. /\ j \in DOMAIN parts /\ k \in DOMAIN parts
        /\ p.scopes[j] = parts[j].scope /\ p.scopes[k] = parts[k].scope
    BY DEF ScopesAre
  <1>2. file[j] = file[k]
    BY <1>1, PartsApart
  <1> DEFINE c == files[file[j]]
  <1>3. /\ PartHas(c, parts[j], foot[j]) /\ PartHas(c, parts[k], foot[k])
        /\ \/ \A x \in foot[j], y \in foot[k] : Comes(x, y)
           \/ \A x \in foot[k], y \in foot[j] : Comes(x, y)
    BY <1>1, <1>2 DEF ScopesAre
  <1>4. FileHunks(c.hunks)
    <2>1. file[j] \in DOMAIN files
      BY <1>1 DEF ScopesAre
    <2>2. QED BY <2>1, PlannedFiles DEF PlannedFile
  <1> HIDE DEF c
  <1>5. CASE \A x \in foot[j], y \in foot[k] : Comes(x, y)
    <2>1. DoNotMeet(parts[j].scope.range, parts[k].scope.range)
      BY <1>3, <1>4, <1>5, PartRangesApart
    <2>2. QED BY <1>1, <2>1 DEF DoNotMeet
  <1>6. CASE \A x \in foot[k], y \in foot[j] : Comes(x, y)
    <2>1. DoNotMeet(parts[k].scope.range, parts[j].scope.range)
      BY <1>3, <1>4, <1>6, PartRangesApart
    <2>2. QED BY <1>1, <2>1 DEF DoNotMeet
  <1>7. QED BY <1>3, <1>5, <1>6

\* A plan is that of the accepted files or of none.
LEMMA PlanOfFiles ==
  ASSUME PathInv
  PROVE  \E files, capacity : /\ GoodFiles(files) /\ capacity \in [context : Nat, output : Nat]
                              /\ plan = Plan(files, capacity)
                              /\ result \in {"planned", "refused"} => files = change.files
  <1>1. GoodFiles(change.files)
    BY DEF PathInv
  <1>2. CASE \E capacity \in Capacities : plan = Plan(change.files, capacity)
    BY <1>1, <1>2, CapacityAssumption
  <1>3. CASE ~ \E capacity \in Capacities : plan = Plan(change.files, capacity)
    <2>1. plan = NoPlan /\ result \notin {"planned", "refused"}
      BY <1>3 DEF PathInv
    <2>2. GoodFiles(<<>>)
      BY DEF GoodFiles
    <2>3. [context |-> 0, output |-> 0] \in [context : Nat, output : Nat]
      OBVIOUS
    <2>4. QED BY <2>1, <2>2, <2>3 DEF NoPlan
  <1>4. QED BY <1>2, <1>3

\* On either side of a file no number lies in the ranges of two scopes,
\* whatever the change, the capacity and the number of hunks and lines are.
THEOREM ScopesApart == Spec => []ScopesAreDisjoint
  <1>1. PathInv => ScopesAreDisjoint
    <2> SUFFICES ASSUME PathInv PROVE ScopesAreDisjoint
      OBVIOUS
    <2>1. PICK files, capacity : /\ GoodFiles(files) /\ capacity \in [context : Nat, output : Nat]
                                 /\ plan = Plan(files, capacity)
      BY PlanOfFiles
    <2>2. PICK parts, file, foot, of : ScopesAre(files, plan, parts, file, foot)
      BY <2>1, PlanIs
    <2>3. QED BY <2>1, <2>2, PlanRangesApart DEF ScopesAreDisjoint
  <1>2. QED BY <1>1, PathInvariance, PTL

-----------------------------------------------------------------------------
(* The lines of a plan                                                     *)

\* What a line is named by across the files.
Named(c, q) == [file |-> FileId(c), hunk |-> c.hunks[q[1]], at |-> q[2]]

NamedIn(c, F) == {Named(c, q) : q \in F}

\* The lines that a unit and a file name are those at their places.
LEMMA UnitNames ==
  ASSUME NEW c, NEW u, NEW F, UnitHas(c, u, F)
  PROVE  UnitLines(u) = NamedIn(c, F)
  <1>1. u.file = FileId(c) /\ ToSet(u.lines) = {LineId(c.hunks, q) : q \in F}
    BY DEF UnitHas
  <1>2. \A q \in F : LineId(c.hunks, q).hunk = c.hunks[q[1]] /\ LineId(c.hunks, q).at = q[2]
    BY DEF LineId
  <1>3. ASSUME NEW x \in UnitLines(u) PROVE x \in NamedIn(c, F)
    <2>1. PICK l \in ToSet(u.lines) : x = [file |-> u.file, hunk |-> l.hunk, at |-> l.at]
      BY DEF UnitLines
    <2>2. PICK q \in F : l = LineId(c.hunks, q)
      BY <1>1
    <2>3. x = Named(c, q)
      BY <1>1, <1>2, <2>1, <2>2 DEF Named
    <2>4. QED BY <2>3 DEF NamedIn
  <1>4. ASSUME NEW q \in F PROVE Named(c, q) \in UnitLines(u)
    <2> DEFINE l == LineId(c.hunks, q)
    <2>1. l \in ToSet(u.lines) /\ l.hunk = c.hunks[q[1]] /\ l.at = q[2]
      BY <1>1, <1>2
    <2> HIDE DEF l
    <2>2. Named(c, q) = [file |-> u.file, hunk |-> l.hunk, at |-> l.at]
      BY <1>1, <2>1 DEF Named
    <2>3. QED BY <2>1, <2>2 DEF UnitLines
  <1>5. QED BY <1>3, <1>4 DEF NamedIn

\* The lines that a file names are those at its places.
LEMMA FileNames ==
  ASSUME NEW c, FileHunks(c.hunks)
  PROVE  LineIds(c) = NamedIn(c, LinePlaces(c.hunks))
  <1> DEFINE hunks == c.hunks
             u == [file |-> FileId(c), lines |-> LinesOf(hunks)]
  <1>1. IsSeq(hunks)
    BY SeqIsSeq DEF FileHunks
  <1>2. PlacesIn(hunks, DOMAIN hunks) = LinePlaces(hunks)
    BY LinePlace DEF PlacesIn
  <1>3. ToSet(hunks) = {hunks[i] : i \in DOMAIN hunks}
    BY DEF ToSet
  <1>4. /\ IsSeq(LinesOf(hunks))
        /\ ToSet(LinesOf(hunks)) = {LineId(hunks, q) : q \in LinePlaces(hunks)}
    BY <1>1, <1>2, <1>3, GroupLines
  <1>5. u.file = FileId(c) /\ u.lines = LinesOf(hunks)
    OBVIOUS
  <1> HIDE DEF u
  <1>6. UnitHas(c, u, LinePlaces(hunks))
    BY <1>4, <1>5 DEF UnitHas
  <1>7. UnitLines(u) = NamedIn(c, LinePlaces(hunks))
    BY <1>6, UnitNames
  <1>8. LineIds(c) = UnitLines(u)
    BY <1>5 DEF LineIds, UnitLines
  <1>9. QED BY <1>7, <1>8

\* A line is of one part only.
LEMMA PartOfLine ==
  ASSUME NEW files, GoodFiles(files), NEW p, NEW parts, NEW file, NEW foot,
         ScopesAre(files, p, parts, file, foot),
         NEW m \in DOMAIN parts, NEW n \in DOMAIN parts,
         NEW q \in foot[m], NEW r \in foot[n],
         Named(files[file[m]], q) = Named(files[file[n]], r)
  PROVE  m = n
  <1> DEFINE c == files[file[m]]
             d == files[file[n]]
  <1>1. file[m] \in DOMAIN files /\ PartHas(c, parts[m], foot[m])
        /\ file[n] \in DOMAIN files /\ PartHas(d, parts[n], foot[n])
    BY DEF ScopesAre
  <1>2. FileId(c) = FileId(d) /\ c.hunks[q[1]] = d.hunks[r[1]] /\ q[2] = r[2]
    <2>1. /\ Named(c, q).file = FileId(c) /\ Named(c, q).hunk = c.hunks[q[1]] /\ Named(c, q).at = q[2]
          /\ Named(d, r).file = FileId(d) /\ Named(d, r).hunk = d.hunks[r[1]] /\ Named(d, r).at = r[2]
      BY DEF Named
    <2>2. QED BY <2>1
  <1>3. file[m] = file[n]
    BY <1>1, <1>2, PlannedFiles
  <1>4. c = d
    BY <1>3
  <1> HIDE DEF c, d
  <1>5. q \in LinePlaces(c.hunks) /\ r \in LinePlaces(c.hunks)
    BY <1>1, <1>4 DEF PartHas
  <1>6. LineId(c.hunks, q) = LineId(c.hunks, r)
    BY <1>2, <1>4 DEF LineId
  <1>7. FileHunks(c.hunks)
    BY <1>1, PlannedFiles DEF PlannedFile, c
  <1>8. q = r
    BY <1>5, <1>6, <1>7, LineIdsDiffer
  <1>9. m # n => foot[m] \cap foot[n] = {}
    BY <1>3, PartsApart
  <1>10. QED BY <1>8, <1>9

\* The lines of a unit are those at the places of its part.
LEMMA UnitOfPart ==
  ASSUME NEW files, NEW p, NEW parts, NEW file, NEW foot, NEW of,
         ScopesAre(files, p, parts, file, foot), UnitsAre(p, parts, of),
         NEW x \in DOMAIN p.units
  PROVE  /\ of[x] \in DOMAIN parts /\ parts[of[x]].units # <<>>
         /\ file[of[x]] \in DOMAIN files
         /\ UnitHas(files[file[of[x]]], p.units[x].unit, foot[of[x]])
         /\ UnitLines(p.units[x].unit) = NamedIn(files[file[of[x]]], foot[of[x]])
         /\ foot[of[x]] \subseteq LinePlaces(files[file[of[x]]].hunks)
         /\ parts[of[x]].scope.disposition = "planned" /\ files[file[of[x]]].hunks # <<>>
  <1> DEFINE m == of[x]
             u == p.units[x].unit
             c == files[file[m]]
  <1>1. m \in DOMAIN parts /\ parts[m].units = <<u>>
    BY DEF UnitsAre
  <1>2. file[m] \in DOMAIN files /\ PartHas(c, parts[m], foot[m])
    BY <1>1 DEF ScopesAre
  <1> HIDE DEF m, u, c
  <1>3. parts[m].units # <<>> /\ parts[m].units[1] = u
    BY <1>1
  <1>4. /\ UnitHas(c, u, foot[m]) /\ foot[m] \subseteq LinePlaces(c.hunks)
        /\ parts[m].scope.disposition = "planned" /\ c.hunks # <<>>
    BY <1>2, <1>3 DEF PartHas
  <1>5. UnitLines(u) = NamedIn(c, foot[m])
    BY <1>4, UnitNames
  <1>6. QED BY <1>1, <1>2, <1>3, <1>4, <1>5 DEF m, u, c

\* A hunk is declared unreviewable by the part that its lines are of.
LEMMA DroppedByItsPart ==
  ASSUME NEW files, GoodFiles(files), NEW p, NEW parts, NEW file, NEW foot,
         ScopesAre(files, p, parts, file, foot),
         NEW m \in DOMAIN parts, NEW q \in foot[m], NEW n \in DOMAIN parts,
         parts[n].scope.disposition = "unreviewable",
         parts[n].scope.id = <<FileId(files[file[m]]), "hunk_group", files[file[m]].hunks[q[1]]>>
  PROVE  m = n
  <1> DEFINE c == files[file[m]]
             h == c.hunks[q[1]]
  <1>1. parts[n].scope.id[1] = FileId(c) /\ parts[n].scope.id[3] = h
    OBVIOUS
  <1>2. file[m] \in DOMAIN files /\ PartHas(c, parts[m], foot[m])
    BY DEF ScopesAre
  <1>3. file[m] = file[n]
    <2>1. parts[m].scope.id[1] = FileId(c)
      BY <1>2 DEF PartHas
    <2>2. QED BY <1>1, <2>1, PartsApart
  <1>4. PartHas(c, parts[n], foot[n])
    BY <1>3 DEF ScopesAre
  <1>5. FileHunks(c.hunks) /\ q \in LinePlaces(c.hunks)
    BY <1>2, PlannedFiles DEF PlannedFile, PartHas
  <1> HIDE DEF c
  <1>6. PICK i \in DOMAIN c.hunks : /\ parts[n].scope.id = <<FileId(c), "hunk_group", c.hunks[i]>>
                                    /\ foot[n] = PlacesIn(c.hunks, {i})
    BY <1>4, <1>5 DEF PartHas
  <1>7. c.hunks[i] = h
    BY <1>1, <1>6
  <1>8. q[1] \in DOMAIN c.hunks /\ q[2] \in DOMAIN c.hunks[q[1]].lines
    BY <1>5, LinePlace
  <1>9. q[1] = i
    <2>1. c.hunks[q[1]].lines # <<>>
      BY <1>8
    <2>2. QED BY <1>5, <1>7, <1>8, <2>1, HunksDiffer
  <1>10. q \in foot[n]
    BY <1>5, <1>6, <1>9 DEF PlacesIn
  <1>11. QED BY <1>3, <1>10, PartsApart

\* Every line is in one unit, or in none and declared.
Conserves(files, p) ==
    LET lines == UNION {LineIds(files[k]) : k \in DOMAIN files}
        units == DOMAIN p.units
        given == UNION {UnitLines(p.units[k].unit) : k \in units}
        dropped(id) == \E k \in DOMAIN p.scopes :
                          /\ p.scopes[k].disposition = "unreviewable"
                          /\ p.scopes[k].id = <<id.file, "hunk_group", id.hunk>>
    IN  /\ given \subseteq lines
        /\ \A id \in lines : IF dropped(id) THEN id \notin given ELSE id \in given
        /\ \A j, k \in units : j # k =>
              UnitLines(p.units[j].unit) \cap UnitLines(p.units[k].unit) = {}

\* A plan gives every line to one unit, or drops it with its hunk.
LEMMA PlanConserves ==
  ASSUME NEW files, GoodFiles(files), NEW p, NEW parts, NEW file, NEW foot, NEW of,
         ScopesAre(files, p, parts, file, foot), UnitsAre(p, parts, of)
  PROVE  Conserves(files, p)
  <1> DEFINE lines == UNION {LineIds(files[k]) : k \in DOMAIN files}
             units == DOMAIN p.units
             given == UNION {UnitLines(p.units[k].unit) : k \in units}
             dropped(id) == \E k \in DOMAIN p.scopes :
                               /\ p.scopes[k].disposition = "unreviewable"
                               /\ p.scopes[k].id = <<id.file, "hunk_group", id.hunk>>
             c(m) == files[file[m]]
  <1>1. \A k \in DOMAIN files : LineIds(files[k]) = NamedIn(files[k], LinePlaces(files[k].hunks))
    BY PlannedFiles, FileNames DEF PlannedFile
  <1>2. \A x \in units : /\ of[x] \in DOMAIN parts /\ parts[of[x]].units # <<>>
                         /\ file[of[x]] \in DOMAIN files
                         /\ UnitLines(p.units[x].unit) = NamedIn(c(of[x]), foot[of[x]])
                         /\ foot[of[x]] \subseteq LinePlaces(c(of[x]).hunks)
                         /\ parts[of[x]].scope.disposition = "planned"
    BY UnitOfPart
  <1>3. \A j, k \in units : of[j] = of[k] => j = k
    BY DEF UnitsAre
  <1>4. \A m \in DOMAIN parts : parts[m].units # <<>> => \E x \in units : of[x] = m
    BY DEF UnitsAre
  <1>5. \A m \in DOMAIN parts : file[m] \in DOMAIN files /\ PartHas(c(m), parts[m], foot[m])
    BY DEF ScopesAre
  <1>6. \A m, n \in DOMAIN parts : \A q \in foot[m], r \in foot[n] :
           Named(c(m), q) = Named(c(n), r) => m = n
    BY PartOfLine
  <1>7. DOMAIN p.scopes = DOMAIN parts /\ \A m \in DOMAIN parts : p.scopes[m] = parts[m].scope
    BY DEF ScopesAre
  <1>8. \A m, n \in DOMAIN parts : \A q \in foot[m] :
           /\ parts[n].scope.disposition = "unreviewable"
           /\ parts[n].scope.id = <<FileId(c(m)), "hunk_group", c(m).hunks[q[1]]>>
           => m = n
    BY DroppedByItsPart
  <1> HIDE DEF c
  <1>9. ASSUME NEW x \in units, NEW id \in UnitLines(p.units[x].unit)
        PROVE  \E q \in foot[of[x]] : id = Named(c(of[x]), q)
    <2>1. id \in NamedIn(c(of[x]), foot[of[x]])
      BY <1>2, <1>9
    <2>2. QED BY <2>1 DEF NamedIn
  <1>10. given \subseteq lines
    <2> SUFFICES ASSUME NEW x \in units, NEW id \in UnitLines(p.units[x].unit) PROVE id \in lines
      OBVIOUS
    <2>1. PICK q \in foot[of[x]] : id = Named(c(of[x]), q)
      BY <1>9
    <2>2. file[of[x]] \in DOMAIN files /\ q \in LinePlaces(c(of[x]).hunks)
      BY <1>2
    <2>3. id \in NamedIn(files[file[of[x]]], LinePlaces(files[file[of[x]]].hunks))
      BY <2>1, <2>2 DEF NamedIn, c
    <2>4. id \in LineIds(files[file[of[x]]])
      BY <1>1, <2>2, <2>3
    <2>5. QED BY <2>2, <2>4
  <1>11. ASSUME NEW id \in lines
         PROVE  IF dropped(id) THEN id \notin given ELSE id \in given
    <2>1. PICK k \in DOMAIN files : id \in LineIds(files[k])
      OBVIOUS
    <2>2. PICK q \in LinePlaces(files[k].hunks) : id = Named(files[k], q)
      BY <1>1, <2>1 DEF NamedIn
    <2>3. PICK m \in DOMAIN parts : file[m] = k /\ q \in foot[m]
      BY DEF ScopesAre
    <2>4. id = Named(c(m), q) /\ q \in LinePlaces(c(m).hunks)
      BY <2>2, <2>3 DEF c
    <2>5. id.file = FileId(c(m)) /\ id.hunk = c(m).hunks[q[1]]
      BY <2>4 DEF Named
    <2>6. dropped(id) => parts[m].scope.disposition = "unreviewable"
      <3> SUFFICES ASSUME NEW n \in DOMAIN p.scopes,
                          p.scopes[n].disposition = "unreviewable",
                          p.scopes[n].id = <<id.file, "hunk_group", id.hunk>>
                   PROVE  parts[m].scope.disposition = "unreviewable"
        OBVIOUS
      <3>1. /\ n \in DOMAIN parts /\ parts[n].scope.disposition = "unreviewable"
            /\ parts[n].scope.id = <<FileId(c(m)), "hunk_group", c(m).hunks[q[1]]>>
        BY <1>7, <2>5
      <3>2. m = n
        BY <1>8, <2>3, <3>1
      <3>3. QED BY <3>1, <3>2
    <2>7. CASE parts[m].scope.disposition = "planned"
      <3>1. parts[m].units # <<>>
        BY <1>5, <2>4, <2>7 DEF PartHas
      <3>2. PICK x \in units : of[x] = m
        BY <1>4, <3>1
      <3>3. id \in UnitLines(p.units[x].unit)
        BY <1>2, <2>3, <2>4, <3>2 DEF NamedIn
      <3>4. id \in given
        BY <3>3
      <3>5. ~dropped(id)
        BY <2>6, <2>7
      <3>6. QED BY <3>4, <3>5
    <2>8. CASE parts[m].scope.disposition # "planned"
      <3>1. /\ parts[m].scope.disposition = "unreviewable" /\ parts[m].units = <<>>
            /\ \E i \in DOMAIN c(m).hunks :
                  /\ parts[m].scope.id = <<FileId(c(m)), "hunk_group", c(m).hunks[i]>>
                  /\ foot[m] = PlacesIn(c(m).hunks, {i})
        BY <1>5, <2>4, <2>8 DEF PartHas
      <3>2. parts[m].scope.id = <<id.file, "hunk_group", id.hunk>>
        BY <2>3, <2>5, <3>1 DEF PlacesIn
      <3>3. dropped(id)
        BY <1>7, <3>1, <3>2
      <3>4. ASSUME id \in given PROVE FALSE
        <4>1. PICK x \in units : id \in UnitLines(p.units[x].unit)
          BY <3>4
        <4>2. PICK r \in foot[of[x]] : id = Named(c(of[x]), r)
          BY <1>9, <4>1
        <4>3. of[x] = m
          BY <1>2, <1>6, <2>3, <2>4, <4>2
        <4>4. QED BY <1>2, <3>1, <4>3
      <3>5. QED BY <3>3, <3>4
    <2>9. QED BY <2>7, <2>8
  <1>12. ASSUME NEW j \in units, NEW k \in units, j # k,
                NEW id, id \in UnitLines(p.units[j].unit), id \in UnitLines(p.units[k].unit)
         PROVE  FALSE
    <2>1. PICK q \in foot[of[j]] : id = Named(c(of[j]), q)
      BY <1>9, <1>12
    <2>2. PICK r \in foot[of[k]] : id = Named(c(of[k]), r)
      BY <1>9, <1>12
    <2>3. of[j] = of[k]
      BY <1>2, <1>6, <2>1, <2>2
    <2>4. QED BY <1>3, <1>12, <2>3
  <1>13. QED BY <1>10, <1>11, <1>12 DEF Conserves

\* A plan has every line of the change in one unit, or in none and then its
\* hunk is declared unreviewable, whatever the change and the capacity are.
THEOREM LinesConserved == Spec => []PlanConservesLines
  <1>1. PathInv => PlanConservesLines
    <2> SUFFICES ASSUME PathInv, result = "planned" PROVE Conserves(change.files, plan)
      BY DEF PlanConservesLines, Conserves
    <2>1. PICK files, capacity : /\ GoodFiles(files) /\ capacity \in [context : Nat, output : Nat]
                                 /\ plan = Plan(files, capacity) /\ files = change.files
      BY PlanOfFiles
    <2>2. PICK parts, file, foot, of : /\ ScopesAre(files, plan, parts, file, foot)
                                       /\ UnitsAre(plan, parts, of)
      BY <2>1, PlanIs
    <2>3. QED BY <2>1, <2>2, PlanConserves
  <1>2. QED BY <1>1, PathInvariance, PTL

-----------------------------------------------------------------------------
(* The identities of a plan                                                *)

\* Every hunk has lines, and no two of them have one text.
Plain(hunks) ==
    \A i \in DOMAIN hunks :
        /\ hunks[i].lines # <<>>
        /\ \A a, b \in DOMAIN hunks[i].lines :
              a # b => hunks[i].lines[a].text # hunks[i].lines[b].text

\* A hunk that has lines has places.
LEMMA PlacesOfPlainHunk ==
  ASSUME NEW hunks, FileHunks(hunks), Plain(hunks), NEW i \in DOMAIN hunks
  PROVE  PlacesIn(hunks, {i}) # {}
  <1>1. hunks[i] \in HunkType /\ hunks[i].lines # <<>>
    BY DEF FileHunks, Plain
  <1>2. 1 \in DOMAIN hunks[i].lines
    <2>1. hunks[i].lines \in Seq(LineType)
      BY <1>1, HunkFields
    <2>2. QED BY <1>1, <2>1
  <1>3. <<i, 1>> \in PlacesIn(hunks, {i})
    BY <1>2, PlacesOfHunk
  <1>4. QED BY <1>3

\* A part that names what it has has something.
LEMMA NamedPartHasLines ==
  ASSUME NEW c, FileHunks(c.hunks), Plain(c.hunks), c.hunks # <<>>, NEW part, NEW F,
         KeyNames(c, part, F) \/ F = LinePlaces(c.hunks)
  PROVE  F # {}
  <1>1. CASE F = LinePlaces(c.hunks)
    <2>1. 1 \in DOMAIN c.hunks
      BY DEF FileHunks
    <2>2. PlacesIn(c.hunks, {1}) # {}
      BY <2>1, PlacesOfPlainHunk
    <2>3. QED BY <1>1, <2>2 DEF PlacesIn
  <1>2. CASE KeyNames(c, part, F)
    <2>1. CASE \E i \in DOMAIN c.hunks : PlacesIn(c.hunks, {i}) \subseteq F
      BY <2>1, PlacesOfPlainHunk
    <2>2. QED BY <1>2, <2>1 DEF KeyNames
  <1>3. QED BY <1>1, <1>2

\* Two parts of a file with one identity have a place in common.
LEMMA SameNameMeets ==
  ASSUME NEW c, FileHunks(c.hunks), Plain(c.hunks), NEW a, NEW b, NEW F, NEW G,
         F \subseteq LinePlaces(c.hunks), G \subseteq LinePlaces(c.hunks),
         KeyNames(c, a, F), KeyNames(c, b, G), a.scope.id = b.scope.id
  PROVE  F \cap G # {}
  <1> DEFINE hunks == c.hunks
             id == a.scope.id
  <1>1. \A i, k \in DOMAIN hunks : hunks[i] = hunks[k] => i = k
    BY HunksDiffer DEF Plain
  <1> HIDE DEF id
  <1>2. CASE id[2] = "hunk_group"
    <2>1. PICK i \in DOMAIN hunks : id[3] = hunks[i] /\ PlacesIn(hunks, {i}) \subseteq F
      BY <1>2 DEF KeyNames, id
    <2>2. PICK k \in DOMAIN hunks : id[3] = hunks[k] /\ PlacesIn(hunks, {k}) \subseteq G
      BY <1>2 DEF KeyNames, id
    <2>3. i = k
      BY <1>1, <2>1, <2>2
    <2>4. PlacesIn(hunks, {i}) # {}
      BY PlacesOfPlainHunk
    <2>5. QED BY <2>1, <2>2, <2>3, <2>4
  <1>3. CASE id[2] # "hunk_group"
    <2>1. PICK x \in F : id[3] = hunks[x[1]] /\ id[4][1] = LineAt(hunks, x).text
      BY <1>3 DEF KeyNames, id
    <2>2. PICK y \in G : id[3] = hunks[y[1]] /\ id[4][1] = LineAt(hunks, y).text
      BY <1>3 DEF KeyNames, id
    <2>3. /\ x = <<x[1], x[2]>> /\ x[1] \in DOMAIN hunks /\ x[2] \in DOMAIN hunks[x[1]].lines
          /\ y = <<y[1], y[2]>> /\ y[1] \in DOMAIN hunks /\ y[2] \in DOMAIN hunks[y[1]].lines
      BY LinePlace
    <2>4. x[1] = y[1]
      BY <1>1, <2>1, <2>2, <2>3
    <2>5. hunks[x[1]].lines[x[2]].text = hunks[x[1]].lines[y[2]].text
      BY <2>1, <2>2, <2>4 DEF LineAt
    <2>6. x[2] = y[2]
      BY <2>3, <2>4, <2>5 DEF Plain
    <2>7. x = y
      BY <2>3, <2>4, <2>6
    <2>8. QED BY <2>7
  <1>4. QED BY <1>2, <1>3

\* A plan of plain hunks is valid.
LEMMA PlainPlanValid ==
  ASSUME NEW files, GoodFiles(files), NEW p, NEW parts, NEW file, NEW foot, NEW of,
         ScopesAre(files, p, parts, file, foot), UnitsAre(p, parts, of),
         \A k \in DOMAIN files : Plain(files[k].hunks)
  PROVE  PlanValid(p)
  <1> DEFINE c(m) == files[file[m]]
  <1>1. \A m \in DOMAIN parts :
           /\ file[m] \in DOMAIN files /\ PartHas(c(m), parts[m], foot[m])
           /\ KeyNames(c(m), parts[m], foot[m]) \/ foot[m] = LinePlaces(c(m).hunks)
    BY DEF ScopesAre
  <1>2. \A m \in DOMAIN parts : FileHunks(c(m).hunks) /\ Plain(c(m).hunks)
    BY <1>1, PlannedFiles DEF PlannedFile
  <1>3. \A x \in DOMAIN p.units :
           /\ of[x] \in DOMAIN parts /\ p.units[x].scope = parts[of[x]].scope.id
           /\ parts[of[x]].scope.disposition = "planned"
           /\ UnitHas(c(of[x]), p.units[x].unit, foot[of[x]]) /\ c(of[x]).hunks # <<>>
    BY UnitOfPart DEF UnitsAre
  <1>4. \A x, y \in DOMAIN p.units : of[x] = of[y] => x = y
    BY DEF UnitsAre
  <1>5. DOMAIN p.scopes = DOMAIN parts /\ \A m \in DOMAIN parts : p.scopes[m] = parts[m].scope
    BY DEF ScopesAre
  <1>6. ASSUME NEW m \in DOMAIN parts, NEW n \in DOMAIN parts, m # n,
               parts[m].scope.id = parts[n].scope.id
        PROVE  FALSE
    <2>1. file[m] = file[n]
      BY <1>6, PartsApart
    <2>2. KeyNames(c(m), parts[m], foot[m]) /\ KeyNames(c(m), parts[n], foot[n])
      BY <1>6, <2>1 DEF ScopesAre
    <2>3. foot[m] \subseteq LinePlaces(c(m).hunks) /\ foot[n] \subseteq LinePlaces(c(m).hunks)
      BY <1>1, <2>1 DEF PartHas
    <2>4. foot[m] \cap foot[n] # {}
      BY <1>2, <1>6, <2>2, <2>3, SameNameMeets
    <2>5. QED BY <1>6, <2>1, <2>4, PartsApart
  <1> HIDE DEF c
  <1>7. ASSUME NEW x \in DOMAIN p.units PROVE p.units[x].unit.lines # <<>>
    <2> DEFINE F == foot[of[x]]
               u == p.units[x].unit
    <2>1. F # {}
      BY <1>1, <1>2, <1>3, NamedPartHasLines
    <2>2. IsSeq(u.lines) /\ ToSet(u.lines) = {LineId(c(of[x]).hunks, q) : q \in F}
      BY <1>3 DEF UnitHas
    <2> HIDE DEF F, u
    <2>3. ToSet(u.lines) # {}
      BY <2>1, <2>2
    <2>4. u.lines # <<>>
      BY <2>2, <2>3, SeqFacts
    <2>5. QED BY <2>4 DEF u
  <1>8. \A j, k \in DOMAIN p.scopes : j # k => p.scopes[j].id # p.scopes[k].id
    BY <1>5, <1>6
  <1>9. \A j, k \in DOMAIN p.units : j # k => p.units[j].scope # p.units[k].scope
    BY <1>3, <1>4, <1>6
  <1>10. \A m \in DOMAIN parts : parts[m].scope.disposition = "planned" =>
            \E x \in DOMAIN p.units : p.units[x].scope = parts[m].scope.id
    <2> SUFFICES ASSUME NEW m \in DOMAIN parts, parts[m].scope.disposition = "planned"
                 PROVE  \E x \in DOMAIN p.units : p.units[x].scope = parts[m].scope.id
      OBVIOUS
    <2>1. parts[m].units # <<>>
      BY <1>1 DEF PartHas
    <2>2. PICK x \in DOMAIN p.units : of[x] = m
      BY <2>1 DEF UnitsAre
    <2>3. QED BY <1>3, <2>2
  <1>11. ASSUME NEW m \in DOMAIN parts, parts[m].scope.kind # "file"
         PROVE  parts[m].scope.range # NoRange
    <2> DEFINE b == files[file[m]]
    <2>1. PartHas(b, parts[m], foot[m]) /\ FileHunks(b.hunks) /\ Plain(b.hunks)
          /\ (KeyNames(b, parts[m], foot[m]) \/ foot[m] = LinePlaces(b.hunks))
      BY <1>1, <1>2 DEF c
    <2> HIDE DEF b
    <2>2. b.hunks # <<>>
      <3>1. b.hunks # <<>> \/ \E i \in DOMAIN b.hunks : TRUE
        BY <1>11, <2>1 DEF PartHas
      <3>2. b.hunks = <<>> => DOMAIN b.hunks = {}
        OBVIOUS
      <3>3. QED BY <3>1, <3>2
    <2>3. foot[m] # {} /\ foot[m] \in SUBSET LinePlaces(b.hunks)
      BY <2>1, <2>2, NamedPartHasLines DEF PartHas
    <2>4. PICK lines : LinesAt(b.hunks, lines, foot[m]) /\ parts[m].scope.range = LineRange(lines)
      BY <1>11, <2>1 DEF PartHas, RangeHas
    <2>5. QED BY <2>1, <2>3, <2>4, RangeNotEmpty
  <1>12. {p.units[k].scope : k \in DOMAIN p.units}
           = {p.scopes[k].id : k \in {k \in DOMAIN p.scopes : p.scopes[k].disposition = "planned"}}
    BY <1>3, <1>5, <1>10
  <1>13. \A k \in DOMAIN p.scopes : p.scopes[k].kind # "file" => p.scopes[k].range # NoRange
    BY <1>5, <1>11
  <1>14. QED BY <1>7, <1>8, <1>9, <1>12, <1>13 DEF PlanValid

\* A plan of an accepted change is refused only if a hunk of it has no lines or
\* repeats a text: no other two scopes or units are ever named alike.
THEOREM RefusalsRepeat == Spec => []RefusedPlansRepeat
  <1>1. PathInv => RefusedPlansRepeat
    <2> SUFFICES ASSUME PathInv, result = "refused",
                        ~ \E k \in DOMAIN change.files : \E h \in ToSet(change.files[k].hunks) :
                             \/ h.lines = <<>>
                             \/ \E i, j \in DOMAIN h.lines : i # j /\ h.lines[i].text = h.lines[j].text
                 PROVE  FALSE
      BY DEF RefusedPlansRepeat
    <2>1. PICK files, capacity : /\ GoodFiles(files) /\ capacity \in [context : Nat, output : Nat]
                                 /\ plan = Plan(files, capacity) /\ files = change.files
      BY PlanOfFiles
    <2>2. PICK parts, file, foot, of : /\ ScopesAre(files, plan, parts, file, foot)
                                       /\ UnitsAre(plan, parts, of)
      BY <2>1, PlanIs
    <2>3. \A k \in DOMAIN files : Plain(files[k].hunks)
      <3> SUFFICES ASSUME NEW k \in DOMAIN files PROVE Plain(files[k].hunks)
        OBVIOUS
      <3>1. \A i \in DOMAIN files[k].hunks : files[k].hunks[i] \in ToSet(files[k].hunks)
        BY DEF ToSet
      <3>2. QED BY <2>1, <3>1 DEF Plain
    <2>4. PlanValid(plan)
      BY <2>1, <2>2, <2>3, PlainPlanValid
    <2>5. QED BY <2>4 DEF PathInv
  <1>2. QED BY <1>1, PathInvariance, PTL
=============================================================================
