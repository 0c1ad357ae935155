--------------------------- MODULE DiffMatchPatch ---------------------------
(***************************************************************************)
(* The text library under the OT engine (runtime/diff-match-patch): the    *)
(* difference of two texts, its clean-up, patches made from it, and their  *)
(* fuzzy application to another text.  All of it is pure.                  *)
(*                                                                         *)
(* A text is a sequence of characters, a diff a record of an operation and *)
(* a text.  Positions count from 0, as in the code.  Scores of a match are *)
(* multiplied by 2 * Match_Distance * pattern length, to stay integers.    *)
(* The deadline of a diff is a number of rounds that a bisection may take. *)
(* (A definition named X_... is X with a bug put in, for the mutation      *)
(* runs; no other definition uses it.)                                     *)
(***************************************************************************)
EXTENDS Texts, FiniteSets, SequencesExt, FiniteSetsExt

CONSTANTS
    PatchMargin,     \* Patch_Margin: characters of context (4 in the code)
    MatchMaxBits,    \* Match_MaxBits: longest pattern (32)
    MatchDistance,   \* Match_Distance: how far a match may be (1000)
    LineModeFrom,    \* texts longer than this are compared by lines first (100)
    DiffTimeout      \* rounds of a bisection before the deadline

ASSUME DiffAssumption ==
    /\ {PatchMargin, MatchMaxBits, MatchDistance, LineModeFrom, DiffTimeout} \subseteq Nat
    /\ PatchMargin \in 1..4 /\ MatchMaxBits > 2 * PatchMargin /\ MatchDistance > 0

Occurrences(t, pattern) ==
    {i \in 0 .. Len(t) - Len(pattern) : Cut(t, i, i + Len(pattern)) = pattern}
FirstFrom(t, pattern, i) == {p \in Occurrences(t, pattern) : p >= i}

Diff(op, t) == [op |-> op, text |-> t]
DeletedText(diffs) == FlattenSeq([i \in DOMAIN diffs |-> IF diffs[i].op = "delete" THEN diffs[i].text ELSE << >>])
InsertedText(diffs) == FlattenSeq([i \in DOMAIN diffs |-> IF diffs[i].op = "insert" THEN diffs[i].text ELSE << >>])
Text1(diffs) == FlattenSeq([i \in DOMAIN diffs |-> IF diffs[i].op = "insert" THEN << >> ELSE diffs[i].text])
Text2(diffs) == FlattenSeq([i \in DOMAIN diffs |-> IF diffs[i].op = "delete" THEN << >> ELSE diffs[i].text])
NoEmpty(diffs) == SelectSeq(diffs, LAMBDA d : d.text # << >>)

-----------------------------------------------------------------------------
(* Common parts of two texts.                                               *)

\* The binary search of the code for the largest number of the set Good.
RECURSIVE Halving(_, _, _, _)
Halving(Good, min, max, mid) ==
    IF min >= mid THEN mid
    ELSE LET low == IF mid \in Good THEN mid ELSE min
             high == IF mid \in Good THEN max ELSE mid
         IN Halving(Good, low, high, low + (high - low) \div 2)

CommonPrefix(t, u) ==
    LET most == Smaller(Len(t), Len(u))
    IN IF most = 0 \/ t[1] # u[1] THEN 0
       ELSE Halving({n \in 0 .. most : Upto(t, n) = Upto(u, n)}, 0, most, most)
CommonSuffix(t, u) ==
    LET most == Smaller(Len(t), Len(u))
    IN IF most = 0 \/ Last(t) # Last(u) THEN 0
       ELSE Halving({n \in 0 .. most : From(t, Len(t) - n) = From(u, Len(u) - n)}, 0, most, most)

\* How much of the end of t is the beginning of u.
RECURSIVE LongerOverlap(_, _, _, _)
LongerOverlap(t, u, best, length) ==
    LET found == Occurrences(u, From(t, Len(t) - length))
    IN IF found = {} THEN best
       ELSE LET more == length + Min(found)
            IN IF Min(found) = 0 \/ From(t, Len(t) - more) = Upto(u, more)
               THEN LongerOverlap(t, u, more, more + 1)
               ELSE LongerOverlap(t, u, best, more)
CommonOverlap(t, u) ==
    LET n == Smaller(Len(t), Len(u))
        end == From(t, Len(t) - n)
        start == Upto(u, n)
    IN IF n = 0 THEN 0 ELSE IF end = start THEN n ELSE LongerOverlap(end, start, 0, 1)

\* A common middle grown to both sides from places i and j of two texts.
GrownFrom(long, short, i, j) ==
    LET after == CommonPrefix(From(long, i), From(short, j))
        before == CommonSuffix(Upto(long, i), Upto(short, j))
    IN [long |-> <<Upto(long, i - before), From(long, i + after)>>,
        short |-> <<Upto(short, j - before), From(short, j + after)>>,
        middle |-> Cut(short, j - before, j + after)]
LongestGrown(grown, length) ==
    LET better(g, h, j, k) == Len(g.middle) > Len(h.middle) \/ (Len(g.middle) = Len(h.middle) /\ j <= k)
    IN {grown[j] : j \in {j \in DOMAIN grown : /\ 2 * Len(grown[j].middle) >= length
                                               /\ \A k \in DOMAIN grown : better(grown[j], grown[k], j, k)}}
\* The longest middle that grows from a quarter of the longer text at i, if it is
\* half that text: a set of no or one split.
HalfMatchAt(long, short, i) ==
    LongestGrown([j \in Occurrences(short, Cut(long, i, i + Len(long) \div 4)) |->
                      GrownFrom(long, short, i, j)], Len(long))
LongestOf(one, two) ==
    LET better == {h \in one : \A k \in two : Len(h.middle) > Len(k.middle)}
    IN IF better # {} THEN better ELSE two
HalfMatch(t, u) ==
    LET long == IF Len(t) > Len(u) THEN t ELSE u
        short == IF Len(t) > Len(u) THEN u ELSE t
    IN IF Len(long) < 4 \/ 2 * Len(short) < Len(long) THEN {}
       ELSE {[a |-> IF Len(t) > Len(u) THEN h.long ELSE h.short,
              b |-> IF Len(t) > Len(u) THEN h.short ELSE h.long, middle |-> h.middle]
             : h \in LongestOf(HalfMatchAt(long, short, (Len(long) + 3) \div 4),
                               HalfMatchAt(long, short, (Len(long) + 1) \div 2))}

-----------------------------------------------------------------------------
(* Cleaning a list of diffs up.                                             *)

\* diff_cleanupMerge, first pass: the edits before an equality become at most
\* one deletion and one insertion, without what they have in common.
Factored(done, del, ins, p, q, equality) ==
    LET middle(t) == Cut(t, p, Len(t) - q)
        before == IF p = 0 THEN done
                  ELSE IF done = << >> THEN <<Diff("equal", Upto(ins, p))>>
                  ELSE [done EXCEPT ![Len(done)].text = @ \o Upto(ins, p)]
    IN before \o NoEmpty(<<Diff("delete", middle(del)), Diff("insert", middle(ins))>>)
              \o <<Diff("equal", From(ins, Len(ins) - q) \o equality)>>
FactorRun(s, equality) ==
    LET del == DeletedText(s.run)
        ins == InsertedText(s.run)
        p == CommonPrefix(ins, del)
    IN IF del = << >> \/ ins = << >> THEN Factored(s.done, del, ins, 0, 0, equality)
       ELSE Factored(s.done, del, ins, p, CommonSuffix(From(ins, p), From(del, p)), equality)
MergeStep(s, d) ==
    IF d.op # "equal" THEN [s EXCEPT !.run = Append(@, d)]
    ELSE [run |-> << >>,
          done |-> IF Len(s.run) > 1 THEN FactorRun(s, d.text)
                   ELSE IF s.run = << >> /\ s.done # << >>
                   THEN [s.done EXCEPT ![Len(s.done)].text = @ \o d.text]
                   ELSE s.done \o s.run \o <<d>>]
WithoutEmptyEnd(diffs) == IF Last(diffs).text = << >> THEN Front(diffs) ELSE diffs
MergePass(diffs) ==
    WithoutEmptyEnd(FoldLeft(MergeStep, [done |-> << >>, run |-> << >>],
                             Append(diffs, Diff("equal", << >>))).done)

\* Second pass: an edit that ends with the equality before it, or begins with
\* the one after it, moves over it.  i is the place of the edit.
RECURSIVE ShiftPass(_, _, _)
ShiftPass(diffs, i, changed) ==
    IF i >= Len(diffs) THEN [diffs |-> diffs, changed |-> changed]
    ELSE LET before == diffs[i - 1]
             edit == diffs[i]
             after == diffs[i + 1]
             around == before.op = "equal" /\ after.op = "equal"
             left == Len(edit.text) - Len(before.text)
             rest == SubSeq(diffs, i + 2, Len(diffs))
         IN IF around /\ left >= 0 /\ From(edit.text, left) = before.text
            THEN ShiftPass(SubSeq(diffs, 1, i - 2)
                    \o <<Diff(edit.op, before.text \o Upto(edit.text, left)),
                         Diff("equal", before.text \o after.text)>> \o rest, i + 1, TRUE)
            ELSE IF around /\ Upto(edit.text, Len(after.text)) = after.text
            THEN ShiftPass(SubSeq(diffs, 1, i - 2)
                    \o <<Diff("equal", before.text \o after.text),
                         Diff(edit.op, From(edit.text, Len(after.text)) \o after.text)>> \o rest,
                    i + 1, TRUE)
            ELSE ShiftPass(diffs, i + 1, changed)

RECURSIVE CleanupMerge(_)
UntilUnchanged(shifted) == IF shifted.changed THEN CleanupMerge(shifted.diffs) ELSE shifted.diffs
CleanupMerge(diffs) == UntilUnchanged(ShiftPass(MergePass(diffs), 2, FALSE))

\* diff_cleanupSemanticLossless: an edit between two equalities slides to where
\* its borders fall on borders of lines, sentences or words.
Border(one, two) ==
    LET c == Last(one)
        d == Head(two)
        ends(t) == Len(t) > 1 /\ t[Len(t)] = "\n" /\ t[Len(t) - 1] = "\n"
        starts(t) == Len(t) > 1 /\ t[1] = "\n" /\ t[2] = "\n"
    IN IF one = << >> \/ two = << >> THEN 6
       ELSE IF ends(one) \/ starts(two) THEN 5
       ELSE IF "\n" \in {c, d} THEN 4
       ELSE IF c \notin Letters \cup Blank /\ d \in Blank THEN 3
       ELSE IF {c, d} \cap Blank # {} THEN 2
       ELSE IF {c, d} \subseteq Letters THEN 0 ELSE 1
Slide(before, edit, after) ==
    LET all == before \o edit \o after
        n == Len(edit)
        least == Len(before) - CommonSuffix(before, edit)
        places == {p \in least .. Len(all) - n :
                      \A k \in least .. p - 1 : n > 0 /\ all[k + 1] = all[k + n + 1]}
        score == [p \in places |-> Border(Upto(all, p), Cut(all, p, p + n))
                                   + Border(Cut(all, p, p + n), From(all, p + n))]
        cutAt(p) == <<Upto(all, p), Cut(all, p, p + n), From(all, p + n)>>
    IN cutAt(CHOOSE p \in places : \A k \in places :
                 score[k] < score[p] \/ (score[k] = score[p] /\ k <= p))
RECURSIVE LosslessFrom(_, _)
SlidTo(diffs, i, to) ==
    LET before == NoEmpty(<<Diff("equal", to[1])>>)
        after == NoEmpty(<<Diff("equal", to[3])>>)
    IN IF to[1] = diffs[i - 1].text THEN LosslessFrom(diffs, i + 1)
       ELSE LosslessFrom(SubSeq(diffs, 1, i - 2) \o before \o <<Diff(diffs[i].op, to[2])>>
                         \o after \o SubSeq(diffs, i + 2, Len(diffs)),
                         i - 1 + Len(before) + Len(after))
LosslessFrom(diffs, i) ==
    IF i >= Len(diffs) THEN diffs
    ELSE IF diffs[i - 1].op = "equal" /\ diffs[i + 1].op = "equal"
    THEN SlidTo(diffs, i, Slide(diffs[i - 1].text, diffs[i].text, diffs[i + 1].text))
    ELSE LosslessFrom(diffs, i + 1)
CleanupSemanticLossless(diffs) == LosslessFrom(diffs, 2)

\* diff_cleanupSemantic, first pass: an equality no longer than the edits on
\* both its sides becomes a deletion and an insertion.  The stack holds the
\* places of the equalities; two are thrown away with each one that goes, so
\* that the code's length of the stack (depth) can fall below the truth.
RECURSIVE SmallEqualities(_)
SmallEqualities(s) ==
    IF s.at > Len(s.diffs) THEN s
    ELSE LET d == s.diffs[s.at]
             edits == IF d.op = "equal" THEN s.after
                      ELSE [s.after EXCEPT ![d.op] = @ + Len(d.text)]
             goes == /\ s.equality # << >>
                     /\ Len(s.equality) <= Larger(s.before.insert, s.before.delete)
                     /\ Len(s.equality) <= Larger(edits.insert, edits.delete)
             place == Last(s.stack)
             left == SubSeq(s.stack, 1, Len(s.stack) - 2)
         IN IF d.op = "equal"
            THEN SmallEqualities([s EXCEPT !.stack = Append(@, s.at), !.depth = @ + 1,
                    !.before = s.after, !.after = [insert |-> 0, delete |-> 0],
                    !.equality = d.text, !.at = @ + 1])
            ELSE IF goes
            THEN SmallEqualities([
                    diffs |-> SubSeq(s.diffs, 1, place - 1)
                              \o <<Diff("delete", s.equality), Diff("insert", s.equality)>>
                              \o SubSeq(s.diffs, place + 1, Len(s.diffs)),
                    stack |-> left, depth |-> s.depth - 2, equality |-> << >>, changed |-> TRUE,
                    before |-> [insert |-> 0, delete |-> 0], after |-> [insert |-> 0, delete |-> 0],
                    at |-> IF s.depth > 2 THEN Last(left) + 1 ELSE 1])
            ELSE SmallEqualities([s EXCEPT !.after = edits, !.at = @ + 1])

\* Last pass: a deletion and the insertion after it that overlap by half of
\* one of them get their overlap between them.
RECURSIVE OverlapsFrom(_, _)
Overlapping(diffs, i, del, ins, one, two) ==
    LET n == Larger(one, two)
        three == IF one >= two
                 THEN <<Diff("delete", Upto(del, Len(del) - n)), Diff("equal", Upto(ins, n)),
                        Diff("insert", From(ins, n))>>
                 ELSE <<Diff("insert", Upto(ins, Len(ins) - n)), Diff("equal", Upto(del, n)),
                        Diff("delete", From(del, n))>>
    IN IF 2 * n >= Len(del) \/ 2 * n >= Len(ins)
       THEN OverlapsFrom(SubSeq(diffs, 1, i - 2) \o three \o SubSeq(diffs, i + 1, Len(diffs)), i + 3)
       ELSE OverlapsFrom(diffs, i + 2)
OverlapsFrom(diffs, i) ==
    LET del == diffs[i - 1].text
        ins == diffs[i].text
    IN IF i > Len(diffs) THEN diffs
       ELSE IF diffs[i - 1].op # "delete" \/ diffs[i].op # "insert" THEN OverlapsFrom(diffs, i + 1)
       ELSE Overlapping(diffs, i, del, ins, CommonOverlap(del, ins), CommonOverlap(ins, del))

CleanupSemantic(diffs) ==
    LET none == [insert |-> 0, delete |-> 0]
        merged(s) == IF s.changed THEN CleanupMerge(s.diffs) ELSE s.diffs
    IN OverlapsFrom(CleanupSemanticLossless(merged(
           SmallEqualities([diffs |-> diffs, stack |-> << >>, depth |-> 0, equality |-> << >>,
                            changed |-> FALSE, before |-> none, after |-> none, at |-> 1]))), 2)

-----------------------------------------------------------------------------
(* The difference of two texts.                                             *)

\* One side's walk of a bisection at d edits: own.v[k] is how far it has come
\* on diagonal k.  A walk that meets the other side stops and says where.
RECURSIVE Walk(_, _, _, _, _, _, _)
Walk(t, u, d, k, own, other, mayMeet) ==
    IF k > d - own.end THEN own
    ELSE LET x0 == IF k = -d \/ (k # d /\ own.v[k - 1] < own.v[k + 1])
                   THEN own.v[k + 1] ELSE own.v[k - 1] + 1
             x == x0 + CommonPrefix(From(t, x0), From(u, x0 - k))
             moved == [own EXCEPT !.v[k] = x]
             mirror == Len(t) - Len(u) - k
         IN IF x > Len(t) THEN Walk(t, u, d, k + 2, [moved EXCEPT !.end = @ + 2], other, mayMeet)
            ELSE IF x - k > Len(u)
            THEN Walk(t, u, d, k + 2, [moved EXCEPT !.start = @ + 2], other, mayMeet)
            ELSE IF /\ mayMeet
                    /\ mirror \in DOMAIN other.v
                    /\ other.v[mirror] # -1
                    /\ x + other.v[mirror] >= Len(t)
            THEN [moved EXCEPT !.met = {k}]
            ELSE Walk(t, u, d, k + 2, moved, other, mayMeet)

\* Where the two walks meet: a set of no or one place <<x, y>>.
RECURSIVE Meeting(_, _, _, _, _)
MetOr(t, u, d, delta, f, b) ==
    IF f.met # {} THEN {<<f.v[k], f.v[k] - k>> : k \in f.met}
    ELSE IF b.met # {} THEN {<<f.v[delta - k], f.v[delta - k] - (delta - k)>> : k \in b.met}
    ELSE Meeting(t, u, d + 1, f, b)
Meeting(t, u, d, front, back) ==
    LET delta == Len(t) - Len(u)
        backward(f) ==
            MetOr(t, u, d, delta, f,
                  Walk(Reverse(t), Reverse(u), d, back.start - d, back, f, delta % 2 = 0))
    IN IF d >= (Len(t) + Len(u) + 1) \div 2 \/ d >= DiffTimeout THEN {}
       ELSE backward(Walk(t, u, d, front.start - d, front, back, delta % 2 # 0))
MeetingOf(t, u) ==
    LET max == (Len(t) + Len(u) + 1) \div 2
        side == [v |-> [k \in -max .. max - 1 |-> IF k = 1 THEN 0 ELSE -1],
                 start |-> 0, end |-> 0, met |-> {}]
    IN Meeting(t, u, 0, side, side)

\* diff_linesToChars: a text as a sequence of lines, compared like characters.
LinesOf(t) ==
    LET take(lines, c) == IF lines = << >> \/ Last(Last(lines)) = "\n"
                          THEN Append(lines, <<c>>)
                          ELSE [lines EXCEPT ![Len(lines)] = Append(@, c)]
    IN FoldLeft(take, << >>, t)
CharsToLines(diffs) == [i \in DOMAIN diffs |-> [diffs[i] EXCEPT !.text = FlattenSeq(@)]]

\* diff_main, diff_compute_, diff_lineMode_ and diff_bisect_ call one another.
RECURSIVE DiffMain(_, _, _)
DiffCompute(t, u, byLines) ==
    LET long == IF Len(t) > Len(u) THEN t ELSE u
        short == IF Len(t) > Len(u) THEN u ELSE t
        inside == Occurrences(long, short)
        edge == IF Len(t) > Len(u) THEN "delete" ELSE "insert"
        halves == HalfMatch(t, u)
        met == MeetingOf(t, u)
        replaced == <<Diff("delete", t), Diff("insert", u)>>
        Split(a, b, middle, mode) == DiffMain(a[1], b[1], mode) \o middle \o DiffMain(a[2], b[2], mode)
        SplitAround(h) == Split(h.a, h.b, <<Diff("equal", h.middle)>>, byLines)
        SplitAt(m) == Split(<<Upto(t, m[1]), From(t, m[1])>>, <<Upto(u, m[2]), From(u, m[2])>>, << >>, FALSE)
        \* Replaced lines are compared again, now by characters.
        again(s, d) ==
            IF d.op # "equal" THEN [s EXCEPT !.run = Append(@, d)]
            ELSE LET del == DeletedText(s.run)
                     ins == InsertedText(s.run)
                     ops == {s.run[i].op : i \in DOMAIN s.run}
                 IN [run |-> << >>,
                     done |-> s.done \o (IF ops = {"delete", "insert"} THEN DiffMain(del, ins, FALSE)
                                         ELSE s.run) \o <<d>>]
        lines == Append(CleanupSemantic(CharsToLines(DiffMain(LinesOf(t), LinesOf(u), FALSE))),
                        Diff("equal", << >>))
    IN IF t = << >> THEN <<Diff("insert", u)>>
       ELSE IF u = << >> THEN <<Diff("delete", t)>>
       ELSE IF inside # {}
       THEN <<Diff(edge, Upto(long, Min(inside))), Diff("equal", short),
              Diff(edge, From(long, Min(inside) + Len(short)))>>
       ELSE IF Len(short) = 1 THEN replaced
       ELSE IF halves # {}
       THEN SplitAround(CHOOSE h \in halves : TRUE)
       ELSE IF byLines /\ Len(t) > LineModeFrom /\ Len(u) > LineModeFrom
       THEN Front(FoldLeft(again, [done |-> << >>, run |-> << >>], lines).done)
       ELSE IF met # {} THEN SplitAt(CHOOSE m \in met : TRUE)
       ELSE replaced
DiffMain_overlapping(t, u, byLines) ==
    LET p == CommonPrefix(t, u)
        q == CommonSuffix(t, u)
    IN IF t = u THEN NoEmpty(<<Diff("equal", t)>>)
       ELSE CleanupMerge(NoEmpty(<<Diff("equal", Upto(t, p))>>)
                         \o DiffCompute(Cut(t, p, Len(t) - q), Cut(u, p, Len(u) - q), byLines)
                         \o NoEmpty(<<Diff("equal", From(t, Len(t) - q))>>))
DiffMain(t, u, byLines) ==
    LET p == CommonPrefix(t, u)
        q == CommonSuffix(From(t, p), From(u, p))
    IN IF t = u THEN NoEmpty(<<Diff("equal", t)>>)
       ELSE CleanupMerge(NoEmpty(<<Diff("equal", Upto(t, p))>>)
                         \o DiffCompute(Cut(t, p, Len(t) - q), Cut(u, p, Len(u) - q), byLines)
                         \o NoEmpty(<<Diff("equal", From(t, Len(t) - q))>>))

-----------------------------------------------------------------------------
(* Where a pattern is in a text: positions, or -1.                          *)

Abs(n) == IF n < 0 THEN -n ELSE n
\* match_bitapScore_: the less the better; Tolerated is Match_Threshold, 0.5.
MatchScore(pattern, loc, errors, x) == 2 * (errors * MatchDistance + Abs(loc - x) * Len(pattern))
Tolerated(pattern) == Len(pattern) * MatchDistance

\* Bits are sets of their numbers; what a mask keeps is cut off.
ShiftedOne(bits, pattern) == {0} \cup {b \in 1 .. Len(pattern) - 1 : b - 1 \in bits}
AlphabetOf(pattern, c) == {b \in 0 .. Len(pattern) - 1 : pattern[Len(pattern) - b] = c}

\* One row of the bit arrays, for one number of errors, from right to left.
RECURSIVE ScanRow(_, _, _, _, _, _)
ScanRow(t, pattern, loc, errors, j, s) ==
    IF j < s.start THEN s
    ELSE LET exact == ShiftedOne(s.row[j + 1], pattern)
                      \cap (IF j <= Len(t) THEN AlphabetOf(pattern, t[j]) ELSE {})
             bits == IF errors = 0 THEN exact
                     ELSE exact \cup ShiftedOne(s.last[j + 1] \cup s.last[j], pattern) \cup s.last[j + 1]
             score == MatchScore(pattern, loc, errors, j - 1)
             set == [s EXCEPT !.row[j] = bits]
             found == [set EXCEPT !.threshold = score, !.best = j - 1,
                                  !.start = Larger(1, 2 * loc - (j - 1))]
         IN IF Len(pattern) - 1 \in bits /\ score <= s.threshold
            THEN IF j - 1 > loc THEN ScanRow(t, pattern, loc, errors, j - 1, found)
                 ELSE found
            ELSE ScanRow(t, pattern, loc, errors, j - 1, set)

RECURSIVE BitapRows(_, _, _, _, _)
BitapRows(t, pattern, loc, errors, s) ==
    LET reach == Halving({n \in 0 .. s.reach : MatchScore(pattern, loc, errors, loc + n) <= s.threshold},
                         0, s.reach, s.reach)
        finish == Smaller(loc + reach, Len(t)) + Len(pattern)
        none == [i \in 0 .. Len(t) + Len(pattern) + 1 |-> {}]
        row == ScanRow(t, pattern, loc, errors, finish,
                   [s EXCEPT !.reach = reach, !.start = Larger(1, loc - reach + 1),
                             !.row = [none EXCEPT ![finish + 1] = 0 .. errors - 1]])
    IN IF errors = Len(pattern) THEN s.best
       ELSE IF MatchScore(pattern, loc, errors + 1, loc) > row.threshold THEN row.best
       ELSE BitapRows(t, pattern, loc, errors + 1, [row EXCEPT !.last = row.row])

MatchBitap(t, pattern, loc) ==
    LET after == FirstFrom(t, pattern, loc)
        before == {p \in Occurrences(t, pattern) : p <= loc + Len(pattern)}
        near == IF after = {} THEN {} ELSE {Min(after)} \cup (IF before = {} THEN {} ELSE {Max(before)})
        scores == {MatchScore(pattern, loc, 0, p) : p \in near} \cup {Tolerated(pattern)}
        none == [i \in 0 .. Len(t) + Len(pattern) + 1 |-> {}]
    IN BitapRows(t, pattern, loc, 0,
           [threshold |-> Min(scores), best |-> -1, reach |-> Len(pattern) + Len(t),
            row |-> none, last |-> none, start |-> 1])

MatchMain(t, pattern, loc) ==
    LET at == Larger(0, Smaller(loc, Len(t)))
    IN IF t = pattern THEN 0
       ELSE IF t = << >> THEN -1
       ELSE IF Cut(t, at, at + Len(pattern)) = pattern THEN at
       ELSE MatchBitap(t, pattern, at)

-----------------------------------------------------------------------------
(* Patches.                                                                 *)

Patch(diffs, start1, start2, length1, length2) ==
    [diffs |-> diffs, start1 |-> start1, start2 |-> start2, length1 |-> length1, length2 |-> length2]
NoPatch == Patch(<< >>, 0, 0, 0, 0)
Grown(patch, n) == [patch EXCEPT !.length1 = @ + n, !.length2 = @ + n]
MovedBack(patch, n) == [patch EXCEPT !.start1 = @ - n, !.start2 = @ - n]

\* Context until the patched text is found in one place only, and one piece more.
RECURSIVE ContextFor(_, _, _)
ContextFor(patch, t, padding) ==
    LET pattern == Cut(t, patch.start2 - padding, patch.start2 + patch.length1 + padding)
    IN IF Cardinality(Occurrences(t, pattern)) > 1 /\ Len(pattern) < MatchMaxBits - 2 * PatchMargin
       THEN ContextFor(patch, t, padding + PatchMargin)
       ELSE padding + PatchMargin
AddContext(patch, t) ==
    LET padding == ContextFor(patch, t, 0)
        end == patch.start2 + patch.length1
        prefix == Cut(t, patch.start2 - padding, patch.start2)
        suffix == Cut(t, end, end + padding)
        around == NoEmpty(<<Diff("equal", prefix)>>) \o patch.diffs \o NoEmpty(<<Diff("equal", suffix)>>)
    IN IF t = << >> THEN patch
       ELSE Grown(MovedBack([patch EXCEPT !.diffs = around], Len(prefix)), Len(prefix) + Len(suffix))

\* patch_make of a text and its diffs.  pre is the text before the patch under
\* way, post the text after the diffs so far.
MakeStep(s, d, last) ==
    LET n == Len(d.text)
        started == IF s.patch.diffs = << >> /\ d.op # "equal"
                   THEN [s.patch EXCEPT !.start1 = s.count1, !.start2 = s.count2] ELSE s.patch
        taken == [started EXCEPT !.diffs = Append(@, d),
                                 !.length1 = @ + (IF d.op = "insert" THEN 0 ELSE n),
                                 !.length2 = @ + (IF d.op = "delete" THEN 0 ELSE n)]
        post == Upto(s.post, s.count2) \o (IF d.op = "insert" THEN d.text ELSE << >>)
                \o From(s.post, s.count2 + (IF d.op = "delete" THEN n ELSE 0))
        inside == d.op # "equal" \/ (n <= 2 * PatchMargin /\ s.patch.diffs # << >> /\ ~last)
        ends == ~inside /\ n >= 2 * PatchMargin /\ s.patch.diffs # << >>
        count2 == s.count2 + (IF d.op = "delete" THEN 0 ELSE n)
    IN [patches |-> IF ends THEN Append(s.patches, AddContext(s.patch, s.pre)) ELSE s.patches,
        patch |-> IF ends THEN NoPatch ELSE IF inside THEN taken ELSE s.patch,
        pre |-> IF ends THEN s.post ELSE s.pre,
        post |-> IF d.op = "equal" THEN s.post ELSE post,
        count1 |-> IF ends THEN count2 ELSE s.count1 + (IF d.op = "insert" THEN 0 ELSE n),
        count2 |-> count2]
LastMade(end) ==
    IF end.patch.diffs = << >> THEN end.patches ELSE Append(end.patches, AddContext(end.patch, end.pre))
PatchMake(t, diffs) ==
    LastMade(FoldLeft(LAMBDA s, i : MakeStep(s, diffs[i], i = Len(diffs)),
                 [patches |-> << >>, patch |-> NoPatch, pre |-> t, post |-> t, count1 |-> 0, count2 |-> 0],
                 [i \in DOMAIN diffs |-> i]))

\* patch_addPadding: control characters before and after the text, and in the
\* context of the first and the last patch.
NullPadding == SubSeq(<<"pad1", "pad2", "pad3", "pad4">>, 1, PatchMargin)
PaddedStart(patch) ==
    LET first == IF patch.diffs # << >> /\ Head(patch.diffs).op = "equal" THEN Head(patch.diffs).text ELSE << >>
        extra == Larger(PatchMargin - Len(first), 0)
        added == Diff("equal", From(NullPadding, Len(first)) \o first)
    IN IF extra = 0 THEN patch
       ELSE MovedBack(Grown([patch EXCEPT !.diffs = <<added>> \o
                                (IF first = << >> THEN @ ELSE Tail(@))], extra), extra)
PaddedEnd(patch) ==
    LET final == IF patch.diffs # << >> /\ Last(patch.diffs).op = "equal" THEN Last(patch.diffs).text ELSE << >>
        extra == Larger(PatchMargin - Len(final), 0)
        added == Diff("equal", final \o Upto(NullPadding, extra))
    IN IF extra = 0 THEN patch
       ELSE Grown([patch EXCEPT !.diffs = (IF final = << >> THEN @ ELSE Front(@)) \o <<added>>], extra)
AddPadding(patches) ==
    LET bumped == [i \in DOMAIN patches |-> MovedBack(patches[i], -PatchMargin)]
        started == [bumped EXCEPT ![1] = PaddedStart(@)]
    IN [started EXCEPT ![Len(started)] = PaddedEnd(@)]

\* patch_splitMax: a patch with more old text than a pattern can hold is cut up.
\* FillPatch moves diffs from big to a smaller patch until that is full.
RECURSIVE FillPatch(_)
FillPatch(s) ==
    IF s.big = << >> \/ s.patch.length1 >= MatchMaxBits - PatchMargin THEN s
    ELSE LET d == Head(s.big)
             n == Len(d.text)
             huge == /\ d.op = "delete" /\ n > 2 * MatchMaxBits
                     /\ Len(s.patch.diffs) = 1 /\ s.patch.diffs[1].op = "equal"
             take == IF d.op = "insert" \/ huge THEN n
                     ELSE Smaller(n, MatchMaxBits - s.patch.length1 - PatchMargin)
             old == IF d.op = "insert" THEN 0 ELSE take
             new == IF d.op = "delete" THEN 0 ELSE take
         IN FillPatch([big |-> IF take = n THEN Tail(s.big)
                               ELSE [s.big EXCEPT ![1].text = From(@, take)],
                       patch |-> [s.patch EXCEPT !.diffs = Append(@, Diff(d.op, Upto(d.text, take))),
                                                 !.length1 = @ + old, !.length2 = @ + new],
                       start1 |-> s.start1 + old, start2 |-> s.start2 + new,
                       empty |-> s.empty /\ d.op = "equal"])
RECURSIVE CutUp(_, _, _, _)
CutUp(big, start1, start2, precontext) ==
    LET n == Len(precontext)
        s == FillPatch([big |-> big, start1 |-> start1, start2 |-> start2, empty |-> TRUE,
                        patch |-> Patch(NoEmpty(<<Diff("equal", precontext)>>), start1 - n, start2 - n, n, n)])
        text2 == Text2(s.patch.diffs)
        postcontext == Upto(Text1(s.big), PatchMargin)
        diffs == s.patch.diffs
        closed == IF postcontext = << >> THEN diffs
                  ELSE IF diffs # << >> /\ Last(diffs).op = "equal"
                  THEN [diffs EXCEPT ![Len(diffs)].text = @ \o postcontext]
                  ELSE Append(diffs, Diff("equal", postcontext))
        patch == Grown([s.patch EXCEPT !.diffs = closed], Len(postcontext))
    IN IF big = << >> THEN << >>
       ELSE (IF s.empty THEN << >> ELSE <<patch>>)
            \o CutUp(s.big, s.start1, s.start2, From(text2, Len(text2) - PatchMargin))
SplitMax(patches) ==
    FlattenSeq([i \in DOMAIN patches |->
        IF patches[i].length1 <= MatchMaxBits THEN <<patches[i]>>
        ELSE CutUp(patches[i].diffs, patches[i].start1, patches[i].start2, << >>)])

\* diff_xIndex: the place in the new text of a place in the old one.
XIndex(diffs, loc) ==
    LET old(i) == Len(Text1(SubSeq(diffs, 1, i)))
        new(i) == Len(Text2(SubSeq(diffs, 1, i)))
        over == {i \in DOMAIN diffs : old(i) > loc}
        x == IF over = {} THEN Len(diffs) + 1 ELSE Min(over)
        isDeleted == x <= Len(diffs) /\ diffs[x].op = "delete"
    IN IF isDeleted THEN new(x - 1) ELSE new(x - 1) + loc - old(x - 1)

\* diff_levenshtein: characters inserted, deleted or replaced.
Levenshtein(diffs) ==
    LET none == [insert |-> 0, delete |-> 0]
        count(s, d) == IF d.op = "equal" THEN [sum |-> s.sum + Larger(s.run.insert, s.run.delete), run |-> none]
                       ELSE [s EXCEPT !.run[d.op] = @ + Len(d.text)]
    IN FoldLeft(count, [sum |-> 0, run |-> none], Append(diffs, Diff("equal", << >>))).sum

\* The diffs of a patch put into a text that is only like the one expected:
\* their places are translated by the difference of the two.
FuzzyStep(s, d) ==
    LET at == s.start + XIndex(s.frame, s.index)
        end == s.start + XIndex(s.frame, s.index + Len(d.text))
    IN [s EXCEPT
        !.text = CASE d.op = "equal" -> @
                   [] d.op = "insert" -> Upto(@, at) \o d.text \o From(@, at)
                   [] d.op = "delete" -> Upto(@, at) \o From(@, end),
        !.index = @ + (IF d.op = "delete" THEN 0 ELSE Len(d.text))]

\* One patch of patch_apply; s.delta is how far the patch before was from
\* where it was expected.
Perfect(s, patch, start, old) ==
    Upto(s.text, start) \o Text2(patch.diffs) \o From(s.text, start + Len(old))
Imperfect(s, patch, start, frame) ==
    FoldLeft(FuzzyStep, [text |-> s.text, start |-> start, index |-> 0,
                         frame |-> CleanupSemanticLossless(frame)], patch.diffs).text
AppliedAt(s, patch, old, start, found, frame) ==
    LET bad == Len(old) > MatchMaxBits /\ 2 * Levenshtein(frame) > Len(old)
    IN [results |-> Append(s.results, old = found \/ ~bad),
        delta |-> start - (patch.start2 + s.delta),
        text |-> IF old = found THEN Perfect(s, patch, start, old)
                 ELSE IF bad THEN s.text ELSE Imperfect(s, patch, start, frame)]
ApplyStep(s, patch) ==
    LET expected == patch.start2 + s.delta
        old == Text1(patch.diffs)
        isLong == Len(old) > MatchMaxBits
        place(start, end) ==
            LET found == Cut(s.text, start, IF isLong THEN end + MatchMaxBits ELSE start + Len(old))
            IN IF start = -1 \/ (isLong /\ (end = -1 \/ start >= end))
               THEN [s EXCEPT !.results = Append(@, FALSE), !.delta = @ - (patch.length2 - patch.length1)]
               ELSE AppliedAt(s, patch, old, start, found, DiffMain(old, found, FALSE))
        endFor(start) ==
            IF isLong /\ start # -1
            THEN MatchMain(s.text, From(old, Len(old) - MatchMaxBits), expected + Len(old) - MatchMaxBits)
            ELSE start
        from(start) == place(start, endFor(start))
    IN from(MatchMain(s.text, Upto(old, MatchMaxBits), expected))
Stripped_startOnly(t) == From(t, PatchMargin)
Stripped(t) == Cut(t, PatchMargin, Len(t) - PatchMargin)
Unpadded(end) == [text |-> Stripped(end.text), results |-> end.results]
PatchApply(patches, t) ==
    IF patches = << >> THEN [text |-> t, results |-> << >>]
    ELSE Unpadded(FoldLeft(ApplyStep,
                      [text |-> NullPadding \o t \o NullPadding, delta |-> 0, results |-> << >>],
                      SplitMax(AddPadding(patches))))

\* What the OT engine has the library do with two texts (computePatches).
ComputePatches(old, new) == PatchMake(old, CleanupSemantic(DiffMain(old, new, TRUE)))
=============================================================================
