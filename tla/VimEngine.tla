------------------------------- MODULE VimEngine -------------------------------
(***************************************************************************)
(* The modal grammar of block text (blocks/editor/vim/engine.ts): word,    *)
(* line and column motions, word text objects, counts, operators, and what *)
(* one key does to the modal state and to the text under it.  A text is a  *)
(* sequence of characters, each one grapheme: "x" is a letter, "_" a       *)
(* space, "/" a line break, the rest punctuation.  Offsets count from 0.   *)
(***************************************************************************)
EXTENDS Integers, Sequences, FiniteSets, FiniteSetsExt, SequencesExt

wordClass(c) == CASE c = "x" -> "word" [] c \in {"_", "/"} -> "space" [] OTHER -> "punctuation"
Kind(v, i) == wordClass(v[i + 1])
Splice(v, from, to, insert) == SubSeq(v, 1, from) \o insert \o SubSeq(v, to + 1, Len(v))
AtLeast(a, b) == IF a < b THEN b ELSE a
AtMost(a, b) == IF a > b THEN b ELSE a

\* The members of a set of numbers in increasing order.
Ordered(S) == [i \in 1..Cardinality(S) |-> CHOOSE x \in S : Cardinality({y \in S : y < x}) = i - 1]

\* step applied n times.
Times(step(_), n, x) == LET f[k \in 0..n] == IF k = 0 THEN x ELSE step(f[k - 1]) IN f[n]
-----------------------------------------------------------------------------
(* Lines.                                                                  *)

previousBoundary(v, p) == AtLeast(AtMost(p, Len(v)) - 1, 0)
nextBoundary(v, p) == AtMost(p + 1, Len(v))

\* The search starts one before the caret, and at the caret when that is 0.
lineStart(v, p) == Max({0} \cup {i + 1 : i \in {j \in 0..AtLeast(p - 1, 0) : j < Len(v) /\ v[j + 1] = "/"}})
lineEnd(v, p) == Min({Len(v)} \cup {j \in p..(Len(v) - 1) : v[j + 1] = "/"})
normalLineEnd(v, p) == IF lineEnd(v, p) > lineStart(v, p) THEN lineEnd(v, p) - 1 ELSE lineStart(v, p)
firstNonBlank(v, p) ==
    LET text == {i \in lineStart(v, p)..(lineEnd(v, p) - 1) : Kind(v, i) # "space"}
    IN IF text = {} THEN lineStart(v, p) ELSE Min(text)
lineStarts(v) == Ordered({0} \cup {i \in 1..Len(v) : v[i] = "/"})
lineIndexAt(starts, p) == Max({1} \cup {i \in DOMAIN starts : starts[i] <= p})
clampNormalColumn(v, start, column) ==
    LET end == lineEnd(v, start)
        to == AtMost(start + column, end)
    IN IF to = end /\ end > start THEN end - 1 ELSE to
caretForVerticalEntry(v, direction, column) ==
    clampNormalColumn(v, IF direction > 0 THEN 0 ELSE lineStart(v, Len(v)), column)
normalCaretAfterEdit(v, p) == IF p < Len(v) THEN p ELSE previousBoundary(v, Len(v))
-----------------------------------------------------------------------------
(* Words.                                                                  *)

\* The first place from i on that is not of the kind, and the ends of a run.
Skip(v, i, kind) == Min({j \in i..Len(v) : j = Len(v) \/ Kind(v, j) # kind})
RunStart(v, i) == Min({j \in 0..i : \A k \in j..i : Kind(v, k) = Kind(v, i)})
RunEnd(v, i) == Skip(v, i, Kind(v, i)) - 1

wordForward(v, p, n) ==
    LET step(i) == IF i >= Len(v) THEN Len(v) ELSE Skip(v, Skip(v, i, Kind(v, i)), "space")
    IN Times(step, n, p)

\* Each further step starts one before the word it reached.
\* Mutant: at the word it reached.
backOver(i) == i
backFrom(i) == i - 1
wordBackward(v, p, n) ==
    LET text(i) == Max({-1} \cup {j \in 0..i : Kind(v, j) # "space"})
        step(i) == LET at == text(backFrom(i)) IN IF at < 0 THEN -1 ELSE RunStart(v, at)
    IN AtLeast(Times(step, n, AtMost(p, Len(v))), 0)

\* Each further step starts one after the word it ended.
wordEnd(v, p, n) ==
    LET past(i) == IF i < Len(v) /\ Skip(v, i, "space") = i /\ RunEnd(v, i) = i THEN Skip(v, i + 1, "space")
                   ELSE Skip(v, i, "space")
        end(i) == IF past(i) >= Len(v) THEN Len(v) ELSE RunEnd(v, past(i))
        step(i) == IF i = Len(v) THEN Len(v) ELSE end(i + 1)
        last == AtLeast(Len(v) - 1, 0)
    IN IF p >= Len(v) THEN last ELSE AtMost(Times(step, n - 1, end(p)), last)

globalWordMotion(v, p, motion, n) ==
    CASE motion = "w" -> wordForward(v, p, n) [] motion = "b" -> wordBackward(v, p, n) [] OTHER -> wordEnd(v, p, n)

\* The text of several units as one stream, one separator between two.
joinTextUnits(values) == [k \in 1..Len(values) |-> FoldLeft(LAMBDA n, v : n + Len(v) + 1, 0, SubSeq(values, 1, k - 1))]
Joined(values) == FoldLeft(LAMBDA v, u : v \o <<"/">> \o u, values[1], Tail(values))
positionInUnits(values, starts, p) ==
    LET last == Len(values)
        at == AtLeast(AtMost(p, starts[last] + Len(values[last])), 0)
        unit == Max({k \in 1..last : starts[k] <= at})
    IN [unit |-> unit, offset |-> AtMost(Len(values[unit]), at - starts[unit])]
wordMotionAcrossUnits(values, unit, p, motion, n) ==
    LET starts == joinTextUnits(values)
    IN positionInUnits(values, starts, globalWordMotion(Joined(values), starts[unit] + p, motion, n))

\* What a word operator leaves of each unit, and where the caret goes.
wordEditsAcrossUnits(values, unit, p, motion, n) ==
    LET starts == joinTextUnits(values)
        origin == starts[unit] + p
        target == globalWordMotion(Joined(values), origin, motion, n)
        from == AtMost(origin, target)
        to == IF target >= origin /\ motion = "e" THEN nextBoundary(Joined(values), target) ELSE AtLeast(origin, target)
        cut(k) == [from |-> AtLeast(from - starts[k], 0), to |-> AtMost(to - starts[k], Len(values[k]))]
    IN [caret |-> positionInUnits(values, starts, from),
        values |-> [k \in DOMAIN values |-> IF cut(k).to > cut(k).from THEN Splice(values[k], cut(k).from, cut(k).to, <<>>)
                                            ELSE values[k]]]

\* The runs of one kind, and the ranges of inner and around objects over n of them.
textRuns(v) ==
    LET starts == Ordered({i \in 0..(Len(v) - 1) : RunStart(v, i) = i})
    IN [k \in DOMAIN starts |-> [from |-> starts[k], to |-> RunEnd(v, starts[k]) + 1, kind |-> Kind(v, starts[k])]]
NoRange == [from |-> 0, to |-> 0]
innerWordRange(runs, i, n) == IF i + n - 1 > Len(runs) THEN NoRange ELSE [from |-> runs[i].from, to |-> runs[i + n - 1].to]
aroundWordRange(runs, i, n) ==
    LET blank(k) == k \in DOMAIN runs /\ runs[k].kind = "space"
        first == IF blank(i) THEN i + 1 ELSE i
        ends == {e \in first..Len(runs) : Cardinality({k \in first..e : ~blank(k)}) = n}
        end == Min(ends)
    IN CASE ends = {} -> NoRange
         [] ends # {} /\ blank(i) -> [from |-> runs[i].from, to |-> runs[end].to]
         [] ends # {} /\ ~blank(i) /\ blank(end + 1) -> [from |-> runs[i].from, to |-> runs[end + 1].to]
         [] OTHER -> [from |-> runs[IF blank(i - 1) THEN i - 1 ELSE i].from, to |-> runs[end].to]
wordTextObjectRange(v, p, around, n) ==
    LET runs == textRuns(v)
        i == IF p >= Len(v) THEN Len(runs) ELSE CHOOSE k \in DOMAIN runs : runs[k].from <= p /\ p < runs[k].to
    IN IF runs = <<>> THEN NoRange ELSE IF around THEN aroundWordRange(runs, i, n) ELSE innerWordRange(runs, i, n)
-----------------------------------------------------------------------------
(* Motions.  A column of -1 is none.                                       *)

Motion(position) == [kind |-> "text", position |-> position, inclusive |-> FALSE, column |-> -1, lines |-> 0]
NoMotion == [Motion(0) EXCEPT !.kind = "none"]

verticalMotion(v, p, lines, desired) ==
    LET starts == lineStarts(v)
        line == lineIndexAt(starts, p)
        column == IF desired >= 0 THEN desired ELSE p - starts[line]
        to == line + lines
    IN IF to \in DOMAIN starts THEN [Motion(clampNormalColumn(v, starts[to], column)) EXCEPT !.column = column]
       ELSE [Motion(p) EXCEPT !.kind = "surface", !.column = column, !.lines = IF to < 1 THEN to - 1 ELSE to - Len(starts)]

motionFor(v, at, key, n, desired) ==
    LET p == AtMost(at, Len(v))
        left(i) == AtLeast(lineStart(v, i), previousBoundary(v, i))
        right(i) == AtMost(normalLineEnd(v, i), nextBoundary(v, i))
        below(i) == IF lineEnd(v, i) >= Len(v) THEN i ELSE lineEnd(v, i) + 1
    IN CASE key = "j" -> verticalMotion(v, p, n, desired)
         [] key = "k" -> verticalMotion(v, p, -n, desired)
         [] key = "h" -> Motion(Times(left, n, p))
         [] key = "l" -> Motion(Times(right, n, p))
         [] key = "0" -> Motion(lineStart(v, p))
         [] key = "^" -> Motion(firstNonBlank(v, p))
         [] key = "$" -> [Motion(normalLineEnd(v, Times(below, n - 1, p))) EXCEPT !.inclusive = TRUE]
         [] key \in {"w", "b", "e"} -> [Motion(globalWordMotion(v, p, key, n)) EXCEPT !.inclusive = key = "e"]
         [] OTHER -> NoMotion

operatorRange(v, p, m) ==
    IF m.position >= p THEN [from |-> p, to |-> IF m.inclusive THEN nextBoundary(v, m.position) ELSE m.position]
    ELSE [from |-> m.position, to |-> p]
-----------------------------------------------------------------------------
(* The grammar: what a key makes of the modal state and of the text.       *)

State(mode) == [mode |-> mode, count |-> 0, operator |-> "none", operatorCount |-> 1, object |-> "none", prefix |-> FALSE,
                column |-> -1]
normal == State("normal")
insert == State("insert")
visual == State("visual-line")
parsedCount(c) == AtLeast(c, 1)

\* A count keeps its first four digits.
appendCount(s, digit) == [s EXCEPT !.count = IF @ > 999 THEN @ ELSE 10 * @ + digit]
Digit == [d \in {"0", "1", "2", "3"} |-> CASE d = "0" -> 0 [] d = "1" -> 1 [] d = "2" -> 2 [] OTHER -> 3]
isDigit(s, key) == key \in DOMAIN Digit /\ (key = "0" => s.count > 0)

\* At most one effect: a caret, an edit, or an intent for the surface.
Nothing == [kind |-> "none", type |-> "none", from |-> 0, to |-> 0, n |-> 0, motion |-> "", operator |-> "none"]
Caret(p) == [Nothing EXCEPT !.kind = "selection", !.to = p]
Edit(from, to, caret) == [Nothing EXCEPT !.kind = "edit", !.from = from, !.to = to, !.n = caret]
Surface(type, n) == [Nothing EXCEPT !.kind = "surface", !.type = type, !.n = n]
result(s, effect) == [handled |-> TRUE, state |-> s, effect |-> effect]
pass(s) == [handled |-> FALSE, state |-> s, effect |-> Nothing]

\* t is the text area: value, caret, editable, visual and cross (what the host supports).
editEffect(t, r, changing) ==
    Edit(r.from, r.to, IF changing THEN r.from ELSE normalCaretAfterEdit(Splice(t.value, r.from, r.to, <<>>), r.from))
Removes(t, r, changing) ==
    IF r.from = r.to THEN result(normal, Nothing)
    ELSE result(IF changing THEN insert ELSE normal, editEffect(t, r, changing))
Intent(t, effect) == result(normal, IF t.editable THEN effect ELSE Nothing)
Words(t, s, key, n, operator) ==
    result(s, [Surface("word-motion", n) EXCEPT !.from = t.caret, !.motion = key, !.operator = operator])

interpretOperator(s, t, key) ==
    LET n == s.operatorCount * parsedCount(s.count)
        changing == s.operator = "change"
        edits == s.operator \in {"delete", "change"}
        m == motionFor(t.value, t.caret, key, n, s.column)
        doubled == key = CASE s.operator = "delete" -> "d" [] changing -> "c" [] s.operator = "indent" -> ">" [] OTHER -> "<"
    IN CASE isDigit(s, key) -> result(appendCount(s, Digit[key]), Nothing)
         [] ~isDigit(s, key) /\ edits /\ s.object = "none" /\ key \in {"i", "a"} ->
                result([s EXCEPT !.object = IF key = "i" THEN "inner" ELSE "around"], Nothing)
         [] ~isDigit(s, key) /\ s.object # "none" ->
                IF key = "w" /\ t.editable
                THEN Removes(t, wordTextObjectRange(t.value, t.caret, s.object = "around", n), changing)
                ELSE result(normal, Nothing)
         [] s.object = "none" /\ doubled ->
                IF changing /\ t.editable THEN result(insert, editEffect(t, [from |-> 0, to |-> Len(t.value)], TRUE))
                ELSE Intent(t, Surface(IF s.operator = "delete" THEN "delete-unit" ELSE s.operator, n))
         [] s.object = "none" /\ edits /\ t.editable /\ t.cross /\ key \in {"w", "b", "e"} ->
                Words(t, IF changing THEN insert ELSE normal, key, n, s.operator)
         [] s.object = "none" /\ edits /\ t.editable /\ ~(t.cross /\ key \in {"w", "b", "e"}) /\ ~isDigit(s, key)
            /\ m.kind = "text" ->
                Removes(t, operatorRange(t.value, t.caret, m), changing)
         [] OTHER -> result(normal, Nothing)

enterInsert(t, key) ==
    LET caret == CASE key = "i" -> t.caret
                   [] key = "a" -> AtMost(lineEnd(t.value, t.caret), nextBoundary(t.value, t.caret))
                   [] key = "I" -> firstNonBlank(t.value, t.caret)
                   [] OTHER -> lineEnd(t.value, t.caret)
    IN IF t.editable THEN result(insert, Caret(caret)) ELSE result(normal, Nothing)

deleteCharacters(t, n) ==
    Removes(t, [from |-> t.caret, to |-> AtLeast(t.caret, AtMost(t.caret + n, lineEnd(t.value, t.caret)))], FALSE)

interpretVisualLine(s, key) ==
    LET n == parsedCount(s.count)
        finish == CASE key \in {"d", "Delete", "Backspace"} -> "visual-delete" [] key \in {">", "Tab"} -> "visual-indent"
                    [] key = "<" -> "visual-outdent" [] OTHER -> "none"
    IN CASE key \in {"Escape", "V"} -> result(normal, Surface("visual-cancel", 0))
         [] key \in {"ContextMenu", "C-x", "C-r"} -> pass(s)
         [] isDigit(s, key) -> result(appendCount(s, Digit[key]), Nothing)
         [] s.prefix /\ ~isDigit(s, key) /\ key \notin {"Escape", "V", "ContextMenu", "C-x", "C-r"} ->
                result(visual, IF key = "g" THEN Surface("visual-first", 0) ELSE Nothing)
         [] ~s.prefix /\ key = "g" -> result([s EXCEPT !.prefix = TRUE], Nothing)
         [] ~s.prefix /\ key = "G" -> result(visual, Surface("visual-last", 0))
         [] ~s.prefix /\ key \in {"j", "k"} -> result(visual, Surface("visual-move", IF key = "j" THEN n ELSE -n))
         [] ~s.prefix /\ finish # "none" -> result(normal, Surface(finish, 0))
         [] OTHER -> result(visual, Nothing)

interpretNormal(s, t, key) ==
    LET n == parsedCount(s.count)
        m == motionFor(t.value, t.caret, key, n, s.column)
        operator == CASE key = "d" -> "delete" [] key = "c" -> "change" [] key = ">" -> "indent" [] OTHER -> "outdent"
        line == [from |-> t.caret, to |-> lineEnd(t.value, t.caret)]
    IN CASE s.prefix -> result(normal, IF key = "g" THEN Surface("focus-first", 0) ELSE Nothing)
         [] ~s.prefix /\ isDigit(s, key) -> result(appendCount(s, Digit[key]), Nothing)
         [] ~s.prefix /\ key = "V" -> IF t.visual THEN result(visual, Surface("visual-begin", n)) ELSE result(normal, Nothing)
         [] ~s.prefix /\ key = "g" -> result([s EXCEPT !.prefix = TRUE], Nothing)
         [] ~s.prefix /\ key = "G" -> result(normal, Surface("focus-last", 0))
         [] ~s.prefix /\ key \in {"d", "c", ">", "<"} ->
                result([State("operator-pending") EXCEPT !.operator = operator, !.operatorCount = n], Nothing)
         [] ~s.prefix /\ key \in {"i", "a", "I", "A"} -> enterInsert(t, key)
         [] ~s.prefix /\ key \in {"o", "O"} ->
                IF t.editable THEN result(insert, Surface("open", 0)) ELSE result(normal, Nothing)
         [] ~s.prefix /\ key = "u" -> Intent(t, Surface("undo", 0))
         [] ~s.prefix /\ key = "Tab" -> Intent(t, Surface("indent", n))
         [] ~s.prefix /\ key = "Delete" -> IF t.editable THEN deleteCharacters(t, n) ELSE result(normal, Nothing)
         [] ~s.prefix /\ key \in {"D", "C"} ->
                IF ~t.editable THEN result(normal, Nothing)
                ELSE IF line.to > line.from THEN Removes(t, line, key = "C")
                ELSE result(IF key = "C" THEN insert ELSE normal, Nothing)
         [] ~s.prefix /\ t.cross /\ key \in {"w", "b", "e"} -> Words(t, normal, key, n, "none")
         [] ~s.prefix /\ ~(t.cross /\ key \in {"w", "b", "e"}) /\ ~isDigit(s, key) /\ m.kind = "surface" ->
                result([normal EXCEPT !.column = m.column], [Surface("focus", m.lines) EXCEPT !.to = m.column])
         [] ~s.prefix /\ ~(t.cross /\ key \in {"w", "b", "e"}) /\ ~isDigit(s, key) /\ m.kind = "text" ->
                result([normal EXCEPT !.column = m.column], Caret(m.position))
         [] OTHER -> result(normal, Nothing)

interpretVimKey(s, t, key) ==
    CASE s.mode = "insert" ->
            IF key # "Escape" THEN pass(s)
            ELSE result(normal, Caret(IF t.caret > lineStart(t.value, t.caret) THEN t.caret - 1 ELSE t.caret))
      [] s.mode = "visual-line" -> interpretVisualLine(s, key)
      [] s.mode \in {"normal", "operator-pending"} /\ key = "Escape" -> result(normal, Nothing)
      [] s.mode \in {"normal", "operator-pending"} /\ key = "C-r" -> Intent(t, Surface("redo", 0))
      [] s.mode \in {"normal", "operator-pending"} /\ key \in {"ContextMenu", "C-x"} -> pass(s)
      [] s.mode = "operator-pending" /\ key \notin {"Escape", "C-r", "ContextMenu", "C-x"} -> interpretOperator(s, t, key)
      [] OTHER -> interpretNormal(s, t, key)
=============================================================================
