------------------------------- MODULE BlockInput -------------------------------
(***************************************************************************)
(* The text area of a block as an input boundary (BlockTextArea.tsx,       *)
(* auto-pair.ts): keys in Vim's modes, typed characters that open, close   *)
(* or step over a pair, compositions whose text cannot be refused and is   *)
(* repaired afterwards, and the outline and query cell that host it.       *)
(***************************************************************************)
EXTENDS VimEngine

CONSTANTS
    Opened,        \* the texts and hosts a run starts from: see Init
    MaxText        \* bound: characters of a unit

VARIABLES
    units,         \* the text of each block of the outline
    ed,            \* the text area and its session: see Init
    acts           \* bound: input events left

vars == <<units, ed, acts>>

\* Brackets pair; so does a quote, which is its own closer.
PAIRS == [c \in {"(", "'"} |-> IF c = "(" THEN ")" ELSE "'"]
Closers == {")", "'"}
SYMMETRIC == {"'"}
Typed == {"x", "(", ")", "'"}
Keys == {"h", "j", "k", "l", "0", "2", "^", "$", "w", "b", "e", "i", "a", "I", "A", "o", "u", "d", "c", ">", "<", "V", "g", "G",
         "Delete", "D", "C", "Tab", "Escape", "C-r", "C-x", "z"}

NoRepair == [on |-> FALSE, value |-> <<>>, from |-> 0, to |-> 0, caret |-> 0, marker |-> 0]

\*   unit, start, end   the focused block and its selection
\*   vim                the modal state              host   "outline" or "cell"
\*   markers            offsets of generated closers
\*   composing, from    a composition under way, and where its text begins
\*   repair             the edit that takes back a closer a composition doubled
\*   typed              history: what the reader sees as written before the selection
\*   refused            history: a character reached the text outside Insert mode
Text == units[ed.unit]
TypeOK ==
    /\ ed.unit \in DOMAIN units /\ ed.start \in 0..Len(Text) /\ ed.end \in ed.start..Len(Text)
    /\ \A k \in ed.markers : k \in 0..(Len(Text) - 1)
    /\ ed.vim.mode \in {"normal", "insert", "operator-pending", "visual-line"}

acceptsTextInput == ed.keymap # "vim" \/ ed.vim.mode = "insert"
Before(v, p) == SubSeq(v, 1, p)
Act == acts > 0 /\ acts' = acts - 1
-----------------------------------------------------------------------------
(* Pairs.                                                                  *)

\* The replaced stretch: where the selection says, if the rest agrees, else the
\* longest common ends.  A hint of -1 is none.
contiguousEdit(before, after, start, end) ==
    LET grown == Len(after) - Len(before) + end - start
        fits == /\ start >= 0 /\ grown >= 0 /\ Before(after, start) = Before(before, start)
                /\ SubSeq(after, start + grown + 1, Len(after)) = SubSeq(before, end + 1, Len(before))
        short == AtMost(Len(before), Len(after))
        head == Max({i \in 0..short : Before(before, i) = Before(after, i)})
        tail == Max({i \in 0..(short - head) : SubSeq(before, Len(before) - i + 1, Len(before))
                                               = SubSeq(after, Len(after) - i + 1, Len(after))})
    IN IF fits THEN [start |-> start, oldEnd |-> end, newEnd |-> start + grown]
       ELSE [start |-> head, oldEnd |-> Len(before) - tail, newEnd |-> Len(after) - tail]

transformAutoClosers(before, after, markers, start, end) ==
    LET e == contiguousEdit(before, after, start, end)
        moved == IF before = after THEN markers
                 ELSE {k \in markers : k < e.start} \cup {k + e.newEnd - e.oldEnd : k \in {m \in markers : m >= e.oldEnd}}
    IN {k \in moved : k < Len(after) /\ after[k + 1] \in Closers}

NoPlan == [on |-> FALSE, from |-> 0, to |-> 0, insert |-> <<>>, start |-> 0, end |-> 0, marker |-> -1]
Plan(from, to, text, start, end, marker) ==
    [on |-> TRUE, from |-> from, to |-> to, insert |-> text, start |-> start, end |-> end, marker |-> marker]

\* What a typed character or a Backspace does instead of the browser's own edit.
planDelete(v, start, end) ==
    IF start = end /\ start > 0 /\ end < Len(v) /\ v[start] \in DOMAIN PAIRS /\ PAIRS[v[start]] = v[end + 1]
    THEN Plan(start - 1, end + 1, <<>>, start - 1, start - 1, -1) ELSE NoPlan
overtypes(v, start, end, c) == start = end /\ c \in Closers /\ start < Len(v) /\ v[start + 1] = c
opensAfter(v, start, end, c) ==
    c \in SYMMETRIC => /\ (start > 0 => v[start] # "x") /\ (end < Len(v) => v[end + 1] # "x")
planAutoPair(v, start, end, c) ==
    CASE overtypes(v, start, end, c) -> Plan(start, start, <<>>, start + 1, start + 1, -1)
      [] ~overtypes(v, start, end, c) /\ c \in DOMAIN PAIRS /\ start < end ->
            Plan(start, end, <<c>> \o SubSeq(v, start + 1, end) \o <<PAIRS[c]>>, start + 1, end + 1, end + 1)
      [] ~overtypes(v, start, end, c) /\ c \in DOMAIN PAIRS /\ start = end /\ opensAfter(v, start, end, c) ->
            Plan(start, end, <<c, PAIRS[c]>>, start + 1, start + 1, start + 1)
      [] OTHER -> NoPlan

\* A composition that ends with a closer right before a generated one doubled it.
planAutoPairInputRepair(before, after, markers, start, end) ==
    LET e == contiguousEdit(before, after, start, end)
        doubled == {k \in transformAutoClosers(before, after, markers, start, end) :
                        k = e.newEnd /\ e.newEnd > e.start /\ after[e.newEnd] = after[k + 1]}
    IN IF before = after \/ doubled = {} THEN NoRepair
       ELSE [on |-> TRUE, value |-> after, from |-> e.newEnd - 1, to |-> e.newEnd, caret |-> e.newEnd, marker |-> e.newEnd - 1]

\* The host takes the new text with the closers that are still there.
onInput(u, before, after, start, end, marker) ==
    [u EXCEPT !.markers = transformAutoClosers(before, after, @, start, end) \cup (IF marker >= 0 THEN {marker} ELSE {})]
-----------------------------------------------------------------------------
(* Typing and compositions.                                                *)

Place(v) == units' = [units EXCEPT ![ed.unit] = v]
Puts(v, u, typed) == Place(v) /\ ed' = [u EXCEPT !.typed = typed, !.refused = @ \/ (v # Text /\ ~acceptsTextInput)]
Applies(plan, typed) ==
    LET v == Splice(Text, plan.from, plan.to, plan.insert)
        u == [ed EXCEPT !.start = plan.start, !.end = plan.end]
    IN Puts(v, IF v = Text THEN u ELSE onInput(u, Text, v, plan.from, plan.to, plan.marker), typed)

handleBeforeInput ==
    /\ Act /\ ~ed.composing /\ ~ed.readonly
    /\ IF ~acceptsTextInput THEN UNCHANGED <<units, ed>>
       ELSE \/ \E c \in Typed :
                  LET plan == planAutoPair(Text, ed.start, ed.end, c)
                      v == Splice(Text, ed.start, ed.end, <<c>>)
                      u == [ed EXCEPT !.start = @ + 1, !.end = ed.start + 1]
                  IN /\ Len(Text) + 2 <= MaxText
                     /\ IF plan.on THEN Applies(plan, Append(ed.typed, c))
                        ELSE Puts(v, onInput(u, Text, v, -1, -1, -1), Append(ed.typed, c))
            \/ LET plan == planDelete(Text, ed.start, ed.end)
                   from == IF ed.start < ed.end THEN ed.start ELSE ed.start - 1
                   v == Splice(Text, from, ed.end, <<>>)
               IN /\ ed.end > 0
                  /\ IF plan.on THEN Applies(plan, Before(ed.typed, Len(ed.typed) - 1))
                     ELSE Puts(v, onInput([ed EXCEPT !.start = from, !.end = from], Text, v, -1, -1, -1), Before(ed.typed, from))

\* A composition replaces its own text again and again; the browser offers no way
\* to refuse that, so the text is put back where it is not accepted.
compositionStart ==
    /\ Act /\ ~ed.composing /\ ~ed.readonly
    /\ ed' = [ed EXCEPT !.composing = TRUE, !.from = ed.start] /\ UNCHANGED units
\* Mutant: the composed text stays.
leaves(v, composed) == composed
refuses(v, composed) == v
handleInput ==
    /\ Act /\ ed.composing
    /\ \E s \in {<<>>, <<"x">>, <<"x", ")">>} :
          LET v == Splice(Text, ed.from, ed.end, s)
              end == ed.from + Len(s)
              u == [ed EXCEPT !.start = end, !.end = end]
              repair == planAutoPairInputRepair(Text, v, ed.markers, ed.start, ed.end)
          IN /\ Len(v) <= MaxText
             /\ CASE ed.readonly -> UNCHANGED <<units, ed>>
                  [] ~ed.readonly /\ ~acceptsTextInput -> Puts(refuses(Text, v), [ed EXCEPT !.repair = NoRepair], ed.typed)
                  [] OTHER -> Puts(v, [onInput(u, Text, v, -1, -1, -1) EXCEPT !.repair = IF repair.on THEN repair ELSE @],
                                   Before(ed.typed, ed.from) \o s)

\* The repair waits for the end of the composition, and for the text it was planned on.
\* Mutant: whatever the text is.
repairsAnyway(v, repair) == repair.on /\ repair.to <= Len(v)
repairs(v, repair) == repair.on /\ repair.value = v
handleCompositionEnd ==
    /\ ed.composing /\ UNCHANGED acts
    /\ LET r == ed.repair
           ended == [ed EXCEPT !.composing = FALSE, !.repair = NoRepair]
           v == Splice(Text, r.from, r.to, <<>>)
       IN IF repairs(Text, r)
          THEN /\ Place(v)
               /\ ed' = onInput([ended EXCEPT !.start = r.caret, !.end = r.caret], Text, v, r.from, r.to, r.marker)
          ELSE ed' = ended /\ UNCHANGED units

\* The last text of a composition can also come after its end.
lateInput ==
    /\ Act /\ ~ed.composing /\ ~ed.readonly /\ Len(Text) + 1 <= MaxText /\ ed.start = ed.end
    /\ LET v == Splice(Text, ed.start, ed.start, <<")">>)
           r == planAutoPairInputRepair(Text, v, ed.markers, ed.start, ed.start)
           w == IF r.on THEN Splice(v, r.from, r.to, <<>>) ELSE v
       IN IF ~acceptsTextInput THEN Puts(refuses(Text, v), ed, ed.typed)
          ELSE Puts(w, onInput([ed EXCEPT !.start = @ + 1, !.end = ed.start + 1], Text, w, -1, -1, -1), Append(ed.typed, ")"))
-----------------------------------------------------------------------------
(* Keys.                                                                   *)

Moves(u, unit, p) == [u EXCEPT !.unit = unit, !.start = p, !.end = p, !.typed = Before(units[unit], p),
                               !.markers = IF unit = u.unit THEN @ ELSE {}]
outline == ed.host = "outline"
Area == [value |-> Text, caret |-> ed.start, editable |-> ~ed.readonly, visual |-> outline /\ ~ed.readonly, cross |-> outline]

\* A word motion runs over all blocks; its operator edits each of them.
runVimWordMotion(u, e) ==
    \E to \in {wordMotionAcrossUnits(units, u.unit, e.from, e.motion, e.n)} :
    \E plan \in {wordEditsAcrossUnits(units, u.unit, e.from, e.motion, e.n)} :
    LET v == plan.values[plan.caret.unit]
        p == IF e.operator = "change" THEN AtMost(plan.caret.offset, Len(v)) ELSE normalCaretAfterEdit(v, plan.caret.offset)
    IN IF e.operator = "none" THEN ed' = Moves(u, to.unit, to.offset) /\ UNCHANGED units
       ELSE IF u.readonly \/ plan.values = units
       THEN ed' = [u EXCEPT !.vim = IF e.operator = "change" /\ ~u.readonly THEN normal ELSE @] /\ UNCHANGED units
       ELSE /\ units' = plan.values
            /\ ed' = [u EXCEPT !.unit = plan.caret.unit, !.start = p, !.end = p, !.typed = Before(v, p), !.markers = {}]

runOutlineVimSurface(u, e) ==
    LET near == AtLeast(AtMost(u.unit + e.n, Len(units)), 1)
        last == Len(units)
    IN CASE e.type = "focus" /\ near # u.unit ->
                ed' = Moves(u, near, caretForVerticalEntry(units[near], e.n, e.to)) /\ UNCHANGED units
         [] e.type = "focus-first" -> ed' = Moves(u, 1, 0) /\ UNCHANGED units
         [] e.type = "focus-last" ->
                ed' = Moves(u, last, caretForVerticalEntry(units[last], -1, Len(units[last]))) /\ UNCHANGED units
         [] e.type = "word-motion" -> runVimWordMotion(u, e)
         [] OTHER -> ed' = u /\ UNCHANGED units

\* A cell takes text effects and history; it stays in Normal mode where it would open a block.
runCellSurface(u, e) == ed' = [u EXCEPT !.vim = IF e.type = "open" THEN normal ELSE @] /\ UNCHANGED units

handleOutlineVim ==
    /\ Act /\ ed.keymap = "vim" /\ ~ed.composing
    /\ \E key \in Keys : \E i \in {interpretVimKey(ed.vim, Area, key)} :
          LET u == [ed EXCEPT !.vim = i.state]
              e == i.effect
              v == Splice(Text, e.from, e.to, <<>>)
          IN /\ ed.vim.count < 10 \/ key \notin DOMAIN Digit
             /\ i.handled \/ key \in {"C-x", "z"}
             /\ CASE e.kind = "selection" -> ed' = Moves(u, ed.unit, e.to) /\ UNCHANGED units
                  [] e.kind = "edit" -> /\ Place(v)
                                        /\ ed' = [onInput(u, Text, v, e.from, e.to, -1)
                                                  EXCEPT !.start = e.n, !.end = e.n, !.typed = Before(v, e.n)]
                  [] e.kind = "surface" -> IF outline THEN runOutlineVimSurface(u, e) ELSE runCellSurface(u, e)
                  [] OTHER -> ed' = u /\ UNCHANGED units

\* A press puts the caret or a selection anywhere and enters Insert mode.
activate ==
    /\ Act /\ ~ed.composing
    /\ \E start \in 0..Len(Text) : \E end \in {start, Len(Text)} :
          ed' = [ed EXCEPT !.start = start, !.end = end, !.typed = Before(Text, start),
                           !.vim = IF ed.keymap = "vim" /\ ~ed.readonly THEN insert ELSE normal]
    /\ UNCHANGED units

\* The keymap is changed: the modal session starts over.
setKeymap == /\ Act /\ ~ed.composing /\ UNCHANGED units
             /\ ed' = [ed EXCEPT !.keymap = IF @ = "vim" THEN "standard" ELSE "vim", !.vim = normal]

\* Another replica writes at the start of the text: the selection moves along.
observe ==
    /\ Act /\ ~ed.composing /\ Len(Text) < MaxText
    /\ Place(<<"x">> \o Text)
    /\ ed' = [ed EXCEPT !.start = @ + 1, !.end = @ + 1, !.markers = {k + 1 : k \in @}, !.typed = <<"x">> \o @]
leaseMoves == Act /\ ed' = [ed EXCEPT !.readonly = ~@] /\ UNCHANGED units

Init ==
    \E o \in Opened :
        /\ units = o.units /\ acts = o.acts
        /\ ed = [unit |-> 1, start |-> 0, end |-> 0, keymap |-> o.keymap, vim |-> normal, host |-> o.host, readonly |-> FALSE,
                 markers |-> {}, composing |-> FALSE, from |-> 0, repair |-> NoRepair, typed |-> <<>>, refused |-> FALSE]

Next == \/ handleBeforeInput \/ compositionStart \/ handleInput \/ handleCompositionEnd \/ lateInput
        \/ handleOutlineVim \/ activate \/ setKeymap \/ observe \/ leaseMoves

Spec == Init /\ [][Next]_vars
-----------------------------------------------------------------------------
\* Pairing, stepping over closers, compositions and their repairs never change what
\* the reader wrote before the caret: it reads as it was typed, once no composition
\* is under way.
TypedStays == ~ed.composing => Before(Text, ed.start) = ed.typed

\* Outside Insert mode nothing typed or composed reaches the text, also when the
\* browser could not be stopped from inserting it.
NormalModeTypesNothing == ~ed.refused

\* The word motions land where their definition says: w on the n-th start of a word
\* after the caret, b on the n-th before it, e on the first end after it.
Starts(v) == {i \in 0..(Len(v) - 1) : Kind(v, i) # "space" /\ RunStart(v, i) = i}
Ends(v) == {i \in 0..(Len(v) - 1) : Kind(v, i) # "space" /\ RunEnd(v, i) = i}
Nth(S, n, other) == LET s == Ordered(S) IN IF n \in DOMAIN s THEN s[n] ELSE other
WordMotionsLand ==
    \A v \in {Text} : \A starts \in {Starts(v)}, p \in {ed.start} :
        /\ wordEnd(v, p, 1) = Nth({i \in Ends(v) : i > p}, 1, AtLeast(Len(v) - 1, 0))
        /\ \A before \in {{i \in starts : i < p}}, n \in 1..3 :
              /\ wordForward(v, p, n) = Nth({i \in starts : i > p}, n, Len(v))
              /\ wordBackward(v, p, n) = Nth(before, Cardinality(before) + 1 - n, 0)
=============================================================================
