--------------------------- MODULE PropertyEditors ---------------------------
(***************************************************************************)
(* The pickers that edit what a block carries beyond its text: the         *)
(* property picker (PropertyPicker.tsx) with its moment editor             *)
(* (TaskMomentPicker.tsx) and page field (PageAutocomplete.tsx), and the   *)
(* tag picker (TagPicker.tsx, TagChips.tsx).  Every choice is a command    *)
(* that waits in the session's lane while the reader goes on and another   *)
(* replica edits the same block.                                           *)
(***************************************************************************)
EXTENDS Naturals, Sequences, FiniteSets, SequencesExt

CONSTANTS
    MaxPickers,    \* bound: pickers opened
    MaxActs,       \* bound: gestures
    MaxFaults,     \* bound: commands the core refuses
    MaxRemote      \* bound: edits of another replica

VARIABLES
    block,         \* the stored block: see Stored
    view,          \* the reader's side: see View
    lane,          \* commands the session has not finished, in order
    acts, faults, remotes

vars == <<block, view, lane, acts, faults, remotes>>

\* A moment's day, clock and cadence, a property of the user's, and one that
\* holds a set of pages.
Key == {"sched", "time", "repeat", "user", "pages"}
Val == 1..2
Absent == [has |-> FALSE, vals |-> {}]
Field(vals) == [has |-> TRUE, vals |-> vals]

\*   bag       the block's properties            tags    the tags it has
\*   pages     the pages there are               known   the tags there are
\*   cut       times the completion token was taken out of the text
\*   cadence   history: the repeat last written on purpose
Stored(bag, pages) == [bag |-> bag, tags |-> {}, known |-> {1}, pages |-> pages, cut |-> 0, cadence |-> bag["repeat"]]

\*   prefix    "staged": the token's edit waits for the choice it commits with
\*   busy      a command of this picker is in the lane
\*   day, clock, repeat, changed   the moment editor's draft
Picker(n, prefix) ==
    [on |-> TRUE, n |-> n, stage |-> "property", key |-> "none", draft |-> 1, custom |-> FALSE, prefix |-> prefix,
     busy |-> FALSE, making |-> FALSE, day |-> 1, clock |-> {}, repeat |-> {}, changed |-> FALSE]
Closed == [Picker(0, "none") EXCEPT !.on = FALSE]
\*   owed      history: a token waits for its edit
\*   dropped   history: the row went away under the picker that had the edit, which no
\*             command carried
\*   twice     history: a second command took the edit while the page field's carried it
View == [p |-> Closed, opened |-> 0, mode |-> "exclusive", tagging |-> FALSE, adding |-> FALSE,
         owed |-> FALSE, dropped |-> FALSE, twice |-> FALSE]

TypeOK ==
    /\ block.bag \in [Key -> [has : BOOLEAN, vals : SUBSET Val]] /\ block.cut \in 0..(MaxPickers + 1)
    /\ block.tags \subseteq 1..3 /\ view.p.stage \in {"property", "type", "value"}
    /\ view.p.n <= view.opened /\ Len(lane) <= MaxActs
-----------------------------------------------------------------------------
(* Commands.                                                               *)

Cmd(op, key, val) == [op |-> op, key |-> key, val |-> val]
Splice == Cmd("splice", "none", 0)

\* What the core makes of a command on the block.
Apply(b, c) ==
    LET put(f) == [b EXCEPT !.bag[c.key] = f,
                            !.cadence = IF c.key = "repeat" /\ c.op # "also" THEN f ELSE @]
    IN CASE c.op = "splice" -> [b EXCEPT !.cut = @ + 1]
         [] c.op \in {"set", "also"} -> put(Field({c.val}))
         [] c.op = "unset"       -> put(Absent)
         [] c.op = "add"         -> put(Field(b.bag[c.key].vals \cup {c.val}))
         [] c.op = "remove"      -> put([b.bag[c.key] EXCEPT !.vals = @ \ {c.val}])
         [] c.op = "clear"       -> put([b.bag[c.key] EXCEPT !.vals = {}])
         [] c.op = "ensure"      -> put(Field(b.bag[c.key].vals))
         [] c.op = "ensure_page" -> [b EXCEPT !.pages = @ \cup {c.val}]
         [] c.op = "ensure_tag"  -> [b EXCEPT !.known = @ \cup {c.val}]
         [] c.op = "add_tag"     -> [b EXCEPT !.tags = @ \cup {c.val}]
         [] c.op = "remove_tag"  -> [b EXCEPT !.tags = @ \ {c.val}]

execute(l, cmds, by, n) == Append(l, [cmds |-> cmds, by |-> by, n |-> n])

Carriers(l) == SelectSeq(l, LAMBDA e : Contains(e.cmds, Splice))
Reader(v, l) ==
    /\ lane' = l
    /\ LET both == Len(Carriers(l)) > 1 /\ \E i \in DOMAIN l : l[i].by = "create"
       IN view' = [v EXCEPT !.twice = @ \/ both]
Act == acts > 0 /\ acts' = acts - 1 /\ UNCHANGED <<block, faults, remotes>>
-----------------------------------------------------------------------------
(* The property picker.                                                    *)

p == view.p
readonly == view.mode = "readonly"

\* A set-valued property has its own commands; a field the bag has keeps its shape.
Repeated(key) == key = "pages"
writeDisabled == readonly
Offered == Key \ {"time"}

\* The value stage starts from the stored value, the moment's from all three.
valueStage(q, key) ==
    LET stored(k) == block.bag[k].vals
        one(k) == IF stored(k) = {} THEN 1 ELSE CHOOSE v \in stored(k) : TRUE
    IN [q EXCEPT !.stage = "value", !.key = key, !.draft = one(key), !.custom = FALSE,
                 !.day = one("sched"), !.clock = stored("time"), !.repeat = stored("repeat"), !.changed = FALSE]
initialStage(q, key) == IF key = "none" THEN [q EXCEPT !.stage = "property", !.key = "none"] ELSE valueStage(q, key)

\* The picker closes; an edit that was staged with it is written now.
\* Mutant: it is written although the command under way carries it.
closeSubmitting(v, l) ==
    [v |-> [v EXCEPT !.p = Closed], l |-> IF v.p.prefix = "staged" THEN execute(l, <<Splice>>, "close", 0) ELSE l]
close(v, l) ==
    IF v.p.busy THEN [v |-> v, l |-> l]
    ELSE [v |-> [v EXCEPT !.p = Closed],
          l |-> IF v.p.prefix = "staged" THEN execute(l, <<Splice>>, "close", 0) ELSE l]

\* One command at a time, together with the staged edit.
run(cmds) ==
    /\ ~p.busy
    /\ Reader([view EXCEPT !.p.busy = TRUE],
              execute(lane, (IF p.prefix = "staged" THEN <<Splice>> ELSE <<>>) \o cmds, "run", p.n))

\* A chip of the block or of the page's strip, the palette, or a completion whose
\* token is still in the text; the page's strip remounts a picker that is open.
open ==
    /\ Act /\ view.opened < MaxPickers
    /\ \E key \in Offered \cup {"none"}, prefix \in {"none", "staged"} :
          /\ ~p.on \/ (prefix = "none" /\ p.prefix = "none" /\ ~p.busy)
          /\ prefix = "staged" => block.cut = 0 /\ ~view.owed
          /\ Reader([view EXCEPT !.p = initialStage(Picker(view.opened + 1, prefix), key),
                                 !.opened = @ + 1, !.owed = @ \/ prefix = "staged"], lane)

\* Clicking the picker's own anchor starts it over.
reopenAtAnchor ==
    Act /\ p.on /\ ~p.busy /\ p.stage # "property" /\ Reader([view EXCEPT !.p = initialStage(p, "none")], lane)

candidates == {k \in Offered : p.on /\ p.stage = "property" /\ (~readonly \/ block.bag[k].has)}
chooseKey ==
    /\ Act /\ ~p.busy
    /\ \E k \in candidates :
          Reader([view EXCEPT !.p = IF k = "user" /\ ~block.bag[k].has THEN [p EXCEPT !.stage = "type"]
                                    ELSE valueStage(p, k)], lane)

\* The button under the list starts a property of the reader's own.
newProperty ==
    /\ Act /\ p.on /\ p.stage = "property" /\ ~readonly /\ ~p.busy
    /\ Reader([view EXCEPT !.p.stage = "type"], lane)

\* A new property needs a name that is free, then a type.
typeStage == p.on /\ p.stage = "type" /\ ~readonly
chooseType ==
    /\ Act /\ typeStage /\ ~p.busy
    /\ ~block.bag["user"].has
    /\ Reader([view EXCEPT !.p = [valueStage(p, "user") EXCEPT !.custom = TRUE]], lane)

resetStage ==
    /\ Act /\ p.on /\ p.stage # "property" /\ ~p.busy
    /\ Reader([view EXCEPT !.p.stage = IF p.custom THEN "type" ELSE "property", !.p.custom = FALSE], lane)

dismiss == Act /\ p.on /\ LET c == close(view, lane) IN Reader(c.v, c.l)

\* The value editors: a choice, a typed value, a page, a cadence.
Editing == p.on /\ p.stage = "value" /\ ~writeDisabled
ValueInput == Act /\ Editing /\ ~p.busy /\ p.key # "sched"
              /\ \E v \in Val : v # p.draft /\ Reader([view EXCEPT !.p.draft = v], lane)
commit ==
    /\ Act /\ Editing /\ p.key # "sched"
    /\ IF Repeated(p.key) THEN p.draft \in block.pages /\ run(<<Cmd("add", p.key, p.draft)>>)
       ELSE run(<<Cmd("set", p.key, p.draft)>>)

\* A date is committed as it is chosen: a quick one, the one a phrase names, or one of
\* the browser's calendar.
DateValueInput ==
    Act /\ Editing /\ p.key = "user" /\ \E v \in Val \ {p.draft} : run(<<Cmd("set", "user", v)>>)

\* Which of the other commands the stage offers.
FieldAction ==
    LET f == block.bag[p.key] IN
    {Cmd("ensure", p.key, 0) : x \in IF f.has THEN {} ELSE {0}}
      \cup {Cmd("clear", p.key, 0) : x \in f.vals}
      \cup {Cmd("unset", p.key, 0) : x \in IF f.has THEN {0} ELSE {}}
      \cup {Cmd("remove", p.key, v) : v \in IF Repeated(p.key) THEN f.vals ELSE {}}
ensureEmpty == Act /\ Editing /\ p.key # "sched" /\ \E c \in FieldAction : run(<<c>>)

\* The page field creates the page it attaches, with a request of its own.
createPage ==
    /\ Act /\ Editing /\ p.key = "pages" /\ ~p.busy /\ ~p.making
    /\ \E id \in Val \ block.pages :
          Reader([view EXCEPT !.p.making = TRUE],
                 execute(lane, <<Cmd("ensure_page", "none", id)>>
                                 \o (IF p.prefix = "staged" THEN <<Splice>> ELSE <<>>)
                                 \o <<Cmd("add", "pages", id)>>, "create", p.n))
-----------------------------------------------------------------------------
(* The moment editor.                                                      *)

Moment == Editing /\ p.key = "sched" /\ ~p.busy
chooseDate == Act /\ Moment /\ \E d \in Val : d # p.day /\ Reader([view EXCEPT !.p.day = d], lane)
setTimeValue ==
    Act /\ Moment /\ \E t \in {{}, {1}} : t # p.clock /\ Reader([view EXCEPT !.p.clock = t], lane)
setRepeatValue ==
    Act /\ Moment /\ \E r \in {{}, {1}, {2}} : Reader([view EXCEPT !.p.repeat = r, !.p.changed = TRUE], lane)

Puts(key, vals) == IF vals = {} THEN Cmd("unset", key, 0) ELSE Cmd("set", key, CHOOSE v \in vals : TRUE)

\* A cadence the reader did not touch is not written.
\* Mutant: the draft's is written each time.
repeatAlways(q) == <<IF q.changed THEN Puts("repeat", q.repeat)
                     ELSE [Puts("repeat", q.repeat) EXCEPT !.op = IF @ = "set" THEN "also" ELSE @]>>
repeatChange(q) == IF q.changed THEN <<Puts("repeat", q.repeat)>> ELSE <<>>

\* The day, the clock and the cadence are written as one; a phrase that was
\* understood may bring its own day, clock and cadence.
commitMoment ==
    /\ Act /\ Moment
    /\ \E phrase \in BOOLEAN :
          LET q == IF phrase THEN [p EXCEPT !.day = 2, !.repeat = {2}, !.changed = TRUE] ELSE p
          IN run(<<Puts("sched", {q.day}), Puts("time", q.clock)>> \o repeatChange(q))
clearMoment ==
    Act /\ Moment /\ block.bag["sched"].vals # {} /\ run(<<Puts("sched", {}), Puts("time", {})>>)
-----------------------------------------------------------------------------
(* The tag picker.                                                         *)

openTags == Act /\ ~p.on /\ ~view.tagging /\ Reader([view EXCEPT !.tagging = TRUE], lane)
closeTags == Act /\ view.tagging /\ ~view.adding /\ Reader([view EXCEPT !.tagging = FALSE], lane)

\* A tag the block lacks, or a new one, created or made from a page, and added at once.
options == view.tagging /\ ~readonly /\ ~view.adding
pickTag ==
    /\ Act /\ options
    /\ \E t \in 1..2 \ block.tags :
          Reader([view EXCEPT !.adding = TRUE],
                 execute(lane, (IF t \in block.known THEN <<>> ELSE <<Cmd("ensure_tag", "none", t)>>)
                                 \o <<Cmd("add_tag", "none", t)>>, "tag", 0))
removeTag == Act /\ ~readonly /\ \E t \in block.tags :
                Reader(view, execute(lane, <<Cmd("remove_tag", "none", t)>>, "chip", 0))
-----------------------------------------------------------------------------
(* The session and the other replica.                                      *)

\* The command at the head of the lane has an outcome.
Ends(v, l, e, ok) ==
    LET mine == v.p.on /\ v.p.n = e.n
        done == [v EXCEPT !.p.prefix = "none", !.p.busy = FALSE]
    IN CASE e.by = "run" /\ mine /\ ok    -> close(done, l)
         [] e.by = "run" /\ mine /\ ~ok   -> [v |-> [v EXCEPT !.p.busy = FALSE], l |-> l]
         [] e.by = "create" /\ mine /\ ok -> close([v EXCEPT !.p.prefix = "none", !.p.making = FALSE], l)
         [] e.by = "create" /\ mine       -> [v |-> [v EXCEPT !.p.making = FALSE], l |-> l]
         [] e.by = "tag"                  -> [v |-> [v EXCEPT !.adding = FALSE], l |-> l]
         [] OTHER                         -> [v |-> [v EXCEPT !.owed = @ /\ (ok \/ ~Contains(e.cmds, Splice))], l |-> l]

settle ==
    /\ lane # <<>> /\ UNCHANGED <<acts, remotes>>
    /\ LET e == Head(lane)
           end(ok) == LET r == Ends(view, Tail(lane), e, ok) IN Reader(r.v, r.l)
       IN \/ ~readonly /\ block' = FoldLeft(Apply, block, e.cmds) /\ end(TRUE) /\ UNCHANGED faults
          \/ faults > 0 /\ faults' = faults - 1 /\ end(FALSE) /\ UNCHANGED block
          \/ readonly /\ end(FALSE) /\ UNCHANGED <<block, faults>>

\* Another replica writes the moment, or the lease moves to another tab and back.
remote ==
    /\ remotes > 0 /\ remotes' = remotes - 1 /\ UNCHANGED <<lane, acts, faults>>
    /\ \/ \E k \in {"sched", "repeat", "user"}, v \in Val :
             block' = Apply(block, Cmd("set", k, v)) /\ UNCHANGED view
       \/ UNCHANGED block /\ view' = [view EXCEPT !.mode = IF readonly THEN "exclusive" ELSE "readonly"]

\* The row goes away under its picker: nothing more is written, and an edit that waited
\* for a choice is dropped.
unmount ==
    /\ Act /\ p.on
    /\ Reader([view EXCEPT !.p = Closed,
                           !.dropped = @ \/ (p.prefix = "staged" /\ Carriers(lane) = <<>>)], lane)

Init ==
    /\ \E has \in BOOLEAN :
          block = Stored([k \in Key |-> IF has /\ k \in {"sched", "repeat", "pages"} THEN Field({1}) ELSE Absent], {1})
    /\ view = View /\ lane = <<>> /\ acts = MaxActs /\ faults = MaxFaults /\ remotes = MaxRemote

Next ==
    \/ open \/ reopenAtAnchor \/ chooseKey \/ newProperty \/ chooseType \/ resetStage \/ dismiss
    \/ ValueInput \/ commit \/ DateValueInput \/ ensureEmpty \/ createPage
    \/ chooseDate \/ setTimeValue \/ setRepeatValue \/ commitMoment \/ clearMoment
    \/ openTags \/ closeTags \/ pickTag \/ removeTag \/ settle \/ remote \/ unmount

Spec == Init /\ [][Next]_vars
-----------------------------------------------------------------------------
\* A completion's token leaves the text exactly once: with the choice, or when the picker
\* is dismissed, even if a first choice was refused; a dismissal does not submit it again
\* beside the command that has it.  Three ways it goes wrong in the code are left out: a
\* refusal that arrives after the picker has closed, which is reported; the row going
\* away under the picker, which drops the edit in silence; and a second command while the
\* page field's own request, which close and run do not wait for, carries it (run, close).
TokenIsWritten ==
    /\ view.owed /\ ~p.on /\ lane = <<>> => block.cut > 0 \/ view.dropped
    /\ block.cut <= 1 \/ view.twice

\* Applying a moment changes a task's cadence only if its reader changed it: an
\* editor opened before another replica set a new one does not put the old one back.
UntouchedRepeatKept == block.bag["repeat"] = block.cadence
=============================================================================
