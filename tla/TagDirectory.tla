----------------------------- MODULE TagDirectory -----------------------------
(***************************************************************************)
(* The tag library and what is filed there: tags in groups, in the         *)
(* reader's order (TagsView.tsx, entities/tag-identity.ts), the favourites *)
(* rail (GraphShell.tsx, entities/favourites.ts), a tag's identity and its *)
(* title (TagIdentity.tsx, TagView.tsx, EditableTitle.tsx).  Each gesture  *)
(* is prepared from what is shown and lands later, after other commands    *)
(* and other replicas' edits.                                              *)
(***************************************************************************)
EXTENDS Ordering

CONSTANTS
    Opened,        \* the starting libraries a run explores: see Init
    MaxTitle       \* bound: versions of a title

VARIABLES
    tags,          \* the stored tags: see Tag
    ui,            \* the reader's side: see Ui
    lane,          \* commands the session has not finished, in order
    landed,        \* history: every undisturbed move put things where it showed
    acts, faults, remotes

vars == <<tags, ui, lane, landed, acts, faults, remotes>>

Id == 1..3
NoGroup == 0
Group == 0..2

\* A tag: whether it is live, its group, its place there, its mark, and its place
\* among the favourites.
Tag(group, order) == [is |-> "live", group |-> group, order |-> order, mark |-> 0, star |-> FALSE, fav |-> Unplaced]

NoDrag == [kind |-> "none", id |-> 0, from |-> 0, group |-> 0, before |-> 0, index |-> 0, aimed |-> FALSE]
NoDraft == [on |-> FALSE, id |-> 0, group |-> 0, mark |-> 0, group0 |-> 0, mark0 |-> 0, busy |-> FALSE]

\*   filter    the group shown, or -1 for all     drag, rail  the drags under way
\*   form      the dialog of a new tag            identity    the editor of a tag's look
\*   a title: the one stored, pending (typed and not committed), draft (shown), typed
\*   last, and quit: the reader took the last one back, or it was refused
Ui == [mode |-> "exclusive", filter |-> -1, drag |-> NoDrag, rail |-> NoDrag, form |-> NoDraft, identity |-> NoDraft,
       stored |-> 1, pending |-> -1, draft |-> -1, typed |-> 1, quit |-> FALSE, open |-> TRUE]

TypeOK ==
    /\ \A t \in Id : tags[t].group \in Group /\ tags[t].mark \in 0..2 /\ tags[t].order \in Int
    /\ ui.filter \in -1..2 /\ ui.stored \in 0..MaxTitle /\ landed \in BOOLEAN
-----------------------------------------------------------------------------
(* What is shown.                                                          *)

Here(ts) == {t \in Id : ts[t].is = "live"}
orders(ts) == [t \in Id |-> ts[t].order]
members(ts, g) == byOrder({t \in Here(ts) : ts[t].group = g}, orders(ts))

\* A group's place is the lowest of its members'; groups stand before the rest.
rank(ts) == [g \in 1..2 |-> Min({ts[t].order : t \in {u \in Here(ts) : ts[u].group = g}} \cup {Unplaced})]
groups(ts) == byOrder({ts[t].group : t \in Here(ts)} \ {0}, rank(ts))

starred(ts) == byOrder({t \in Here(ts) : ts[t].star}, [t \in Id |-> ts[t].fav])

readonly == ui.mode = "readonly"
activeGroup == IF ui.filter \in {tags[t].group : t \in Here(tags)} THEN ui.filter ELSE -1
reorderable == activeGroup = -1

\* The library is shown, or the page of one tag.
InLibrary == ~ui.open
-----------------------------------------------------------------------------
(* Commands: each writes fields of some tags.                              *)

\* What a command writes, and the list the reader was shown for it.
NoAim == [kind |-> "none", group |-> 0, list |-> <<>>]
Write(order, group, fav, aim) ==
    [op |-> "write", id |-> 0, val |-> 0, order |-> order, group |-> group, fav |-> fav, aim |-> aim,
     clean |-> lane = <<>>]
Op(op, id, val) == [Write(NoWrites, NoWrites, NoWrites, NoAim) EXCEPT !.op = op, !.id = id, !.val = val]
Over(f, t, old) == IF t \in DOMAIN f THEN f[t] ELSE old

Apply(c) ==
    [t \in Id |->
        LET x == [tags[t] EXCEPT !.order = Over(c.order, t, @), !.group = Over(c.group, t, @), !.fav = Over(c.fav, t, @)]
        IN IF c.id # t THEN x
           ELSE CASE c.op = "star" -> [x EXCEPT !.star = c.val = 1]
                  [] c.op = "mark" -> [x EXCEPT !.mark = IF c.val < 0 THEN @ ELSE c.val]
                  [] c.op = "delete" -> [x EXCEPT !.is = "deleted"]
                  [] c.op = "restore" -> [x EXCEPT !.is = "live"]
                  [] c.op = "create" -> Tag(x.group, x.order)
                  [] OTHER -> x]

Shows(ts, aim) ==
    CASE aim.kind = "tag" -> members(ts, aim.group) = aim.list
      [] aim.kind = "group" -> groups(ts) = aim.list /\ \A g \in Group : members(ts, g) = members(tags, g)
      [] aim.kind = "rail" -> starred(ts) = aim.list
      [] OTHER -> TRUE

Reader(u, l) == ui' = u /\ lane' = l
Act == acts > 0 /\ acts' = acts - 1 /\ UNCHANGED <<tags, landed, faults, remotes>>
Sends(u, c) == Reader(u, Append(lane, c))
-----------------------------------------------------------------------------
(* Placing tags and groups.                                                *)

Insert(list, x, before) ==
    LET rest == SelectSeq(list, LAMBDA y : y # x)
        at == IF Contains(rest, before) THEN CHOOSE i \in DOMAIN rest : rest[i] = before ELSE Len(rest) + 1
    IN SubSeq(rest, 1, at - 1) \o <<x>> \o SubSeq(rest, at, Len(rest))

\* The tag is filed under the group unless it was there when it was taken up.
placeTag(u, t, from, g, before) ==
    LET ordered == Insert(members(tags, g), t, before)
        stays == IF from = g THEN NoWrites ELSE [x \in {t} |-> g]
    IN Sends(u, [Write(moveWrites(ordered, orders(tags), t), stays, NoWrites,
                       [kind |-> "tag", group |-> g, list |-> ordered])
                 EXCEPT !.clean = @ /\ t \in Here(tags) /\ from = tags[t].group])

placeGroup(u, g, index) ==
    LET real == groups(tags)
        from == IF Contains(real, g) THEN CHOOSE i \in DOMAIN real : real[i] = g ELSE 0
        rest == SelectSeq(real, LAMBDA x : x # g)
        at == Max({1, Min({Len(rest) + 1, IF index > from THEN index - 1 ELSE index})})
        next == SubSeq(rest, 1, at - 1) \o <<g>> \o SubSeq(rest, at, Len(rest))
        runs == [i \in DOMAIN next |-> members(tags, next[i])]
    IN IF from = 0 \/ at = from THEN Reader(u, lane)
       ELSE Sends(u, Write(runWrites(runs, orders(tags), at), NoWrites, NoWrites,
                           [kind |-> "group", group |-> 0, list |-> next]))

\* A row or a heading is picked up, carried over the gaps and let go.
startDrag ==
    /\ InLibrary /\ Act /\ ~readonly /\ reorderable /\ ui.drag = NoDrag
    /\ \/ \E t \in Here(tags) :
             Reader([ui EXCEPT !.drag = [NoDrag EXCEPT !.kind = "tag", !.id = t, !.from = tags[t].group]], lane)
       \/ \E i \in DOMAIN groups(tags) :
             Reader([ui EXCEPT !.drag = [NoDrag EXCEPT !.kind = "group", !.id = groups(tags)[i]]], lane)
setDrop ==
    /\ ui.drag # NoDrag /\ UNCHANGED <<tags, lane, landed, acts, faults, remotes>>
    /\ \/ /\ ui.drag.kind = "tag" /\ ~ui.drag.aimed
          /\ \E g \in Group : \E before \in {0} \cup Range(members(tags, g)) :
                ui' = [ui EXCEPT !.drag.group = g, !.drag.before = before, !.drag.aimed = TRUE]
       \/ /\ ui.drag.kind = "group" /\ ~ui.drag.aimed
          /\ \E i \in 1..(Len(groups(tags)) + 1) : ui' = [ui EXCEPT !.drag.index = i, !.drag.aimed = TRUE]
commitDrop ==
    /\ ui.drag.aimed /\ UNCHANGED <<tags, landed, acts, faults, remotes>>
    /\ LET d == ui.drag
           u == [ui EXCEPT !.drag = NoDrag]
       IN IF d.kind = "tag" THEN placeTag(u, d.id, d.from, d.group, d.before) ELSE placeGroup(u, d.id, d.index)
endDrag == ui.drag # NoDrag /\ ui' = [ui EXCEPT !.drag = NoDrag] /\ UNCHANGED <<tags, lane, landed, acts, faults, remotes>>

\* The menus move by one.
onMove ==
    /\ InLibrary /\ Act /\ ~readonly /\ reorderable
    /\ \/ \E t \in Here(tags), delta \in {-1, 1} :
             LET list == members(tags, tags[t].group)
                 to == (CHOOSE i \in DOMAIN list : list[i] = t) + delta
                 at == IF delta < 0 THEN to ELSE to + 1
             IN /\ to \in DOMAIN list
                /\ placeTag(ui, t, tags[t].group, tags[t].group, IF at \in DOMAIN list THEN list[at] ELSE 0)
       \/ \E i \in DOMAIN groups(tags), step \in {-1, 2} :
             /\ (step < 0 => i > 1) /\ (step > 0 => i < Len(groups(tags)))
             /\ placeGroup(ui, groups(tags)[i], i + step)

\* Renaming or dissolving a group files all its tags, shown or not.
fileAll ==
    /\ InLibrary /\ Act /\ ~readonly
    /\ \E i \in DOMAIN groups(tags) : \E g \in Group \ {groups(tags)[i]} :
          Sends(ui, Write(NoWrites, [t \in Range(members(tags, groups(tags)[i])) |-> g], NoWrites, NoAim))
setFilter == InLibrary /\ Act /\ \E f \in -1..2 : f # ui.filter /\ Reader([ui EXCEPT !.filter = f, !.drag = NoDrag], lane)
-----------------------------------------------------------------------------
(* The rail.                                                               *)

placeFavourite(u, t, before) ==
    LET list == starred(tags)
        next == Insert(list, t, before)
        fav == [x \in Id |-> tags[x].fav]
        writes == moveWrites(next, fav, t)
        changed == {x \in DOMAIN writes : writes[x] # fav[x]}
    IN IF before = t \/ changed = {} THEN Reader(u, lane)
       ELSE Sends(u, Write(NoWrites, NoWrites, [x \in changed |-> writes[x]], [kind |-> "rail", group |-> 0, list |-> next]))

carry == Act /\ ~readonly /\ ui.rail = NoDrag
         /\ \E t \in Range(starred(tags)) : Reader([ui EXCEPT !.rail = [NoDrag EXCEPT !.kind = "rail", !.id = t]], lane)
seam == /\ ui.rail # NoDrag /\ ~ui.rail.aimed /\ UNCHANGED <<tags, lane, landed, acts, faults, remotes>>
        /\ \E t \in Range(starred(tags)) \ {ui.rail.id}, side \in 0..1 :
              ui' = [ui EXCEPT !.rail.before = t, !.rail.index = side, !.rail.aimed = TRUE]

\* The seam is looked up again: a drop with nowhere to land is no drop.
drop ==
    /\ ui.rail.aimed /\ UNCHANGED <<tags, landed, acts, faults, remotes>>
    /\ LET list == starred(tags)
           u == [ui EXCEPT !.rail = NoDrag]
           at == (CHOOSE i \in DOMAIN list : list[i] = ui.rail.before) + ui.rail.index
       IN IF {ui.rail.id, ui.rail.before} \subseteq Range(list)
          THEN placeFavourite(u, ui.rail.id, IF at \in DOMAIN list THEN list[at] ELSE 0)
          ELSE Reader(u, lane)
nudge ==
    /\ Act /\ ~readonly
    /\ LET list == starred(tags)
       IN \E i \in DOMAIN list, delta \in {-1, 1} :
             LET at == IF delta < 0 THEN i - 1 ELSE i + 2
             IN i + delta \in DOMAIN list /\ placeFavourite(ui, list[i], IF at \in DOMAIN list THEN list[at] ELSE 0)
-----------------------------------------------------------------------------
(* A tag's own commands.                                                   *)

toggleFavourite == Act /\ ~readonly /\ \E t \in Here(tags) : Sends(ui, Op("star", t, IF tags[t].star THEN 0 ELSE 1))
deleteTag == Act /\ ~readonly /\ \E t \in Here(tags) : Sends(ui, Op("delete", t, 0))
restoreTag == Act /\ ~readonly /\ \E t \in Id : tags[t].is = "deleted" /\ Sends(ui, Op("restore", t, 0))

\* A new tag goes after the others of its group, once: the dialog waits for it.
NewTagDialog ==
    \/ InLibrary /\ Act /\ ~readonly /\ ~ui.form.on
       /\ Reader([ui EXCEPT !.form = [NoDraft EXCEPT !.on = TRUE, !.group = Max({0, activeGroup})]], lane)
    \/ Act /\ ui.form.on /\ ~ui.form.busy
       /\ \/ Reader([ui EXCEPT !.form = NoDraft], lane)
          \/ \E t \in {x \in Id : tags[x].is = "absent"} :
                LET g == ui.form.group
                    order == nextOrder(Range(members(tags, g)), orders(tags))
                IN Sends([ui EXCEPT !.form.busy = TRUE],
                         [Op("create", t, 0) EXCEPT !.order = [x \in {t} |-> order], !.group = [x \in {t} |-> g]])

\* The identity editor writes what its draft changed since it opened.
changesOf(d) == [mark |-> IF d.mark = d.mark0 THEN -1 ELSE d.mark,
                 group |-> IF d.group = d.group0 THEN NoWrites ELSE [x \in {d.id} |-> d.group]]
TagIdentityPicker ==
    \/ /\ Act /\ ~readonly /\ ~ui.identity.on
       /\ \E t \in Here(tags) :
             Reader([ui EXCEPT !.identity = [on |-> TRUE, id |-> t, group |-> tags[t].group, mark |-> tags[t].mark,
                                             group0 |-> tags[t].group, mark0 |-> tags[t].mark, busy |-> FALSE]], lane)
    \/ /\ Act /\ ui.identity.on /\ ~ui.identity.busy
       /\ \/ \E m \in 0..1 : m # ui.identity.mark /\ Reader([ui EXCEPT !.identity.mark = m], lane)
          \/ \E g \in Group : g # ui.identity.group /\ Reader([ui EXCEPT !.identity.group = g], lane)
          \/ Reader([ui EXCEPT !.identity = NoDraft], lane)
          \/ LET d == ui.identity
                 c == changesOf(d)
             IN IF c = [mark |-> -1, group |-> NoWrites] THEN Reader([ui EXCEPT !.identity = NoDraft], lane)
                ELSE Sends([ui EXCEPT !.identity.busy = TRUE], [Op("mark", d.id, c.mark) EXCEPT !.group = c.group])
-----------------------------------------------------------------------------
(* The title.                                                              *)

\* What was typed is committed on Enter, on blur and when the view goes away.  A
\* title that is blank, or the one stored, is not sent (`quit` when a rename the
\* reader took back is still under way).
\* Mutant: a view that goes away forgets it.
sendsTitle(u) == u.pending > 0 /\ u.pending # u.stored
commitTitle(u, l) ==
    IF u.pending < 0 THEN u
    ELSE [u EXCEPT !.pending = -1, !.draft = IF sendsTitle(u) THEN u.pending ELSE -1,
                   !.quit = @ \/ u.pending = 0 \/ (u.pending = u.stored /\ l # <<>>)]
sent(u, l) == IF sendsTitle(u) THEN Append(l, Op("rename", 0, u.pending)) ELSE l
leavesQuietly(u) == [u EXCEPT !.pending = -1]
leavesTitle(u) == u
typeTitle ==
    /\ Act /\ ~readonly /\ ui.open
    /\ \E text \in 0..MaxTitle :
          Reader([ui EXCEPT !.pending = text, !.draft = text, !.typed = text, !.quit = FALSE], lane)
blurTitle == Act /\ ui.open /\ ui.pending >= 0 /\ Reader(commitTitle(ui, lane), sent(ui, lane))
escapeTitle == Act /\ ui.open /\ ui.pending >= 0
               /\ Reader([ui EXCEPT !.pending = -1, !.draft = -1, !.quit = TRUE], lane)
leaveTag ==
    Act /\ ui.open /\ LET u == leavesTitle(ui)
                      IN Reader([commitTitle(u, lane) EXCEPT !.open = FALSE, !.draft = -1], sent(u, lane))
-----------------------------------------------------------------------------
(* The session and the other replica.                                      *)

\* An acknowledgement releases the draft it wrote, and not a newer one.
Ends(u, c, ok) ==
    [u EXCEPT !.form = IF c.op = "create" THEN (IF ok THEN NoDraft ELSE [@ EXCEPT !.busy = FALSE]) ELSE @,
              !.identity = IF c.op = "mark" THEN (IF ok THEN NoDraft ELSE [@ EXCEPT !.busy = FALSE]) ELSE @,
              !.filter = IF c.op = "create" /\ ok THEN -1 ELSE @,
              !.stored = IF c.op = "rename" /\ ok THEN c.val ELSE @,
              !.draft = IF c.op = "rename" /\ @ = c.val THEN -1 ELSE @,
              !.quit = @ \/ (c.op = "rename" /\ ~ok)]

settle ==
    /\ lane # <<>> /\ lane' = Tail(lane) /\ UNCHANGED <<acts, remotes>>
    /\ LET c == Head(lane)
       IN \/ /\ ~readonly /\ tags' = Apply(c) /\ ui' = Ends(ui, c, TRUE) /\ UNCHANGED faults
             /\ landed' = (landed /\ (c.clean => Shows(Apply(c), c.aim)))
          \/ faults > 0 /\ faults' = faults - 1 /\ ui' = Ends(ui, c, FALSE) /\ UNCHANGED <<tags, landed>>
          \/ readonly /\ ui' = Ends(ui, c, FALSE) /\ UNCHANGED <<tags, landed, faults>>

\* Another replica refiles, marks or removes a tag, or the lease moves.
remote ==
    /\ remotes > 0 /\ remotes' = remotes - 1 /\ UNCHANGED <<landed, acts, faults>>
    /\ lane' = [i \in DOMAIN lane |-> [lane[i] EXCEPT !.clean = FALSE]]
    /\ \/ /\ \E t \in Id : \/ \E g \in Group : tags' = [tags EXCEPT ![t].group = g]
                           \/ tags' = [tags EXCEPT ![t].mark = 2]
                           \/ /\ tags[t].is # "absent"
                              /\ tags' = [tags EXCEPT ![t].is = IF @ = "live" THEN "deleted" ELSE "live"]
          /\ UNCHANGED ui
       \/ UNCHANGED tags /\ ui' = [ui EXCEPT !.mode = IF readonly THEN "exclusive" ELSE "readonly"]

Init ==
    \E o \in Opened :
        /\ tags = o.tags /\ ui = [Ui EXCEPT !.open = o.title] /\ lane = <<>> /\ landed = TRUE
        /\ acts = o.acts /\ faults = o.faults /\ remotes = o.remotes

Next ==
    \/ startDrag \/ setDrop \/ commitDrop \/ endDrag \/ onMove \/ fileAll \/ setFilter \/ carry \/ seam \/ drop \/ nudge
    \/ toggleFavourite \/ deleteTag \/ restoreTag \/ NewTagDialog \/ TagIdentityPicker \/ typeTitle \/ blurTitle
    \/ escapeTitle \/ leaveTag \/ settle \/ remote

Spec == Init /\ [][Next]_vars
-----------------------------------------------------------------------------
\* A move nothing disturbed puts the tag, the group or the favourite in the gap that
\* was shown, in the list it was moved in, and moving a group leaves the order within
\* every group alone; also when a gap between two numbers has run out or some were never
\* placed.  Numbering one group anew may change the order of the groups, which is not
\* asked of the move of a tag.
MoveLands == landed

\* A typed title is kept by every way of leaving the tag: when the commands have
\* ended, the tag has the title typed last, unless it was blank, abandoned with
\* Escape or refused.  One case is excepted with them: a title typed back to the
\* stored one while a rename is under way is taken for no change.
TypedTitleLands == (~ui.open /\ lane = <<>> /\ ~ui.quit) => ui.stored = ui.typed
=============================================================================
