----------------------------- MODULE QueryPanel -----------------------------
(***************************************************************************)
(* One saved query on screen: the views of its document, the plan the      *)
(* reader is shaping and its deferred save, the answers the session keeps  *)
(* and the cell editor of the result (QueryPanel.tsx, execution.ts,        *)
(* deferred-command.ts).  A handler is asynchronous; what it does after    *)
(* each await is fixed by the render it was created in.                    *)
(***************************************************************************)
EXTENDS Integers, Sequences, FiniteSets, SequencesExt

CONSTANTS
    Opened,        \* the surfaces to start from: role and document and, as bounds, how many
                   \* gestures the reader makes (acts) of which kinds, and how often something
                   \* happens elsewhere, fails or remounts (events)
    MaxLane        \* bound: commands waiting in the session

VARIABLES
    role,          \* what the surface may write: see Roles
    doc,           \* the published document
    q,             \* the surface, its answers and what it asked of the session: see Surface
    running,       \* the query in the core
    typed,         \* the plan the reader typed last in each view, while it must be kept
    raced,         \* views typed in while a handler waited for the cell editor, or shown again
                   \* before the save of the surface that was left
    budget

vars == <<role, doc, q, running, typed, raced, budget>>

Roles == [managed : BOOLEAN, readonly : BOOLEAN]

\* A plan: which one it is, and which subject and columns it selects.
NoPlan == [n |-> -1, columns |-> -1]
Plan(n, columns) == [n |-> n, columns |-> columns]
View(id, plan) == [id |-> id, plan |-> plan, hidden |-> FALSE, open |-> FALSE]

\* A seed is a document nobody has written; a saved one here has two views.
Seed == [views |-> <<View(1, Plan(0, 0))>>, default |-> 1, written |-> FALSE, gone |-> {}]
Saved == [Seed EXCEPT !.views = Append(@, View(2, Plan(1, 1))), !.written = TRUE]
ViewIds == 1..3              \* bound: views a document may get

\* A signature and a canonicalRevision; revisions are only ever compared with the
\* current one, so a tag says whether it is fresh.
NoTag == [plan |-> NoPlan, fresh |-> FALSE]
Tag(of) == [plan |-> of, fresh |-> TRUE]
NoEntry == [result |-> NoTag, error |-> NoTag, pending |-> NoTag, token |-> 0]
NoQuery == [view |-> 0, plan |-> NoPlan, token |-> 0, fresh |-> FALSE]
NoSave == [view |-> 0, plan |-> NoPlan, fired |-> FALSE]
NoEditor == [phase |-> "none", dirty |-> FALSE, columns |-> -1]

\*   local     a presented surface's selection    draft     the plan in hand and its saved base
\*   waiting   the deferred save                  asked     the identity the answer effect saw
\*   timer     its debounced run                  frame     the answer on screen
\*   editor    the result's cell editor           settling  handlers waiting for it
\*   saving    the conditions toggle              results   the answer is unfolded
\*   store     an entry per view                  jobs      queries waiting in the session
\*   lane      commands waiting in the session
Surface == [mounted |-> FALSE, local |-> 0, draft |-> [view |-> 0, plan |-> NoPlan, base |-> NoPlan],
            shaped |-> FALSE, waiting |-> NoSave, asked |-> NoQuery, timer |-> FALSE,
            frame |-> NoPlan, editor |-> NoEditor, settling |-> <<>>, saving |-> FALSE, results |-> TRUE,
            store |-> [v \in ViewIds |-> NoEntry], jobs |-> <<>>, lane |-> <<>>]

Find(d, id) ==
    IF \E i \in DOMAIN d.views : d.views[i].id = id THEN CHOOSE i \in DOMAIN d.views : d.views[i].id = id ELSE 0
Shown(d) == {d.views[i].id : i \in DOMAIN d.views}
canEditDefinition == role.managed /\ ~role.readonly
canManageViews == role.managed /\ ~role.readonly
canEditCurrentView == ~role.readonly

\* A view that is gone gives way to the first one.
activeView(x, d) ==
    LET wanted == IF ~canManageViews /\ x.local # 0 THEN x.local ELSE d.default
    IN IF wanted \in Shown(d) THEN d.views[Find(d, wanted)] ELSE d.views[1]

plan(x, d) == IF x.draft.view = activeView(x, d).id THEN x.draft.plan ELSE activeView(x, d).plan
-----------------------------------------------------------------------------
(* Commands and the deferred save.                                         *)

Command(op, view, to, look) == [op |-> op, view |-> view, plan |-> to, look |-> look]
set_query_plan(view, to) == Command("plan", view, to, View(0, NoPlan))
put_query_view(look) == Command("put", look.id, look.plan, look)
set_query_default_view(view) == Command("default", view, NoPlan, View(0, NoPlan))
remove_query_view(view) == Command("remove", view, NoPlan, View(0, NoPlan))

\* commands is one command or a batch; rest are the handler's later writes.
Job(commands, rest, done) == [commands |-> commands, rest |-> rest, done |-> done]
Enqueue(x, job) == [x EXCEPT !.lane = Append(@, job)]
Save(w) == Job(<<set_query_plan(w.view, w.plan)>>, <<>>, "saved")

\* Input newer than the saved base survives a new base.
adopt(x, d) ==
    LET view == activeView(x, d)
        dirty == x.draft.view = view.id /\ x.draft.plan # NoPlan /\ x.draft.plan # x.draft.base
    IN IF x.draft.view = view.id /\ x.draft.base = view.plan THEN x
       ELSE [x EXCEPT !.draft = [view |-> view.id, base |-> view.plan,
                plan |-> IF dirty /\ view.plan # NoPlan THEN x.draft.plan ELSE view.plan]]

unsavedPlan(x, d) ==
    LET view == activeView(x, d)
        payload == IF canEditDefinition /\ x.shaped THEN plan(x, d) ELSE view.plan
    IN IF payload = NoPlan \/ payload = view.plan THEN NoSave
       ELSE [view |-> view.id, plan |-> payload, fired |-> FALSE]

\* Mutant: leaving a view drops the save that waits for it.
replaceDeferredCommand(x, d) == [x EXCEPT !.waiting = unsavedPlan(x, d)]
\* A newer save of the same view replaces the waiting one; another view writes it at once.
useDeferredCommand(x, d) ==
    LET next == unsavedPlan(x, d)
        other == x.waiting.view \notin {0, activeView(x, d).id} /\ ~x.waiting.fired
        kept == IF other THEN Enqueue(x, Save(x.waiting)) ELSE x
    IN IF next.view = x.waiting.view /\ next.plan = x.waiting.plan THEN x
       ELSE [kept EXCEPT !.waiting = next]
-----------------------------------------------------------------------------
(* The answers.                                                            *)

\* A waiting query that was aborted never runs; a running one is only ignored.
abort(x, view) ==
    [x EXCEPT !.jobs = SelectSeq(@, LAMBDA j : j.token # x.store[view].token),
              !.store[view].pending = NoTag, !.store[view].token = 0]
clear(x, view) == [abort(x, view) EXCEPT !.store[view] = NoEntry]

NewToken(x) ==
    CHOOSE t \in 1..9 : t # running.token /\ \A v \in ViewIds : x.store[v].token # t

\* Mutant: an answer of the same question counts whatever the graph has become since.
cachedOnce(entry, tag) == entry.result.plan = tag.plan /\ entry.error # tag
cached(entry, tag) == entry.result = tag /\ entry.error # tag

run(x, id) ==
    LET entry == x.store[id.view]
        tag == Tag(id.plan)
        t == NewToken(x)
    IN IF id.plan = NoPlan THEN clear(x, id.view)
       ELSE IF entry.pending = tag THEN x
       ELSE IF cached(entry, tag) THEN abort(x, id.view)
       ELSE [abort(x, id.view) EXCEPT
                !.store[id.view] = [entry EXCEPT !.pending = tag, !.error = NoTag, !.token = t],
                !.jobs = Append(@, [id EXCEPT !.token = t])]

\* Activation reads at once; a change seen by a mounted query is coalesced.
useQueryAnswer(x, d) ==
    LET id == [view |-> activeView(x, d).id, plan |-> plan(x, d), token |-> 0, fresh |-> TRUE]
        seen == [x EXCEPT !.asked = id, !.timer = FALSE]
    IN IF x.asked = id THEN x
       ELSE IF id.plan = NoPlan THEN clear(seen, id.view)
       ELSE IF x.asked.view # id.view THEN run(seen, id)
       ELSE [seen EXCEPT !.timer = TRUE]

\* An answer of other columns waits until the editor of the old one settles.
\* Mutant: it does not wait.
holdFrameNever(x, incoming, failed) == FALSE
holdFrame(x, incoming, failed) ==
    /\ x.editor.phase # "none" /\ x.frame # NoPlan
    /\ failed \/ incoming.columns # x.frame.columns
displayFrame(x, d) ==
    LET view == activeView(x, d)
        asks == plan(x, d) # NoPlan
        incoming == IF asks THEN x.store[view.id].result.plan ELSE NoPlan
        failed == asks /\ x.store[view.id].error = Tag(plan(x, d))
    IN IF holdFrame(x, incoming, failed) THEN x ELSE [x EXCEPT !.frame = incoming]

\* A render and the effects it runs.  The render before a draft is adopted shows the same
\* plan, or one whose save and query the next render replaces, and is left out.
Render(x, d) ==
    IF ~x.mounted THEN x
    ELSE LET shaped == [x EXCEPT !.shaped = @ \/ d.written]
             saves == useDeferredCommand(adopt(shaped, d), d)
         IN displayFrame(useQueryAnswer(saves, d), d)
-----------------------------------------------------------------------------
(* Handlers: settle the cell editor, change the surface, write.            *)

NoChange == [to |-> "none", view |-> 0, plan |-> NoPlan, base |-> NoPlan]
Handler(settles, change, jobs, done) ==
    [settles |-> settles, change |-> change, jobs |-> jobs, done |-> done]

setDraft(x, c) ==
    [x EXCEPT !.shaped = TRUE,
              !.draft = [view |-> c.view, plan |-> c.plan,
                         base |-> IF x.draft.view = c.view THEN x.draft.base ELSE c.base]]
Change(x, c) ==
    CASE c.to = "none" -> x
      [] c.to = "draft" -> setDraft(x, c)
      [] c.to = "select" -> [x EXCEPT !.local = c.view]
      [] c.to = "fold" -> [x EXCEPT !.results = ~@]

Resume(x, h) ==
    LET changed == Change(x, h.change)
    IN IF h.jobs = <<>> THEN changed ELSE Enqueue(changed, Job(Head(h.jobs), Tail(h.jobs), h.done))

\* A Markdown cell with input is saved first; any other editor just closes.
settleResultEditor(x, h) ==
    IF h.settles /\ x.editor.dirty THEN [x EXCEPT !.settling = Append(@, h)]
    ELSE Resume(IF h.settles THEN [x EXCEPT !.editor = NoEditor] ELSE x, h)

\* The writes that bring the document up to date with the plan in hand.
flushDefinition ==
    LET view == activeView(q, doc)
    IN IF ~canEditDefinition \/ plan(q, doc) = NoPlan \/ (doc.written /\ plan(q, doc) = view.plan)
       THEN <<>> ELSE << <<set_query_plan(view.id, plan(q, doc))>> >>
materialize == IF doc.written THEN <<>> ELSE flushDefinition

Spend(what) == budget[what] > 0 /\ budget' = [budget EXCEPT ![what] = @ - 1]

\* What the header, its menus, the tabs and the output offer.
header ==
    (IF plan(q, doc) # NoPlan THEN {"conditions"} ELSE {})
    \cup (IF q.frame # NoPlan THEN {"fold"} ELSE {})
    \cup (IF canEditDefinition /\ plan(q, doc) # NoPlan THEN {"plan"} ELSE {})
    \cup (IF canEditCurrentView THEN {"layout"} ELSE {})
tabs == {"select"} \cup (IF canManageViews THEN {"add", "rename", "duplicate", "move"} ELSE {})
        \cup (IF canManageViews /\ Len(doc.views) > 1 THEN {"remove"} ELSE {})
output == IF q.frame # NoPlan /\ q.results /\ ~role.readonly THEN {"cells"} ELSE {}

\* A gesture that is offered starts a handler.
Act(gesture, x, h) ==
    /\ Spend("acts") /\ gesture \in budget.kinds /\ Len(q.lane) < MaxLane
    /\ q.mounted /\ gesture \in header \cup tabs
    /\ q' = Render(settleResultEditor(x, h), doc)
    /\ UNCHANGED <<role, doc, running>>
Quiet == UNCHANGED <<typed, raced>>

\* The collection's views.
Fresh == CHOOSE v \in 1..9 :
    /\ v \notin Shown(doc) \cup doc.gone
    /\ \A u \in 1..(v - 1) : u \in Shown(doc) \cup doc.gone
selectView(id) ==
    /\ id \in Shown(doc) \ {activeView(q, doc).id}
    /\ Act("select", q, IF canManageViews
              THEN Handler(TRUE, NoChange, Append(flushDefinition, <<set_query_default_view(id)>>), "none")
              ELSE Handler(TRUE, [NoChange EXCEPT !.to = "select", !.view = id], <<>>, "none"))
    /\ Quiet

copyView(gesture, from, writes) ==
    LET copy == [from EXCEPT !.id = Fresh]
    IN /\ Fresh \in ViewIds
       /\ \A i \in DOMAIN q.lane, j \in 1..2 : j \in DOMAIN q.lane[i].commands
             => q.lane[i].commands[j].view # Fresh
       /\ Act(gesture, q, Handler(TRUE, NoChange,
                 Append(writes, <<put_query_view(copy), set_query_default_view(Fresh)>>), "none"))
       /\ Quiet
addView == copyView("add", View(0, plan(q, doc)), flushDefinition)
duplicateView(id) ==
    LET view == doc.views[Find(doc, id)]
        own == id = activeView(q, doc).id
    IN copyView("duplicate", IF own THEN [view EXCEPT !.plan = plan(q, doc)] ELSE view,
                IF own THEN flushDefinition ELSE materialize)
removeView(id) ==
    /\ id \in Shown(doc)
    /\ Act("remove", q, Handler(id = activeView(q, doc).id, NoChange,
                      Append(materialize, <<remove_query_view(id)>>), "none"))
    /\ Quiet
\* Renaming a view and moving its tab write the view back.
writeView(id) ==
    /\ Act("move", q, Handler(FALSE, NoChange,
                      Append(materialize, <<put_query_view(doc.views[Find(doc, id)])>>), "none"))
    /\ Quiet

\* The selected view's layout: a column that goes takes its editor with it.
putCurrentView(gesture, look, x, done) ==
    /\ canEditCurrentView
    /\ Act(gesture, x, Handler(look.hidden /\ ~activeView(q, doc).hidden, NoChange,
                      Append(IF role.managed THEN materialize ELSE <<>>, <<put_query_view(look)>>), done))
    /\ Quiet
setColumn == putCurrentView("layout", [activeView(q, doc) EXCEPT !.hidden = ~@], q, "none")
toggleEditing ==
    /\ ~q.saving
    /\ putCurrentView("conditions", [activeView(q, doc) EXCEPT !.open = ~@], [q EXCEPT !.saving = TRUE], "conditions")
toggleResults == Act("fold", q, Handler(q.results, [NoChange EXCEPT !.to = "fold"], <<>>, "none")) /\ Quiet

\* The builder and the column switches give the view another plan; a column that
\* leaves the plan leaves the view's layout too.
changePlan(columns, forgets) ==
    LET view == activeView(q, doc)
        next == Plan(9 - budget.acts, columns)
        writes == IF forgets THEN << <<put_query_view([view EXCEPT !.hidden = FALSE])>> >> ELSE <<>>
    IN /\ forgets => view.hidden /\ doc.written /\ plan(q, doc).columns # columns
       /\ Act("plan", q, Handler(plan(q, doc).columns # columns,
              [to |-> "draft", view |-> view.id, plan |-> next, base |-> view.plan], writes, "none"))
       /\ typed' = [typed EXCEPT ![view.id] = next]
       /\ raced' = IF q'.settling # <<>> THEN raced \cup {view.id} ELSE raced
-----------------------------------------------------------------------------
(* The cell editor.                                                        *)

begin(phase, dirty) ==
    /\ q.mounted /\ "cells" \in output \cap budget.kinds /\ q.editor = NoEditor
    /\ Spend("acts")
    /\ q' = [q EXCEPT !.editor = [phase |-> phase, dirty |-> dirty, columns |-> q.frame.columns]]
    /\ Quiet /\ UNCHANGED <<role, doc, running>>

\* The waiting handlers go on when the cell is saved, and give up when it is not.
editorSettles(ok) ==
    LET closed == IF ok THEN [q EXCEPT !.editor = NoEditor, !.settling = <<>>]
                  ELSE [q EXCEPT !.settling = <<>>]
    IN /\ q.editor.phase # "none" /\ (q.settling # <<>> \/ (ok /\ q.editor.phase # "none"))
       /\ (ok \/ q.editor.dirty)
       /\ q' = Render(IF ok THEN FoldLeft(Resume, closed, q.settling) ELSE closed, doc)
       /\ UNCHANGED <<role, doc, running, typed, raced, budget>>
-----------------------------------------------------------------------------
(* The session, the graph and the page.                                    *)

\* What a command makes of the document; the core refuses some.
Refused == [Seed EXCEPT !.default = 0]
Perform(d, c) ==
    LET i == Find(d, c.view) IN
    CASE c.op = "plan" -> IF i = 0 THEN Refused
                          ELSE [d EXCEPT !.views[i].plan = c.plan, !.written = TRUE]
      [] c.op = "put" -> IF ~d.written THEN Refused
                         ELSE IF i # 0 THEN [d EXCEPT !.views[i] = [c.look EXCEPT !.plan = d.views[i].plan]]
                         ELSE IF c.view \in d.gone THEN d
                         ELSE [d EXCEPT !.views = Append(@, c.look)]
      [] c.op = "default" -> IF i = 0 \/ ~d.written THEN Refused ELSE [d EXCEPT !.default = c.view]
      [] c.op = "remove" -> IF i = 0 THEN (IF c.view \in d.gone THEN d ELSE Refused)
                            ELSE IF Len(d.views) = 1 THEN Refused
                            ELSE LET rest == RemoveAt(d.views, i)
                                 IN [d EXCEPT !.views = rest, !.gone = @ \cup {c.view},
                                              !.default = IF @ = c.view THEN rest[1].id ELSE @]
PerformAll(d, commands) ==
    FoldLeft(LAMBDA a, c : IF a = Refused THEN a ELSE Perform(a, c), d, commands)

\* A publication makes every kept answer one of an older revision.
Aged(e) == [e EXCEPT !.result.fresh = FALSE, !.error.fresh = FALSE, !.pending.fresh = FALSE]
Publish(d, x) ==
    /\ doc' = d
    /\ q' = Render([x EXCEPT !.store = [v \in ViewIds |-> Aged(@[v])], !.asked.fresh = FALSE], d)

settled(x, job, ok) ==
    LET saved == job.done = "saved" /\ x.waiting.fired
                 /\ x.waiting.view = job.commands[1].view /\ x.waiting.plan = job.commands[1].plan
        last == ~ok \/ job.rest = <<>>
        next == IF last THEN x ELSE Enqueue(x, Job(Head(job.rest), Tail(job.rest), job.done))
    IN [next EXCEPT !.waiting = IF saved THEN NoSave ELSE @,
                    !.saving = IF last /\ job.done = "conditions" THEN FALSE ELSE @]

\* The session runs graph work before queries, one piece at a time.
execute ==
    /\ q.lane # <<>> /\ running = NoQuery
    /\ LET job == Head(q.lane)
           x == [q EXCEPT !.lane = Tail(@)]
           d == PerformAll(doc, job.commands)
       IN \/ d # Refused /\ Publish(d, settled(x, job, TRUE)) /\ UNCHANGED <<typed, budget>>
          \/ /\ q' = Render(settled(x, job, FALSE), doc)
             /\ IF d = Refused THEN UNCHANGED budget ELSE Spend("events")
             /\ typed' = [typed EXCEPT ![job.commands[1].view] = NoPlan]
             /\ UNCHANGED doc
    /\ UNCHANGED <<role, running, raced>>

queryFrame ==
    /\ running = NoQuery /\ q.lane = <<>> /\ q.jobs # <<>>
    /\ running' = Head(q.jobs)
    /\ q' = [q EXCEPT !.jobs = Tail(@)]
    /\ UNCHANGED <<role, doc, typed, raced, budget>>

\* An answer whose question was replaced meanwhile is dropped.
isPending(x, answer) == x.store[answer.view].token = answer.token

answers ==
    /\ running # NoQuery /\ running' = NoQuery
    /\ LET v == running.view
           e == q.store[v]
       IN IF ~isPending(q, running) THEN q' = q /\ UNCHANGED budget
          ELSE \/ /\ q' = Render([q EXCEPT !.store[v] = [NoEntry EXCEPT
                                     !.result = Tag(running.plan)]], doc)
                  /\ UNCHANGED budget
               \/ /\ Spend("events")
                  /\ q' = Render([q EXCEPT !.store[v] = [e EXCEPT !.error = e.pending,
                                     !.pending = NoTag, !.token = 0]], doc)
    /\ UNCHANGED <<role, doc, typed, raced>>

\* The debounces elapse.
timerRuns ==
    /\ q.mounted /\ q.timer
    /\ q' = Render(run([q EXCEPT !.timer = FALSE], q.asked), doc)
    /\ UNCHANGED <<role, doc, running, typed, raced, budget>>
saveFires ==
    /\ q.waiting # NoSave /\ ~q.waiting.fired
    /\ q' = [Enqueue(q, Save(q.waiting)) EXCEPT !.waiting.fired = TRUE]
    /\ UNCHANGED <<role, doc, running, typed, raced, budget>>

\* Another replica changes the document, or anything else in the graph.
remote ==
    /\ running = NoQuery /\ Spend("events")
    /\ \/ \E v \in Shown(doc), to \in {NoPlan, Plan(9 + budget.events, 0)} :
             /\ doc.written
             /\ Publish(PerformAll(doc, <<set_query_plan(v, to)>>), q)
             /\ typed' = [typed EXCEPT ![v] = NoPlan]
       \/ \E v \in Shown(doc) : \E c \in {set_query_default_view(v), remove_query_view(v)} :
             /\ doc.written /\ Perform(doc, c) \notin {Refused, doc}
             /\ Publish(Perform(doc, c), q) /\ UNCHANGED typed
       \/ Publish(doc, q) /\ UNCHANGED typed
    /\ UNCHANGED <<role, running, raced>>

\* Leaving writes what waits; the answers stay with the session.
leave ==
    /\ q.mounted /\ q.settling = <<>> /\ Spend("events")
    /\ LET x == IF q.waiting # NoSave /\ ~q.waiting.fired THEN Enqueue(q, Save(q.waiting)) ELSE q
       IN q' = [Surface EXCEPT !.store = x.store, !.jobs = x.jobs, !.lane = x.lane]
    /\ UNCHANGED <<role, doc, running, typed, raced>>
Mounted(x, d) ==
    LET view == activeView(x, d)
    IN Render([x EXCEPT !.mounted = TRUE, !.shaped = d.written,
                        !.draft = [view |-> view.id, plan |-> view.plan, base |-> view.plan]], d)
mount ==
    /\ ~q.mounted
    /\ q' = Mounted(q, doc)
    /\ raced' = raced \cup {q.lane[i].commands[1].view : i \in DOMAIN q.lane}
    /\ UNCHANGED <<role, doc, running, typed, budget>>
-----------------------------------------------------------------------------
Init ==
    /\ \E o \in Opened :
          /\ role = o.role
          /\ doc = IF o.seed THEN Seed ELSE Saved
          /\ budget = [acts |-> o.acts, events |-> o.events, kinds |-> o.kinds]
    /\ running = NoQuery /\ q = Surface
    /\ typed = [v \in ViewIds |-> NoPlan] /\ raced = {}

reader ==
    \/ \E v \in ViewIds : selectView(v)
    \/ \E v \in Shown(doc) : duplicateView(v) \/ removeView(v) \/ writeView(v)
    \/ addView \/ setColumn \/ toggleEditing \/ toggleResults
    \/ \E columns \in 0..1, forgets \in BOOLEAN : changePlan(columns, forgets)
    \/ begin("picker", FALSE) \/ (\E dirty \in BOOLEAN : begin("markdown", dirty))

Next ==
    \/ budget.acts > 0 /\ reader
    \/ \E ok \in BOOLEAN : editorSettles(ok)
    \/ execute \/ queryFrame \/ answers \/ timerRuns \/ saveFires
    \/ remote \/ leave \/ mount

Spec == Init /\ [][Next]_vars
-----------------------------------------------------------------------------
Idle == q.lane = <<>> /\ q.settling = <<>> /\ q.waiting = NoSave

\* The plan typed last in a view is the one the document ends up with, whichever
\* tabs were opened, added, copied or removed and whenever the surface was left:
\* "a pending debounce must not lose a draft" (QueryPanel.tsx, flushDefinition).
\* Views typed in while a handler waited for the cell editor are excluded, for there an
\* older plan may be written last, and so are views with a save in the lane when the
\* surface is shown again, for it starts from a document the save has not reached.
TypedPlanLands ==
    Idle => \A i \in DOMAIN doc.views :
        LET v == doc.views[i]
        IN v.id \in raced \/ typed[v.id] \in {NoPlan, v.plan}

\* A plan is never written to a view it was not typed in, unless that view began as
\* a copy ("one view can never execute or save the previous view's plan").
PlanStaysInItsView ==
    \A i \in DOMAIN q.lane, j \in 1..2 :
        (j \in DOMAIN q.lane[i].commands /\ q.lane[i].commands[j].op = "plan")
            => \A v \in ViewIds \ {q.lane[i].commands[j].view} : typed[v] # q.lane[i].commands[j].plan

\* When nothing is left to run, the answer of the mounted query is the answer of the
\* plan and the revision on screen, or that question's failure.
SettledAnswerIsCurrent ==
    (q.mounted /\ ~q.timer /\ q.jobs = <<>> /\ running = NoQuery) =>
        LET p == plan(q, doc)
            e == q.store[activeView(q, doc).id]
        IN p = NoPlan \/ e.result = Tag(p) \/ e.error = Tag(p)

\* A cell editor stays over an answer with the columns it was opened on.
EditorKeepsItsColumns == q.editor.phase # "none" => q.frame.columns = q.editor.columns
=============================================================================
