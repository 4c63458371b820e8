----------------------------- MODULE GraphLibrary -----------------------------
(***************************************************************************)
(* The graphs a browser holds: the directory of names and accounts in      *)
(* localStorage (core-port/directory.ts, repositories/directory.ts), the   *)
(* stored replicas, the picker with its catalogs and dialogs               *)
(* (GraphPicker.tsx, useRepositoryCatalogs.ts), and the shell that opens   *)
(* and closes one graph per tab (GraphShell.tsx).  Every operation waits   *)
(* on storage, a lease or a server between its steps, and two tabs share   *)
(* the storage.                                                            *)
(***************************************************************************)
EXTENDS Naturals, FiniteSets

CONSTANTS
    Shell,         \* the browser's tabs: each shows one shell
    Opened,        \* the starting libraries a run explores: see LibraryInit
    MaxRepo        \* bound: accounts ever connected

VARIABLES
    disk,          \* what the tabs share: see Disk
    srv,           \* graph ids the server has for the account
    tab,           \* each tab: see Picker
    raced,         \* history: graphs stored again while, or after, they were removed, and
                   \* local imports cut off before their entry was written
    acts, fails    \* bounds: gestures of the readers, requests that fail

libraryVars == <<disk, srv, tab, raced, acts, fails>>

\* Repository 0 is this browser; an account that is connected anew gets a new id.
LOCAL_REPOSITORY_ID == 0
Repo == 0..MaxRepo
Id == 1..2
Graph == [repo : Repo, id : Id]
GraphRef(r, id) == [repo |-> r, id |-> id]
NoGraph == [repo |-> 0, id |-> 0]

\*   entries   graphs with a directory entry      replicas  graphs with stored data
\*   repos     registered accounts                auth      ids with a credential
\*   lease     the tab holding each graph's lease  past      accounts ever registered
Disk == [entries |-> {}, replicas |-> {}, repos |-> {}, past |-> {}, auth |-> {}, lease |-> [g \in Graph |-> 0]]

Load(stage, entries, stored) == [stage |-> stage, entries |-> entries, stored |-> stored]
NoLoad == Load("none", {}, {})
Catalog(status, graphs) == [status |-> status, graphs |-> graphs]
NoCatalog == Catalog("idle", {})
Step(kind, graph, step, rest, served) ==
    [kind |-> kind, graph |-> graph, step |-> step, rest |-> rest, served |-> served]
NoStep == Step("none", NoGraph, "none", {}, FALSE)

\*   at        the graph open in the shell        phase     of opening it
\*   cat, load the catalogs and their requests    repos     the accounts shown
\*   told      a storage event is on its way      import, export, dialog   steps under way
\*   missed    history: an event passed by the list of this browser's graphs while
\*             it was being loaded and an account was shown
Picker(repos) ==
    [at |-> NoGraph, phase |-> "picker", selected |-> 0, repos |-> repos,
     cat |-> [r \in Repo |-> NoCatalog], load |-> [r \in Repo |-> NoLoad],
     told |-> FALSE, toldRepos |-> FALSE, missed |-> FALSE, import |-> NoStep, export |-> NoStep, dialog |-> NoStep]

LibraryTypes ==
    /\ disk.entries \subseteq Graph /\ disk.replicas \subseteq Graph /\ disk.auth \subseteq Repo
    /\ \A g \in Graph : disk.lease[g] \in Shell \cup {0}
    /\ \A t \in Shell : tab[t].selected \in Repo /\ \A r \in Repo : tab[t].cat[r].graphs \subseteq Graph
    /\ srv \subseteq Id /\ raced \subseteq Graph

Lib == [disk |-> disk, tab |-> tab, srv |-> srv, raced |-> raced]
Becomes(s) == disk' = s.disk /\ tab' = s.tab /\ srv' = s.srv /\ raced' = s.raced
With(s, t, tb) == [s EXCEPT !.tab[t] = tb]
Poses(s, t, dialog) == With(s, t, [s.tab[t] EXCEPT !.dialog = dialog])
Of(S, r) == {g \in S : g.repo = r}
-----------------------------------------------------------------------------
(* Catalogs.                                                               *)

\* A newer request aborts the older one; the entries are read at once.
refresh(s, t, r) ==
    With(s, t, [s.tab[t] EXCEPT
        !.load[r] = IF r # 0 /\ r \notin s.disk.auth THEN Load("auth", {}, {})
                    ELSE Load("stored", Of(s.disk.entries, r), {}),
        !.cat[r] = IF @.status \in {"idle", "loading"} THEN Catalog("loading", {}) ELSE @,
        !.missed = @ /\ r # 0])

\* The repository shown: the chosen one while it is registered, else this browser.
selected(tb) == IF tb.selected \in tb.repos \cup {0} THEN tb.selected ELSE 0
OnPicker(tb) == tb.phase = "picker"
refreshSelected(s, t) == IF OnPicker(s.tab[t]) THEN refresh(s, t, selected(s.tab[t])) ELSE s

\* Selecting a repository, or arriving, loads it unless a request is under way.
select(s, t, r) ==
    LET x == With(s, t, [s.tab[t] EXCEPT !.selected = r])
    IN IF OnPicker(x.tab[t]) /\ x.tab[t].load[selected(x.tab[t])] = NoLoad
       THEN refresh(x, t, selected(x.tab[t])) ELSE x

\* A written directory is announced in this tab at once and to the others by an event.
\* Mutant: only this tab hears of it.
announceHere(s, t, changed) == IF selected(s.tab[t]) = 0 THEN refreshSelected(s, t) ELSE s
announce(s, t, changed) ==
    LET x == [s EXCEPT !.tab = [u \in Shell |-> [s.tab[u] EXCEPT !.told = @ \/ (u # t /\ changed)]]]
    IN IF selected(x.tab[t]) = 0 THEN refreshSelected(x, t) ELSE x
writeEntries(s, t, E) ==
    announce([s EXCEPT !.disk.entries = @ \cup E], t, ~(E \subseteq s.disk.entries))
removeEntry(s, t, g) == announce([s EXCEPT !.disk.entries = @ \ {g}], t, g \in s.disk.entries)

setRepositories(s, t) ==
    LET x == With(s, t, [s.tab[t] EXCEPT !.repos = s.disk.repos]) IN select(x, t, selected(x.tab[t]))
writeRemoteRepositories(s, t, repos) ==
    LET x == [s EXCEPT !.disk.repos = repos,
                       !.tab = [u \in Shell |-> [s.tab[u] EXCEPT !.toldRepos = @ \/ u # t]]]
    IN setRepositories(x, t)

storageEvent(t) ==
    /\ \/ /\ tab[t].told
          /\ LET x == [Lib EXCEPT !.tab[t].told = FALSE]
             IN Becomes(IF selected(x.tab[t]) = 0 THEN refreshSelected(x, t)
                        ELSE [x EXCEPT !.tab[t].missed = @ \/ x.tab[t].load[0] # NoLoad])
       \/ tab[t].toldRepos /\ Becomes(setRepositories([Lib EXCEPT !.tab[t].toldRepos = FALSE], t))
    /\ UNCHANGED <<acts, fails>>

Loaded(s, t, r, catalog) == With(s, t, [s.tab[t] EXCEPT !.load[r] = NoLoad, !.cat[r] = catalog])
Ready(graphs) == Catalog("ready", graphs)
Fail == fails > 0 /\ fails' = fails - 1

\* The stored graphs answer or cannot be read, and for an account its server.
loadRepositoryCatalog(t) ==
    \E r \in Repo :
        LET l == tab[t].load[r]
            stored == Of(disk.replicas, r)
            listed == {GraphRef(r, id) : id \in srv}
            failed == Catalog("failed", tab[t].cat[r].graphs)
        IN /\ \/ /\ l.stage = "auth" /\ UNCHANGED fails
                 /\ Becomes(Loaded(Lib, t, r, Catalog("auth", {})))
              \/ /\ l.stage = "stored" /\ UNCHANGED fails
                 /\ Becomes(IF r = 0 THEN Loaded(Lib, t, r, Ready(l.entries \cup stored))
                            ELSE With(Lib, t, [tab[t] EXCEPT !.load[r] = Load("server", l.entries, stored)]))
              \/ l.stage = "stored" /\ Fail /\ Becomes(Loaded(Lib, t, r, failed))
              \/ /\ l.stage = "server" /\ UNCHANGED fails
                 /\ Becomes(IF r \in disk.auth
                            THEN Loaded(writeEntries(Lib, t, listed), t, r, Ready(listed))
                            ELSE Loaded(Lib, t, r, Catalog("auth", {})))
              \/ /\ l.stage = "server" /\ Fail
                 /\ Becomes(Loaded(Lib, t, r, IF l.stored = {} THEN failed ELSE Ready(l.stored)))
           /\ UNCHANGED acts
-----------------------------------------------------------------------------
(* The shell.                                                              *)

Act == acts > 0 /\ acts' = acts - 1
Keeps == UNCHANGED fails
Free(s, g) == s.disk.lease[g] = 0
Takes(s, t, g) == [s EXCEPT !.disk.lease[g] = t]
Drops(s, t, g) == [s EXCEPT !.disk.lease[g] = IF @ = t THEN 0 ELSE @]

\* Leaving a graph closes its session, which lets go of the lease.
closeSession(s, t) ==
    IF s.tab[t].at = NoGraph THEN s
    ELSE With(Drops(s, t, s.tab[t].at), t, [s.tab[t] EXCEPT !.at = NoGraph, !.phase = "picker",
             !.cat = [r \in Repo |-> NoCatalog], !.repos = s.disk.repos])
home(s, t) == LET x == closeSession(s, t) IN select(x, t, x.tab[t].selected)

\* Going to a graph: an unknown account goes home, a local graph is looked up first.
visit(s, t, g) ==
    LET x == closeSession(s, t)
        there == With(x, t, [x.tab[t] EXCEPT !.at = g, !.load = [r \in Repo |-> NoLoad],
                     !.phase = IF g.repo = 0 /\ g \notin s.disk.entries THEN "looking" ELSE "opening"])
    IN IF g.repo \in x.disk.repos \cup {0} THEN there ELSE home(s, t)
openGraph(s, t, g) == visit(IF g.repo # 0 THEN writeEntries(s, t, {g}) ELSE s, t, g)

localGraphExists(t) ==
    /\ tab[t].phase = "looking"
    /\ Becomes(IF tab[t].at \in disk.replicas THEN With(Lib, t, [tab[t] EXCEPT !.phase = "opening"]) ELSE home(Lib, t))
    /\ UNCHANGED <<acts, fails>>

\* A step of some tab is removing the graph, or its account is going or gone; or the
\* graph is gone already: storing it brings it back.
Going(g) ==
    \/ \E t \in Shell : tab[t].dialog.kind = "delete" /\ tab[t].dialog.graph = g /\ tab[t].dialog.step # "ask"
    \/ \E t \in Shell : tab[t].dialog.kind = "forget" /\ tab[t].dialog.graph.repo = g.repo
                      /\ tab[t].dialog.step # "ask"
    \/ g.repo # 0 /\ g.repo \notin disk.repos
Removing(g) == Going(g) \/ g \notin disk.entries \cup disk.replicas
Stored(s, g) == [s EXCEPT !.disk.replicas = @ \cup {g}, !.raced = IF Removing(g) THEN @ \cup {g} ELSE @]

\* The session takes the lease if it is free and opens the replica, which creates it;
\* a reader takes the lease over once it is free.
sessionOpens(t) ==
    /\ tab[t].phase \in {"opening", "reading"}
    /\ tab[t].phase = "reading" => Free(Lib, tab[t].at)
    /\ LET g == tab[t].at
           x == Stored(IF Free(Lib, g) THEN Takes(Lib, t, g) ELSE Lib, g)
       IN Becomes(With(x, t, [tab[t] EXCEPT !.phase = IF Free(Lib, g) THEN "open" ELSE "reading"]))
    /\ UNCHANGED <<acts, fails>>

onExit(t) == Act /\ ~OnPicker(tab[t]) /\ Becomes(home(Lib, t)) /\ Keeps
-----------------------------------------------------------------------------
(* The picker.                                                             *)

\* What the picker offers: the graphs of the catalog, and new ones once it is ready.
Cat(t) == tab[t].cat[selected(tab[t])]
GraphList(t) == IF OnPicker(tab[t]) /\ tab[t].dialog = NoStep THEN Cat(t).graphs ELSE {}
canCreate(t) == OnPicker(tab[t]) /\ tab[t].dialog = NoStep /\ Cat(t).status = "ready" /\ tab[t].import = NoStep
Idle(t) == OnPicker(tab[t]) /\ tab[t].dialog = NoStep /\ tab[t].import = NoStep
Fresh(r) == {GraphRef(r, id) : id \in Id \ srv} \ (disk.entries \cup disk.replicas)

open(t) == Act /\ (\E g \in GraphList(t) : Becomes(openGraph(Lib, t, g))) /\ Keeps
chooseRepository(t) ==
    Act /\ Idle(t) /\ (\E r \in tab[t].repos \cup {0} : Becomes(select(Lib, t, r))) /\ Keeps
retry(t) == Act /\ OnPicker(tab[t]) /\ Cat(t).status = "failed" /\ Becomes(refreshSelected(Lib, t)) /\ Keeps
signOutOf(t) ==
    /\ Act /\ Idle(t) /\ selected(tab[t]) \in disk.auth
    /\ Becomes(refreshSelected([Lib EXCEPT !.disk.auth = @ \ {selected(tab[t])}], t)) /\ Keeps

\* A dialog asks (Requests) and goes on (Steps).
Requests(t, kind, g, served) ==
    Poses(Lib, t, Step(kind, g, "ask", {}, served))
Steps(t, step) == Poses(Lib, t, [tab[t].dialog EXCEPT !.step = step])

\* An account that is registered already keeps its id, and the credential moves there.
registerRemoteRepository(served, id) == IF served \/ disk.repos = {} THEN {id} ELSE disk.repos
connected(t, served, id, r) ==
    LET x == [Poses(Lib, t, NoStep) EXCEPT !.disk.auth = IF r = id THEN @ ELSE (@ \ {id}) \cup {r},
                                           !.disk.past = @ \cup {r}]
        y == With(x, t, [x.tab[t] EXCEPT !.selected = r])
    IN IF served \/ r \in disk.repos THEN setRepositories(y, t) ELSE writeRemoteRepositories(y, t, {r})

\* Signing in, to the account shown (served) or to one under a new id: a request for the
\* credential, then one for the graphs of the account.  The credential stays if the second
\* fails, unless it is of another account than the one shown.
createRepositoryId == Repo \ (disk.past \cup disk.auth \cup {0} \cup {tab[u].dialog.graph.repo : u \in Shell})
RepositoryDialog(t) ==
    LET d == tab[t].dialog
        id == d.graph.repo
        closed == Poses(Lib, t, NoStep)
    IN \/ /\ Act /\ Idle(t) /\ Keeps
          /\ \E served \in BOOLEAN : \E r \in IF served THEN {selected(tab[t])} \ {0} ELSE createRepositoryId :
                Becomes(Requests(t, "connect", GraphRef(r, 0), served))
       \/ /\ d.kind = "connect" /\ d.step = "ask" /\ UNCHANGED acts
          /\ \/ Keeps /\ Becomes([Steps(t, "list") EXCEPT !.disk.auth = @ \cup {id}])
             \/ (Keeps \/ Fail) /\ Becomes(closed)
       \/ /\ d.kind = "connect" /\ d.step = "list" /\ UNCHANGED acts
          /\ \/ Keeps /\ \E r \in registerRemoteRepository(d.served, id) : Becomes(connected(t, d.served, id, r))
             \/ Fail /\ Becomes(closed)
             \/ Fail /\ d.served /\ Becomes([closed EXCEPT !.disk.auth = @ \ {id}])

createLocal(t) ==
    /\ Act /\ canCreate(t) /\ selected(tab[t]) = 0 /\ Keeps
    /\ \E g \in Fresh(0) : Becomes(openGraph(writeEntries(Lib, t, {g}), t, g))
createRemote(t) ==
    /\ Act /\ canCreate(t) /\ selected(tab[t]) \in disk.auth
    /\ \/ /\ \E g \in Fresh(selected(tab[t])) : Becomes(openGraph([Lib EXCEPT !.srv = @ \cup {g.id}], t, g))
          /\ Keeps
       \/ Fail /\ Becomes(Lib)

\* The archive is decoded and cloned under a fresh id; nothing is stored yet.
prepareArchive(s, t, g) ==
    With(s, t, [s.tab[t] EXCEPT !.import = Step("import", g, "prepare", {}, FALSE)])

\* The copy becomes a stored graph in one transaction, unless its id is taken.
installImportedGraph(s, g) ==
    [s EXCEPT !.disk.replicas = @ \cup {g},
              !.raced = IF Going(g) THEN @ \cup {g} ELSE @]

\* An import prepares the archive, seeds the server's graph, only then installs it, and
\* writes its entry last.
importArchive(t) ==
    LET i == tab[t].import
        g == i.graph
        next == CASE i.step = "prepare" -> IF g.repo # 0 THEN "seed" ELSE "install"
                  [] i.step = "seed" -> "install"
                  [] i.step = "install" -> "register"
                  [] OTHER -> "done"
        moved == With(Lib, t, [tab[t] EXCEPT !.import = IF next = "done" THEN NoStep ELSE [i EXCEPT !.step = next]])
        stepped == CASE i.step = "seed" -> [moved EXCEPT !.srv = @ \cup {g.id}]
                     [] i.step = "install" -> installImportedGraph(moved, g)
                     [] i.step = "register" -> writeEntries(moved, t, {g})
                     [] OTHER -> moved
        refused == \/ i.step = "seed" /\ g.repo \notin disk.auth
                   \/ i.step = "install" /\ g \in disk.replicas
    IN \/ /\ Act /\ canCreate(t) /\ Keeps
          /\ \E f \in Fresh(selected(tab[t])) : Becomes(prepareArchive(Lib, t, f))
       \/ /\ i # NoStep /\ ~refused /\ UNCHANGED acts /\ Keeps
          /\ Becomes(IF next = "done" THEN openGraph(stepped, t, g) ELSE stepped)
       \/ /\ i # NoStep /\ i.step # "register" /\ UNCHANGED acts
          /\ Fail \/ (refused /\ Keeps)
          /\ Becomes(With(Lib, t, [tab[t] EXCEPT !.import = NoStep]))

\* An export opens the graph under its lease, or gives up waiting for it.
onExport(t) ==
    LET e == tab[t].export IN
    \/ /\ Act /\ e = NoStep /\ Keeps
       /\ \E g \in GraphList(t) :
             /\ g.repo = 0 \/ g \in disk.replicas
             /\ Becomes(With(Lib, t, [tab[t] EXCEPT !.export = Step("export", g, "none", {}, FALSE)]))
    \/ /\ e # NoStep /\ UNCHANGED acts /\ Keeps
       /\ Becomes(With(IF Free(Lib, e.graph) THEN Stored(Lib, e.graph) ELSE Lib, t, [tab[t] EXCEPT !.export = NoStep]))

\* The name of a graph that was deleted meanwhile is written all the same.
RenameDialog(t) ==
    LET d == tab[t].dialog IN
    \/ /\ Act /\ Keeps
       /\ \E g \in Of(GraphList(t), 0) :
             Becomes(Poses(Lib, t, Step("rename", g, "none", {}, FALSE)))
    \/ /\ d.kind = "rename" /\ UNCHANGED acts /\ Keeps
       /\ \E save \in BOOLEAN :
             LET x == Poses(Lib, t, NoStep)
             IN Becomes(IF save THEN refreshSelected(writeEntries(x, t, {d.graph}), t) ELSE x)

\* deleteGraph: the stored graph goes under its lease, then its entry.  The first is one
\* transaction over every store that holds something of the graph.
deleteLocal(s, g) == [s EXCEPT !.disk.replicas = @ \ {g}]
Removed(s, t) == removeEntry(s, t, s.tab[t].dialog.graph)

\* With the server's graph first, once: a retry of a deletion goes on from there.
DeleteDialog(t) ==
    LET d == tab[t].dialog
        g == d.graph
    IN \/ /\ Act /\ Keeps
          /\ \E h \in GraphList(t), served \in BOOLEAN :
                /\ IF served THEN h.repo = 0 \/ h \in disk.replicas ELSE h.repo # 0 /\ h.repo \in disk.auth
                /\ Becomes(Requests(t, "delete", h, served))
       \/ /\ d.kind = "delete" /\ d.step = "ask" /\ UNCHANGED acts /\ Keeps
          /\ \/ Becomes(Poses(Lib, t, NoStep))
             \/ Becomes(Steps(t, IF d.served THEN "local" ELSE "server"))
       \/ /\ d.kind = "delete" /\ d.step = "server" /\ UNCHANGED acts
          /\ \/ /\ g.repo \in disk.auth /\ g.id \in srv /\ Keeps
                /\ Becomes(Poses([Lib EXCEPT !.srv = @ \ {g.id}], t, Step("delete", g, "local", {}, TRUE)))
             \/ (Fail \/ (Keeps /\ (g.repo \notin disk.auth \/ g.id \notin srv))) /\ Becomes(Steps(t, "ask"))
       \/ /\ d.kind = "delete" /\ d.step = "local" /\ UNCHANGED acts /\ Keeps
          /\ Becomes(IF Free(Lib, g) THEN deleteLocal(Steps(t, "entry"), g) ELSE Steps(t, "ask"))
       \/ /\ d.kind = "delete" /\ d.step = "entry" /\ UNCHANGED acts /\ Keeps
          /\ Becomes(refreshSelected(Poses(Removed(Lib, t), t, NoStep), t))

\* Forgetting an account deletes its replicas one by one, then signs out and drops it.
\* Mutant: the account goes first.
forgetsAtOnce(d) == TRUE
forgetsAccount(d) == d.rest = {}
ForgetRepositoryDialog(t) ==
    LET d == tab[t].dialog
        r == d.graph.repo
        forgot == With([Lib EXCEPT !.disk.auth = @ \ {r}], t, [tab[t] EXCEPT !.dialog = NoStep, !.selected = 0])
    IN \/ /\ Act /\ Keeps /\ Idle(t) /\ selected(tab[t]) # 0
          /\ Becomes(Requests(t, "forget", GraphRef(selected(tab[t]), 0), TRUE))
       \/ /\ d.kind = "forget" /\ d.step = "ask" /\ UNCHANGED acts /\ Keeps
          /\ \/ Becomes(Poses(Lib, t, NoStep))
             \/ Becomes(Poses(Lib, t, Step("forget", d.graph, "each", Of(disk.replicas, r), TRUE)))
       \/ /\ d.kind = "forget" /\ d.step = "each" /\ UNCHANGED acts /\ Keeps
          /\ \/ \E g \in d.rest :
                   Becomes(IF Free(Lib, g)
                           THEN Poses(deleteLocal(Lib, g), t, Step("forget", g, "entry", d.rest \ {g}, TRUE))
                           ELSE Steps(t, "ask"))
             \/ forgetsAccount(d) /\ Becomes(writeRemoteRepositories(forgot, t, disk.repos \ {r}))
       \/ /\ d.kind = "forget" /\ d.step = "entry" /\ UNCHANGED acts /\ Keeps
          /\ Becomes(Poses(Removed(Lib, t), t, [d EXCEPT !.step = "each"]))

\* Graphs an import has stored and not yet written an entry for.
Unregistered == {tab[t].import.graph : t \in {u \in Shell : tab[u].import.step = "register"}}

\* The tab is closed and opened again: its steps are lost, what it stored is not.
reloads(t) ==
    /\ Act /\ Keeps
    /\ LET x == [Lib EXCEPT
                   !.raced = IF tab[t].import.step = "register" THEN @ \cup Of({tab[t].import.graph}, 0) ELSE @,
                   !.disk.lease = [g \in Graph |-> IF @[g] = t THEN 0 ELSE @[g]]]
       IN Becomes(select(With(x, t, Picker(disk.repos)), t, 0))

\* The account is used on another device.
elsewhere ==
    Act /\ Keeps /\ \E id \in Id : Becomes([Lib EXCEPT !.srv = IF id \in srv THEN srv \ {id} ELSE srv \cup {id}])
-----------------------------------------------------------------------------
LibraryInit ==
    \E o \in Opened :
        /\ disk = [Disk EXCEPT !.entries = o.entries, !.replicas = o.replicas, !.repos = o.repos, !.past = o.repos,
                         !.auth = o.repos]
        /\ srv = o.srv /\ raced = {} /\ acts = o.acts /\ fails = o.fails
        /\ tab = [t \in Shell |-> [Picker(o.repos) EXCEPT !.load[0] = Load("stored", Of(o.entries, 0), {}),
                                    !.cat[0].status = "loading"]]

\* A browser that starts with stored graphs has the entries and the accounts they need:
\* no code stores a local graph without an entry but an import that is cut off.
Kept ==
    /\ MaxRepo \in Nat
    /\ \A o \in Opened :
          /\ o.entries \subseteq Graph /\ o.replicas \subseteq Graph
          /\ o.repos \subseteq Repo \ {0} /\ o.srv \subseteq Id
          /\ \A g \in o.replicas : IF g.repo = 0 THEN g \in o.entries ELSE g.repo \in o.repos

LibraryNext ==
    \/ elsewhere
    \/ \E t \in Shell :
          \/ storageEvent(t) \/ loadRepositoryCatalog(t) \/ localGraphExists(t) \/ sessionOpens(t) \/ onExit(t)
          \/ open(t) \/ chooseRepository(t) \/ retry(t) \/ signOutOf(t) \/ RepositoryDialog(t) \/ createLocal(t)
          \/ createRemote(t) \/ importArchive(t) \/ onExport(t) \/ RenameDialog(t) \/ DeleteDialog(t)
          \/ ForgetRepositoryDialog(t) \/ reloads(t)

LibrarySpec == LibraryInit /\ [][LibraryNext]_libraryVars
-----------------------------------------------------------------------------
\* The list of this browser's graphs is current in every tab once its request has
\* answered and no event is on its way: whichever tab created, imported, renamed,
\* exported or deleted a graph, and whatever was being listed at the time.  The
\* exceptions are a replica stored again while it was removed, an import whose entry is
\* not written, a list that was loading when the reader left it for an account and the
\* event came, and one that says it could not be read.
CatalogIsCurrent ==
    LET apart == raced \cup Unregistered
    IN \A t \in Shell :
        (OnPicker(tab[t]) /\ selected(tab[t]) = 0 /\ tab[t].load[0] = NoLoad /\ ~tab[t].told
            /\ ~tab[t].missed /\ Cat(t).status # "failed")
          => Cat(t).graphs = Of(disk.entries \cup (disk.replicas \ apart), 0) \cup (Cat(t).graphs \cap apart)

\* A stored replica belongs to an account the browser knows, even if a tab is closed
\* half way through forgetting it; a replica opened or imported while that happens is
\* the exception.
ReplicaHasItsAccount ==
    \A g \in disk.replicas \ raced : g.repo # 0 => g.repo \in disk.repos

\* What a picker at rest shows is stored, and what is stored can be reached.
LibraryIsCurrent == CatalogIsCurrent /\ ReplicaHasItsAccount
=============================================================================
