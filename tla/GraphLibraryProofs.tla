------------------------- MODULE GraphLibraryProofs -------------------------
(***************************************************************************)
(* What a picker at rest shows is stored, for any number of tabs, accounts *)
(* and gestures (GraphLibrary).  A list of local graphs is either loading  *)
(* from the entries there are now, or holds them; a tab whose list is      *)
(* older has an event on its way.  A local graph that is stored has an     *)
(* entry unless its import is about to write one.                          *)
(***************************************************************************)
EXTENDS GraphLibrary, TLAPS

Word ==
    {"none", "auth", "stored", "server", "idle", "loading", "failed", "ready",
     "picker", "looking", "opening", "reading", "open",
     "import", "export", "rename", "delete", "forget", "connect",
     "prepare", "seed", "install", "register", "ask", "list", "local", "entry", "each"}
Ref == [repo : Repo, id : 0..2]
LoadType == [stage : Word, entries : SUBSET Graph, stored : SUBSET Graph]
CatalogType == [status : Word, graphs : SUBSET Graph]
StepType == [kind : Word, graph : Ref, step : Word, rest : SUBSET Graph, served : BOOLEAN]
PickerType ==
    [at : Ref, phase : Word, selected : Repo, repos : SUBSET Repo,
     cat : [Repo -> CatalogType], load : [Repo -> LoadType],
     told : BOOLEAN, toldRepos : BOOLEAN, missed : BOOLEAN,
     import : StepType, export : StepType, dialog : StepType]
DiskType ==
    [entries : SUBSET Graph, replicas : SUBSET Graph, repos : SUBSET Repo, past : SUBSET Repo,
     auth : SUBSET Repo, lease : [Graph -> Shell \cup {0}]]
State == [disk : DiskType, tab : [Shell -> PickerType], srv : SUBSET Id, raced : SUBSET Graph]

\* The account a tab chose is shown while it is registered, and is gone for ever once
\* it is not.
Chosen(p, d) ==
    /\ p.repos \subseteq d.past /\ p.selected \in d.past \cup {0}
    /\ p.selected \notin p.repos \cup {0} => p.selected \notin d.repos

\* A step on a local graph belongs to a tab that shows the local graphs.
Steady(p) ==
    /\ p.phase # "picker" => p.at \in Graph /\ p.load[0] = NoLoad
    /\ p.export # NoStep => p.export.graph \in Graph
    /\ p.import # NoStep => p.import.graph \in Graph /\ (p.import.graph.repo = 0 => selected(p) = 0)
    /\ p.dialog.kind \in {"rename", "delete"} =>
          p.dialog.graph \in Graph /\ (p.dialog.graph.repo = 0 => selected(p) = 0)
    /\ p.dialog.kind = "forget" =>
          p.dialog.graph.repo # 0 /\ p.dialog.rest \subseteq Of(Graph, p.dialog.graph.repo)
    /\ p.dialog.kind = "connect" => p.import = NoStep

\* Catalogs hold graphs of their account.
Sorted(p) ==
    \A r \in Repo : /\ p.cat[r].graphs \subseteq Of(Graph, r)
                    /\ p.load[r].entries \subseteq Of(Graph, r) /\ p.load[r].stored \subseteq Of(Graph, r)

\* A list that is loading has read the entries there are.
Loading(p, d) ==
    /\ p.load[0] # NoLoad => p.load[0].stage = "stored"
    /\ (p.load[0] # NoLoad /\ ~p.told /\ ~p.missed) => p.load[0].entries = Of(d.entries, 0)
Good(p, d) == Chosen(p, d) /\ Steady(p) /\ Sorted(p) /\ Loading(p, d)

\* A list at rest holds them.
Current(p, d, apart) ==
    (OnPicker(p) /\ selected(p) = 0 /\ p.load[0] = NoLoad /\ ~p.told /\ ~p.missed /\ p.cat[0].status # "failed")
      => Of(d.entries, 0) \subseteq p.cat[0].graphs /\ p.cat[0].graphs \subseteq Of(d.entries, 0) \cup apart

\* Two pickers that differ at most in what they list.
Alike(p, o) ==
    /\ p.at = o.at /\ p.phase = o.phase /\ p.selected = o.selected /\ p.repos = o.repos
    /\ p.import = o.import /\ p.export = o.export /\ p.dialog = o.dialog
Frame(x, s, t) ==
    /\ x \in State /\ x.disk = s.disk /\ x.srv = s.srv /\ x.raced = s.raced
    /\ \A u \in Shell : u # t => x.tab[u] = s.tab[u]

\* Graphs an import of a state has stored and not yet written an entry for.
Pending(s) == {s.tab[u].import.graph : u \in {v \in Shell : s.tab[v].import.step = "register"}}
Apart(s) == s.raced \cup Pending(s)

\* Who signs in to the account shown has one that was registered, and who connects a new
\* one has an id of its own.
Joins(o, past) == o.kind = "connect" => IF o.served THEN o.graph.repo \in past ELSE o.graph.repo \notin past \cup {0}
Alone(o, e) ==
    (o.kind = "connect" /\ ~o.served /\ e.kind = "connect" /\ ~e.served) => o.graph.repo # e.graph.repo

\* What is stored can be reached; a step that removes a replica has done so.
Kin(s) == s.disk.replicas \ s.raced
Reachable(s) ==
    /\ s.disk.repos \subseteq s.disk.past /\ 0 \notin s.disk.past
    /\ \A g \in Kin(s) : IF g.repo = 0 THEN g \in s.disk.entries \cup Pending(s) ELSE g.repo \in s.disk.repos
    /\ \A u \in Shell : LET o == s.tab[u].dialog IN
          /\ (o.kind = "forget" /\ o.step # "ask") => \A g \in Kin(s) : g.repo = o.graph.repo => g \in o.rest
          /\ (o.kind = "delete" /\ o.step = "entry") => o.graph \notin Kin(s)
          /\ Joins(o, s.disk.past) /\ \A v \in Shell : v # u => Alone(o, s.tab[v].dialog)

Steadies(s) == \A u \in Shell : Good(s.tab[u], s.disk)
Currents(s) == \A u \in Shell : Current(s.tab[u], s.disk, Apart(s))
LibraryInv(s) == s \in State /\ Steadies(s) /\ Currents(s) /\ Reachable(s)

\* What a picker does besides listing, and what a step leaves alone.
Doing(p, o) == p.import = o.import /\ p.export = o.export /\ p.dialog = o.dialog
SameDisk(d, e) ==
    d.entries = e.entries /\ d.replicas = e.replicas /\ d.repos = e.repos /\ d.past = e.past
Moves(x, s, t) ==
    /\ x \in State /\ SameDisk(x.disk, s.disk) /\ x.srv = s.srv /\ x.raced = s.raced
    /\ Doing(x.tab[t], s.tab[t])
    /\ \A u \in Shell : u # t => x.tab[u] = s.tab[u]
Carries(x, s) ==
    /\ x \in State /\ x.srv = s.srv /\ x.raced = s.raced
    /\ x.disk.replicas = s.disk.replicas /\ x.disk.past = s.disk.past
    /\ \A u \in Shell : Doing(x.tab[u], s.tab[u])
Settled(x, a) == Steadies(x) /\ \A u \in Shell : Current(x.tab[u], x.disk, a)
-----------------------------------------------------------------------------
(* One tab's picker is replaced, or the disk is.                           *)

LEMMA OfIs == ASSUME NEW S, NEW r PROVE Of(S, r) \subseteq S /\ \A g \in Of(S, r) : g.repo = r
BY DEF Of

\* The parts of a library, and of a picker, have their types.
LEMMA Parts ==
    ASSUME NEW s \in State
    PROVE  /\ s.disk \in DiskType /\ s.srv \subseteq Id /\ s.raced \subseteq Graph
           /\ s.disk.entries \subseteq Graph /\ s.disk.replicas \subseteq Graph /\ s.disk.repos \subseteq Repo
           /\ s.disk.past \subseteq Repo /\ s.disk.auth \subseteq Repo
           /\ \A u \in Shell : s.tab[u] \in PickerType
BY DEF State, DiskType

LEMMA PickerParts ==
    ASSUME NEW p \in PickerType
    PROVE  /\ p.at \in Ref /\ p.selected \in Repo /\ p.repos \subseteq Repo
           /\ p.told \in BOOLEAN /\ p.toldRepos \in BOOLEAN /\ p.missed \in BOOLEAN
           /\ p.cat \in [Repo -> CatalogType] /\ p.load \in [Repo -> LoadType]
           /\ p.import \in StepType /\ p.export \in StepType /\ p.dialog \in StepType
BY DEF PickerType

\* One tab's picker is replaced.
LEMMA WithTab ==
    ASSUME NEW s \in State, NEW t \in Shell, NEW p \in PickerType
    PROVE  Frame(With(s, t, p), s, t) /\ With(s, t, p).tab[t] = p
BY DEF With, State, Frame

\* What the tabs share is replaced.
LEMMA WithDisk ==
    ASSUME NEW s \in State, NEW d \in DiskType
    PROVE  LET x == [s EXCEPT !.disk = d]
           IN x \in State /\ x.disk = d /\ x.tab = s.tab /\ x.srv = s.srv /\ x.raced = s.raced
BY DEF State

\* The same library but for its server and for what was raced.
LEMMA WithServer ==
    ASSUME NEW s \in State, NEW S \in SUBSET Id
    PROVE  LET x == [s EXCEPT !.srv = S]
           IN x \in State /\ x.disk = s.disk /\ x.tab = s.tab /\ x.srv = S /\ x.raced = s.raced
BY DEF State

\* The repository shown is one the picker knows.
LEMMA SelectedIs ==
    ASSUME 0 \in Repo, NEW p \in PickerType
    PROVE  selected(p) \in Repo /\ selected(p) \in p.repos \cup {0}
BY PickerParts DEF selected

\* Nothing is loading, and nothing is listed.
LEMMA Empty ==
    /\ NoLoad \in LoadType /\ NoCatalog \in CatalogType /\ NoLoad.stage = "none" /\ NoLoad.stored = {}
    /\ NoLoad.entries = {}
    /\ NoCatalog.graphs = {}
BY DEF NoLoad, Load, NoCatalog, Catalog, LoadType, CatalogType, Word

LEMMA ALoad ==
    ASSUME NEW st \in Word, NEW E \in SUBSET Graph, NEW S \in SUBSET Graph
    PROVE  LET l == Load(st, E, S) IN l \in LoadType /\ l.stage = st /\ l.entries = E /\ l.stored = S
BY DEF Load, LoadType

LEMMA ACatalog ==
    ASSUME NEW st \in Word, NEW G \in SUBSET Graph
    PROVE  LET c == Catalog(st, G) IN c \in CatalogType /\ c.status = st /\ c.graphs = G
BY DEF Catalog, CatalogType

\* No step is under way.
LEMMA NoStepIs ==
    ASSUME 0 \in Repo
    PROVE  NoStep \in StepType /\ NoStep.kind = "none" /\ NoStep.step = "none" /\ NoGraph \in Ref
BY DEF NoStep, Step, StepType, NoGraph, Ref, Word

LEMMA GraphIsRef == ASSUME NEW g \in Graph PROVE g \in Ref /\ g.repo \in Repo /\ g.id \in Id
BY DEF Graph, Ref, Id
-----------------------------------------------------------------------------
(* Catalogs.                                                               *)

\* A request for a list: what it reads, and all it leaves alone.
LEMMA Refresh ==
    ASSUME 0 \in Repo, NEW s \in State, NEW t \in Shell, NEW r \in Repo
    PROVE  LET x == refresh(s, t, r) IN
           /\ Frame(x, s, t) /\ Alike(x.tab[t], s.tab[t])
           /\ x.tab[t].told = s.tab[t].told
           /\ x.tab[t].missed = (s.tab[t].missed /\ r # 0)
           /\ x.tab[t].load[r].stage \in {"auth", "stored"} /\ x.tab[t].load[r].stored = {}
           /\ x.tab[t].load[r].entries \subseteq Of(Graph, r)
           /\ r = 0 => x.tab[t].load[r].stage = "stored" /\ x.tab[t].load[r].entries = Of(s.disk.entries, 0)
           /\ x.tab[t].cat[r].graphs \subseteq s.tab[t].cat[r].graphs
           /\ \A q \in Repo : q # r => x.tab[t].load[q] = s.tab[t].load[q] /\ x.tab[t].cat[q] = s.tab[t].cat[q]
<1> DEFINE p == s.tab[t]
           l == IF r # 0 /\ r \notin s.disk.auth THEN Load("auth", {}, {})
                ELSE Load("stored", Of(s.disk.entries, r), {})
           c == IF p.cat[r].status \in {"idle", "loading"} THEN Catalog("loading", {}) ELSE p.cat[r]
           y == [p EXCEPT !.load[r] = l, !.cat[r] = c, !.missed = @ /\ r # 0]
<1>1. p \in PickerType /\ s.disk.entries \subseteq Graph
  BY Parts
<1>2. p.cat \in [Repo -> CatalogType] /\ p.load \in [Repo -> LoadType] /\ p.missed \in BOOLEAN
  BY <1>1, PickerParts
<1>3. l \in LoadType /\ l.stage \in {"auth", "stored"} /\ l.stored = {} /\ l.entries \subseteq Of(Graph, r)
      /\ (r = 0 => l.stage = "stored" /\ l.entries = Of(s.disk.entries, 0))
  <2>1. Load("auth", {}, {}) \in LoadType /\ Load("auth", {}, {}).stage = "auth" /\ Load("auth", {}, {}).stored = {}
        /\ Load("auth", {}, {}).entries = {}
    BY ALoad DEF Word
  <2>2. Of(s.disk.entries, r) \in SUBSET Graph /\ Of(s.disk.entries, r) \subseteq Of(Graph, r)
    BY <1>1 DEF Of
  <2>3. LET m == Load("stored", Of(s.disk.entries, r), {})
        IN m \in LoadType /\ m.stage = "stored" /\ m.stored = {} /\ m.entries = Of(s.disk.entries, r)
    BY <2>2, ALoad DEF Word
  <2> QED BY <2>1, <2>2, <2>3
<1>4. c \in CatalogType /\ c.graphs \subseteq p.cat[r].graphs
  <2>1. Catalog("loading", {}) \in CatalogType /\ Catalog("loading", {}).graphs = {}
    BY ACatalog DEF Word
  <2> QED BY <1>2, <2>1
<1> HIDE DEF l, c
<1>5. /\ y \in PickerType /\ y.load = [p.load EXCEPT ![r] = l] /\ y.cat = [p.cat EXCEPT ![r] = c]
      /\ y.missed = (p.missed /\ r # 0) /\ y.told = p.told /\ Alike(y, p)
  BY <1>1, <1>2, <1>3, <1>4 DEF PickerType, Alike
<1>6. refresh(s, t, r) = With(s, t, y)
  BY Zenon DEF refresh, l, c
<1> HIDE DEF y
<1>7. Frame(With(s, t, y), s, t) /\ With(s, t, y).tab[t] = y
  BY <1>5, WithTab
<1> QED BY <1>2, <1>3, <1>4, <1>5, <1>6, <1>7

\* A list that is asked for is loading from the entries there are.
LEMMA Refreshing ==
    ASSUME 0 \in Repo, NEW s \in State, NEW t \in Shell, NEW r \in Repo,
           Chosen(s.tab[t], s.disk), Steady(s.tab[t]), Sorted(s.tab[t]), s.tab[t].phase = "picker",
           r = 0 \/ Loading(s.tab[t], s.disk)
    PROVE  LET x == refresh(s, t, r) IN
           /\ Frame(x, s, t) /\ Alike(x.tab[t], s.tab[t]) /\ x.tab[t].told = s.tab[t].told
           /\ Good(x.tab[t], s.disk)
           /\ x.tab[t].load[r] # NoLoad
<1> DEFINE x == refresh(s, t, r)  p == s.tab[t]  y == x.tab[t]
<1>1. /\ Frame(x, s, t) /\ Alike(y, p) /\ y.told = p.told /\ y.missed = (p.missed /\ r # 0)
      /\ y.load[r].stage \in {"auth", "stored"} /\ y.load[r].stored = {}
      /\ y.load[r].entries \subseteq Of(Graph, r)
      /\ r = 0 => y.load[r].stage = "stored" /\ y.load[r].entries = Of(s.disk.entries, 0)
      /\ y.cat[r].graphs \subseteq p.cat[r].graphs
      /\ \A q \in Repo : q # r => y.load[q] = p.load[q] /\ y.cat[q] = p.cat[q]
  BY Refresh
<1> HIDE DEF x
<1>2. y.load[r] # NoLoad
  BY <1>1, Empty
<1>3. selected(y) = selected(p) /\ Chosen(y, s.disk)
  BY <1>1 DEF selected, Alike, Chosen
<1>4. Steady(y)
  BY <1>1, <1>3 DEF Alike, Steady
<1>5. Sorted(y)
  <2> SUFFICES ASSUME NEW q \in Repo 
               PROVE  /\ y.cat[q].graphs \subseteq Of(Graph, q)
                      /\ y.load[q].entries \subseteq Of(Graph, q) /\ y.load[q].stored \subseteq Of(Graph, q)
    BY DEF Sorted
  <2>1. /\ p.cat[q].graphs \subseteq Of(Graph, q)
          /\ p.load[q].entries \subseteq Of(Graph, q) /\ p.load[q].stored \subseteq Of(Graph, q)
    BY DEF Sorted
  <2> QED BY <1>1, <2>1
<1>6. Loading(y, s.disk)
  BY <1>1 DEF Loading
<1> QED BY <1>1, <1>2, <1>3, <1>4, <1>5, <1>6 DEF Good, x

\* The list that is shown is asked for again.
LEMMA RefreshingSelected ==
    ASSUME 0 \in Repo, NEW s \in State, NEW t \in Shell,
           Chosen(s.tab[t], s.disk), Steady(s.tab[t]), Sorted(s.tab[t]),
           selected(s.tab[t]) = 0 \/ Loading(s.tab[t], s.disk)
    PROVE  LET x == refreshSelected(s, t) IN
           /\ Frame(x, s, t) /\ Alike(x.tab[t], s.tab[t]) /\ x.tab[t].told = s.tab[t].told
           /\ Good(x.tab[t], s.disk) /\ \A a : Current(x.tab[t], s.disk, a)
<1> DEFINE x == refreshSelected(s, t)  p == s.tab[t]
<1>1. p \in PickerType
  BY Parts
<1>2. CASE p.phase = "picker"
  <2>1. x = refresh(s, t, selected(p))
    BY <1>2 DEF refreshSelected, OnPicker
  <2>2. selected(p) \in Repo
    BY <1>1, SelectedIs
  <2>3. /\ Frame(x, s, t) /\ Alike(x.tab[t], p) /\ x.tab[t].told = p.told
        /\ Good(x.tab[t], s.disk) /\ x.tab[t].load[selected(p)] # NoLoad
    BY <1>2, <2>1, <2>2, Refreshing
  <2> HIDE DEF x
  <2>4. selected(x.tab[t]) = selected(p)
    BY <2>3 DEF Alike, selected
  <2>5. \A a : Current(x.tab[t], s.disk, a)
    BY <2>3, <2>4 DEF Current
  <2> QED BY <2>3, <2>5 DEF x
<1>3. CASE p.phase # "picker"
  <2>1. x = s
    BY <1>3 DEF refreshSelected, OnPicker
  <2>2. p.load[0] = NoLoad
    BY <1>3 DEF Steady
  <2>3. Good(p, s.disk) /\ \A a : Current(p, s.disk, a)
    BY <1>3, <2>2 DEF Good, Loading, Current, OnPicker
  <2> QED BY <2>1, <2>3 DEF Frame, Alike
<1> QED BY <1>2, <1>3

\* An account is chosen.
LEMMA Choosing ==
    ASSUME 0 \in Repo, NEW s \in State, NEW t \in Shell, NEW r \in Repo,
           Chosen([s.tab[t] EXCEPT !.selected = r], s.disk), Steady([s.tab[t] EXCEPT !.selected = r]), Sorted(s.tab[t]), Loading(s.tab[t], s.disk)
    PROVE  LET x == select(s, t, r) IN
           /\ Frame(x, s, t) /\ Alike(x.tab[t], [s.tab[t] EXCEPT !.selected = r]) /\ x.tab[t].told = s.tab[t].told
           /\ Good(x.tab[t], s.disk) /\ \A a : Current(x.tab[t], s.disk, a)
<1> DEFINE q == [s.tab[t] EXCEPT !.selected = r]  y == With(s, t, q)  x == select(s, t, r)
<1>1. s.tab[t] \in PickerType
  BY Parts
<1>2. /\ q \in PickerType /\ q.load = s.tab[t].load /\ q.cat = s.tab[t].cat /\ q.told = s.tab[t].told
      /\ q.missed = s.tab[t].missed /\ q.phase = s.tab[t].phase
  BY <1>1 DEF PickerType
<1>0. Chosen(q, s.disk) /\ Steady(q)
  OBVIOUS
<1>3. Frame(y, s, t) /\ y.tab[t] = q
  BY <1>2, WithTab
<1> HIDE DEF q
<1>4. y \in State /\ y.disk = s.disk
  BY <1>3 DEF Frame
<1>5. x = IF OnPicker(y.tab[t]) /\ y.tab[t].load[selected(y.tab[t])] = NoLoad
          THEN refresh(y, t, selected(y.tab[t])) ELSE y
  BY Zenon DEF select, q
<1>6. Sorted(q) /\ Loading(q, s.disk)
  BY <1>2 DEF Sorted, Loading
<1> HIDE DEF y, x
<1>7. CASE q.phase = "picker" /\ q.load[selected(q)] = NoLoad
  <2>1. x = refresh(y, t, selected(q)) /\ selected(q) \in Repo
    BY <1>2, <1>3, <1>5, <1>7, SelectedIs DEF OnPicker
  <2>2. /\ Frame(x, y, t) /\ Alike(x.tab[t], q) /\ x.tab[t].told = q.told
        /\ Good(x.tab[t], y.disk) /\ x.tab[t].load[selected(q)] # NoLoad
    <3>1. Chosen(y.tab[t], y.disk) /\ Steady(y.tab[t]) /\ Sorted(y.tab[t]) /\ Loading(y.tab[t], y.disk)
      BY <1>0, <1>3, <1>4, <1>6
    <3>2. y.tab[t].phase = "picker"
      BY <1>3, <1>7
    <3> QED BY <1>3, <1>4, <2>1, <3>1, <3>2, Refreshing
  <2>3. selected(x.tab[t]) = selected(q)
    BY <2>2 DEF Alike, selected
  <2>4. \A a : Current(x.tab[t], s.disk, a)
    BY <2>2, <2>3 DEF Current
  <2>5. Frame(x, s, t)
    BY <1>3, <2>2 DEF Frame
  <2> QED BY <1>2, <1>4, <2>2, <2>4, <2>5 DEF x, q
<1>8. CASE ~(q.phase = "picker" /\ q.load[selected(q)] = NoLoad)
  <2>1. x = y
    BY <1>3, <1>5, <1>8 DEF OnPicker
  <2>2. \A a : Current(q, s.disk, a)
    BY <1>8 DEF Current, OnPicker
  <2> QED BY <1>0, <1>2, <1>3, <1>6, <2>1, <2>2 DEF Good, Alike, x, q
<1> QED BY <1>7, <1>8

\* No step of a tab is under way.
Rested(p) == p.import = NoStep /\ p.dialog = NoStep

\* The accounts there are, read again.
LEMMA RereadingAccounts ==
    ASSUME 0 \in Repo, NEW s \in State, NEW t \in Shell, s.disk.repos \subseteq s.disk.past,
           Steady(s.tab[t]), Sorted(s.tab[t]), Loading(s.tab[t], s.disk), Chosen(s.tab[t], s.disk) \/ Rested(s.tab[t])
    PROVE  LET x == setRepositories(s, t) IN
           /\ Frame(x, s, t) /\ x.tab[t].told = s.tab[t].told /\ x.tab[t].repos = s.disk.repos
           /\ x.tab[t].at = s.tab[t].at /\ x.tab[t].phase = s.tab[t].phase
           /\ x.tab[t].import = s.tab[t].import /\ x.tab[t].dialog = s.tab[t].dialog
           /\ x.tab[t].export = s.tab[t].export
           /\ Good(x.tab[t], s.disk) /\ \A a : Current(x.tab[t], s.disk, a)
<1> DEFINE p == s.tab[t]  q == [p EXCEPT !.repos = s.disk.repos]  y == With(s, t, q)
           r == selected(q)  z == [q EXCEPT !.selected = r]
<1>1. p \in PickerType /\ s.disk.repos \subseteq Repo
  BY Parts
<1>2. /\ q \in PickerType /\ q.load = p.load /\ q.cat = p.cat /\ q.told = p.told /\ q.missed = p.missed
      /\ q.at = p.at /\ q.phase = p.phase /\ q.selected = p.selected /\ q.repos = s.disk.repos
      /\ q.import = p.import /\ q.export = p.export /\ q.dialog = p.dialog
  BY <1>1 DEF PickerType
<1> HIDE DEF q
<1>3. r \in Repo /\ r \in s.disk.repos \cup {0} /\ (Chosen(p, s.disk) /\ selected(p) = 0 => r = 0)
  <2>1. r \in Repo /\ r \in s.disk.repos \cup {0}
    BY <1>2, SelectedIs
  <2>2. Chosen(p, s.disk) /\ selected(p) = 0 => r = 0
    BY <1>2 DEF selected, Chosen
  <2> QED BY <2>1, <2>2
<1> HIDE DEF r
<1>4. /\ z \in PickerType /\ z.load = p.load /\ z.cat = p.cat /\ z.phase = p.phase /\ z.at = p.at
      /\ z.selected = r /\ z.repos = s.disk.repos
      /\ z.import = p.import /\ z.export = p.export /\ z.dialog = p.dialog
  BY <1>2, <1>3 DEF PickerType
<1> HIDE DEF z
<1>5. selected(z) = r
  BY <1>3, <1>4 DEF selected
<1>6. Chosen(z, s.disk)
  BY <1>3, <1>4 DEF Chosen
<1>7. Steady(z)
  <2>1. CASE Chosen(p, s.disk)
    BY <1>3, <1>4, <1>5, <2>1 DEF Steady
  <2>2. CASE Rested(p)
    BY <1>4, <2>2, NoStepIs DEF Steady, Rested
  <2> QED BY <2>1, <2>2
<1>8. Sorted(q) /\ Loading(q, s.disk)
  BY <1>2 DEF Sorted, Loading
<1>9. Frame(y, s, t) /\ y.tab[t] = q
  BY <1>2, WithTab
<1>10. y \in State /\ y.disk = s.disk
  BY <1>9 DEF Frame
<1>11. setRepositories(s, t) = select(y, t, selected(y.tab[t]))
  BY Zenon DEF setRepositories, q
<1> DEFINE x == select(y, t, r)
<1>12. /\ Frame(x, y, t) /\ Alike(x.tab[t], z) /\ x.tab[t].told = q.told
       /\ Good(x.tab[t], s.disk) /\ \A a : Current(x.tab[t], s.disk, a)
  <2>1. z = [y.tab[t] EXCEPT !.selected = r]
    BY <1>9 DEF z
  <2>2. Chosen([y.tab[t] EXCEPT !.selected = r], y.disk) /\ Steady([y.tab[t] EXCEPT !.selected = r])
    BY <1>6, <1>7, <1>10, <2>1
  <2>3. Sorted(y.tab[t]) /\ Loading(y.tab[t], y.disk)
    BY <1>8, <1>9, <1>10
  <2> HIDE DEF y
  <2>4. /\ Frame(x, y, t) /\ Alike(x.tab[t], [y.tab[t] EXCEPT !.selected = r]) /\ x.tab[t].told = y.tab[t].told
        /\ Good(x.tab[t], y.disk) /\ \A a : Current(x.tab[t], y.disk, a)
    BY <1>3, <1>10, <2>2, <2>3, Choosing
  <2> QED BY <1>9, <1>10, <2>1, <2>4
<1>13. setRepositories(s, t) = x
  BY <1>9, <1>11 DEF r
<1> HIDE DEF x, y
<1>14. Frame(x, s, t)
  BY <1>9, <1>12 DEF Frame
<1> QED BY <1>2, <1>4, <1>12, <1>13, <1>14 DEF Alike

LEMMA ReadingAccounts ==
    ASSUME 0 \in Repo, NEW s \in State, NEW t \in Shell,
           s.disk.repos \subseteq s.disk.past, Good(s.tab[t], s.disk)
    PROVE  LET x == setRepositories(s, t) IN
           /\ Frame(x, s, t) /\ x.tab[t].told = s.tab[t].told /\ x.tab[t].repos = s.disk.repos
           /\ x.tab[t].at = s.tab[t].at /\ x.tab[t].phase = s.tab[t].phase
           /\ x.tab[t].import = s.tab[t].import /\ x.tab[t].dialog = s.tab[t].dialog
           /\ x.tab[t].export = s.tab[t].export
           /\ Good(x.tab[t], s.disk) /\ \A a : Current(x.tab[t], s.disk, a)
<1>1. Steady(s.tab[t]) /\ Sorted(s.tab[t]) /\ Loading(s.tab[t], s.disk) /\ Chosen(s.tab[t], s.disk)
  BY DEF Good
<1> QED BY <1>1, RereadingAccounts

\* The directory of entries changes.
LEMMA Announcing ==
    ASSUME 0 \in Repo, NEW s \in State, NEW t \in Shell, NEW F \in SUBSET Graph, NEW b \in BOOLEAN,
           Steadies(s), NEW a, \A u \in Shell : Current(s.tab[u], s.disk, a),
           Of(F, 0) # Of(s.disk.entries, 0) => b /\ selected(s.tab[t]) = 0
    PROVE  LET x == announce([s EXCEPT !.disk.entries = F], t, b) IN
           /\ x \in State /\ x.srv = s.srv /\ x.raced = s.raced
           /\ x.disk = [s.disk EXCEPT !.entries = F]
           /\ Steadies(x) /\ \A u \in Shell : Alike(x.tab[u], s.tab[u]) /\ Current(x.tab[u], x.disk, a)
<1> DEFINE d == [s.disk EXCEPT !.entries = F]
           m == [u \in Shell |-> [s.tab[u] EXCEPT !.told = @ \/ (u # t /\ b)]]
           e == [s EXCEPT !.disk = d]
           y == [e EXCEPT !.tab = m]
           x == announce([s EXCEPT !.disk.entries = F], t, b)
<1>1. /\ d \in DiskType /\ d.entries = F /\ d.repos = s.disk.repos /\ d.past = s.disk.past
  BY Parts DEF DiskType
<1>2. \A u \in Shell : /\ m[u] \in PickerType /\ Alike(m[u], s.tab[u])
                       /\ m[u].load = s.tab[u].load /\ m[u].cat = s.tab[u].cat /\ m[u].missed = s.tab[u].missed
                       /\ m[u].told = (s.tab[u].told \/ (u # t /\ b))
  <2> SUFFICES ASSUME NEW u \in Shell
               PROVE  LET w == [s.tab[u] EXCEPT !.told = @ \/ (u # t /\ b)] IN
                     /\ w \in PickerType /\ Alike(w, s.tab[u])
                     /\ w.load = s.tab[u].load /\ w.cat = s.tab[u].cat /\ w.missed = s.tab[u].missed
                     /\ w.told = (s.tab[u].told \/ (u # t /\ b))
    OBVIOUS
  <2>1. s.tab[u] \in PickerType
    BY Parts
  <2> QED BY <2>1 DEF PickerType, Alike
<1> HIDE DEF d
<1>3. m \in [Shell -> PickerType]
  <2>1. m = [u \in Shell |-> m[u]]
    OBVIOUS
  <2> HIDE DEF m
  <2> QED BY <1>2, <2>1
<1> HIDE DEF m
<1>4. e \in State /\ e.tab = s.tab /\ e.disk = d /\ e.srv = s.srv /\ e.raced = s.raced
  BY <1>1, WithDisk
<1>5. /\ y \in State /\ y.disk = d /\ y.tab = m /\ y.srv = s.srv /\ y.raced = s.raced
  <2> HIDE DEF e
  <2> QED BY <1>3, <1>4 DEF State
<1>6. x = IF selected(y.tab[t]) = 0 THEN refreshSelected(y, t) ELSE y
  <2>1. e = [s EXCEPT !.disk.entries = F]
    BY DEF d
  <2>2. m = [u \in Shell |-> [e.tab[u] EXCEPT !.told = @ \/ (u # t /\ b)]]
    BY <1>4 DEF m
  <2> HIDE DEF e, m
  <2>3. announce(e, t, b) = IF selected(y.tab[t]) = 0 THEN refreshSelected(y, t) ELSE y
    BY <2>2, Zenon DEF announce
  <2> QED BY <2>1, <2>3
<1>7. \A u \in Shell : selected(m[u]) = selected(s.tab[u])
  BY <1>2 DEF Alike, selected
<1>8. \A u \in Shell : Chosen(m[u], d) /\ Steady(m[u]) /\ Sorted(m[u])
  <2> TAKE u \in Shell
  <2>1. Chosen(s.tab[u], s.disk) /\ Steady(s.tab[u]) /\ Sorted(s.tab[u])
    BY DEF Steadies, Good
  <2>2. Chosen(m[u], d)
    BY <1>1, <1>2, <2>1 DEF Chosen, Alike
  <2>3. Steady(m[u])
    BY <1>2, <1>7, <2>1 DEF Steady, Alike
  <2>4. Sorted(m[u])
    BY <1>2, <2>1 DEF Sorted
  <2> QED BY <2>2, <2>3, <2>4
<1>9. \A u \in Shell : (u # t \/ Of(F, 0) = Of(s.disk.entries, 0)) => Loading(m[u], d) /\ Current(m[u], d, a)
  <2> SUFFICES ASSUME NEW u \in Shell, u # t \/ Of(F, 0) = Of(s.disk.entries, 0)
               PROVE  Loading(m[u], d) /\ Current(m[u], d, a)
    OBVIOUS
  <2>1. Loading(s.tab[u], s.disk) /\ Current(s.tab[u], s.disk, a)
    BY DEF Steadies, Good
  <2>2. m[u].phase = s.tab[u].phase
    BY <1>2 DEF Alike
  <2>3. CASE Of(F, 0) = Of(s.disk.entries, 0)
    BY <1>1, <1>2, <1>7, <2>1, <2>2, <2>3 DEF Loading, Current, OnPicker
  <2>4. CASE Of(F, 0) # Of(s.disk.entries, 0)
    BY <1>2, <2>1, <2>4 DEF Loading, Current
  <2> QED BY <2>3, <2>4
<1>10. CASE selected(s.tab[t]) = 0
  <2>1. x = refreshSelected(y, t)
    BY <1>5, <1>6, <1>7, <1>10
  <2>2. /\ Frame(x, y, t) /\ Alike(x.tab[t], m[t])
        /\ Good(x.tab[t], d) /\ Current(x.tab[t], d, a)
    <3>1. /\ Chosen(y.tab[t], y.disk) /\ Steady(y.tab[t]) /\ Sorted(y.tab[t]) /\ selected(y.tab[t]) = 0
      BY <1>5, <1>7, <1>8, <1>10
    <3> HIDE DEF y, x
    <3>2. LET w == refreshSelected(y, t) IN
          /\ Frame(w, y, t) /\ Alike(w.tab[t], y.tab[t])
          /\ Good(w.tab[t], y.disk) /\ \A c : Current(w.tab[t], y.disk, c)
      BY <1>5, <3>1, RefreshingSelected
    <3> QED BY <1>5, <2>1, <3>2
  <2> HIDE DEF x, y
  <2>3. x \in State /\ x.disk = d /\ x.srv = s.srv /\ x.raced = s.raced /\ \A u \in Shell : u # t => x.tab[u] = m[u]
    BY <1>5, <2>2 DEF Frame
  <2>4. \A u \in Shell : Good(x.tab[u], d) /\ Current(x.tab[u], d, a) /\ Alike(x.tab[u], s.tab[u])
    BY <1>2, <1>8, <1>9, <2>2, <2>3 DEF Good, Alike
  <2> QED BY <2>3, <2>4 DEF Steadies, x, d
<1>11. CASE selected(s.tab[t]) # 0
  <2>1. x = y
    BY <1>5, <1>6, <1>7, <1>11
  <2>2. \A u \in Shell : Good(m[u], d) /\ Current(m[u], d, a)
    BY <1>8, <1>9, <1>11 DEF Good
  <2> HIDE DEF y, x
  <2> QED BY <1>2, <1>5, <2>1, <2>2 DEF Steadies, x, d
<1> QED BY <1>10, <1>11

\* A picker's claims read the entries and the accounts, nothing else of the disk.
LEMMA GoodSame ==
    ASSUME NEW p, NEW d, NEW e, d.entries = e.entries, d.repos = e.repos, d.past = e.past
    PROVE  (Good(p, d) <=> Good(p, e)) /\ \A a : Current(p, d, a) <=> Current(p, e, a)
BY DEF Good, Chosen, Loading, Current

\* Entries are written, by a tab that shows the local graphs if one of them is local.
LEMMA Writing ==
    ASSUME 0 \in Repo, NEW s \in State, NEW t \in Shell, NEW E \in SUBSET Graph, NEW a, Settled(s, a),
           Of(E, 0) = {} \/ selected(s.tab[t]) = 0
    PROVE  LET x == writeEntries(s, t, E) IN
           /\ Carries(x, s) /\ Settled(x, a) /\ x.disk = [s.disk EXCEPT !.entries = @ \cup E]
           /\ \A u \in Shell : Alike(x.tab[u], s.tab[u])
<1> DEFINE F == s.disk.entries \cup E  b == ~(E \subseteq s.disk.entries)
<1>1. F \in SUBSET Graph /\ b \in BOOLEAN
  BY Parts
<1>2. Of(F, 0) # Of(s.disk.entries, 0) => b /\ selected(s.tab[t]) = 0
  BY DEF Of
<1>3. Steadies(s) /\ \A u \in Shell : Current(s.tab[u], s.disk, a)
  BY DEF Settled
<1> HIDE DEF F, b
<1>4. LET x == announce([s EXCEPT !.disk.entries = F], t, b) IN
      /\ x \in State /\ x.srv = s.srv /\ x.raced = s.raced
      /\ x.disk = [s.disk EXCEPT !.entries = F]
      /\ Steadies(x) /\ \A u \in Shell : Alike(x.tab[u], s.tab[u]) /\ Current(x.tab[u], x.disk, a)
  BY <1>1, <1>2, <1>3, Announcing
<1>5. writeEntries(s, t, E) = announce([s EXCEPT !.disk.entries = F], t, b)
  BY Zenon DEF writeEntries, F, b
<1>6. [s.disk EXCEPT !.entries = F].replicas = s.disk.replicas /\ [s.disk EXCEPT !.entries = F].past = s.disk.past
  BY Parts DEF DiskType
<1> DEFINE x == writeEntries(s, t, E)
<1> HIDE DEF x
<1>7. /\ x \in State /\ x.srv = s.srv /\ x.raced = s.raced
      /\ x.disk = [s.disk EXCEPT !.entries = F]
      /\ Steadies(x) /\ \A u \in Shell : Alike(x.tab[u], s.tab[u]) /\ Current(x.tab[u], x.disk, a)
  BY <1>4, <1>5 DEF x
<1>8. Carries(x, s) /\ Settled(x, a)
  BY <1>6, <1>7 DEF Carries, Settled, Doing, Alike
<1> QED BY <1>7, <1>8 DEF x, F

\* An entry is removed, by a tab that shows the local graphs if it is local.
LEMMA Erasing ==
    ASSUME 0 \in Repo, NEW s \in State, NEW t \in Shell, NEW g, NEW a, Settled(s, a),
           g \in Graph /\ g.repo = 0 => selected(s.tab[t]) = 0
    PROVE  LET x == removeEntry(s, t, g) IN
           /\ Carries(x, s) /\ Settled(x, a) /\ x.disk = [s.disk EXCEPT !.entries = @ \ {g}]
           /\ \A u \in Shell : Alike(x.tab[u], s.tab[u])
<1> DEFINE F == s.disk.entries \ {g}  b == g \in s.disk.entries
<1>1. F \in SUBSET Graph /\ b \in BOOLEAN
  BY Parts
<1>2. Of(F, 0) # Of(s.disk.entries, 0) => b /\ selected(s.tab[t]) = 0
  <2>1. s.disk.entries \subseteq Graph
    BY Parts
  <2>2. g \notin Of(s.disk.entries, 0) => Of(F, 0) = Of(s.disk.entries, 0)
    BY DEF Of
  <2>3. g \in Of(s.disk.entries, 0) => g \in s.disk.entries /\ g.repo = 0
    BY DEF Of
  <2> QED BY <2>1, <2>2, <2>3
<1>3. Steadies(s) /\ \A u \in Shell : Current(s.tab[u], s.disk, a)
  BY DEF Settled
<1> HIDE DEF F, b
<1>4. LET x == announce([s EXCEPT !.disk.entries = F], t, b) IN
      /\ x \in State /\ x.srv = s.srv /\ x.raced = s.raced
      /\ x.disk = [s.disk EXCEPT !.entries = F]
      /\ Steadies(x) /\ \A u \in Shell : Alike(x.tab[u], s.tab[u]) /\ Current(x.tab[u], x.disk, a)
  BY <1>1, <1>2, <1>3, Announcing
<1>5. removeEntry(s, t, g) = announce([s EXCEPT !.disk.entries = F], t, b)
  BY Zenon DEF removeEntry, F, b
<1>6. [s.disk EXCEPT !.entries = F].replicas = s.disk.replicas /\ [s.disk EXCEPT !.entries = F].past = s.disk.past
  BY Parts DEF DiskType
<1> DEFINE x == removeEntry(s, t, g)
<1> HIDE DEF x
<1>7. /\ x \in State /\ x.srv = s.srv /\ x.raced = s.raced
      /\ x.disk = [s.disk EXCEPT !.entries = F]
      /\ Steadies(x) /\ \A u \in Shell : Alike(x.tab[u], s.tab[u]) /\ Current(x.tab[u], x.disk, a)
  BY <1>4, <1>5 DEF x
<1>8. Carries(x, s) /\ Settled(x, a)
  BY <1>6, <1>7 DEF Carries, Settled, Doing, Alike
<1> QED BY <1>7, <1>8 DEF x, F

\* The accounts change: one that a tab chose and that is gone does not come back.
LEMMA RewritingAccounts ==
    ASSUME 0 \in Repo, NEW s \in State, NEW t \in Shell, NEW R \in SUBSET s.disk.past, NEW a,
           \A u \in Shell : u # t => /\ Good(s.tab[u], s.disk) /\ Current(s.tab[u], s.disk, a)
                                   /\ (s.tab[u].selected \notin s.tab[u].repos \cup {0} => s.tab[u].selected \notin R),
           Steady(s.tab[t]), Sorted(s.tab[t]), Loading(s.tab[t], s.disk),
           \/ /\ Chosen(s.tab[t], s.disk)
              /\ (s.tab[t].selected \notin s.tab[t].repos \cup {0} => s.tab[t].selected \notin R)
           \/ Rested(s.tab[t])
    PROVE  LET x == writeRemoteRepositories(s, t, R) IN
           /\ Carries(x, s) /\ Settled(x, a) /\ x.disk = [s.disk EXCEPT !.repos = R]
           /\ x.tab[t].repos = R /\ x.tab[t].phase = s.tab[t].phase
<1> DEFINE d == [s.disk EXCEPT !.repos = R]
           m == [u \in Shell |-> [s.tab[u] EXCEPT !.toldRepos = @ \/ u # t]]
           e == [s EXCEPT !.disk = d]
           y == [e EXCEPT !.tab = m]
           x == writeRemoteRepositories(s, t, R)
<1>1. /\ d \in DiskType /\ d.entries = s.disk.entries /\ d.repos = R /\ d.past = s.disk.past
      /\ d.replicas = s.disk.replicas
  BY Parts DEF DiskType
<1>2. \A u \in Shell : /\ m[u] \in PickerType /\ Alike(m[u], s.tab[u])
                       /\ m[u].load = s.tab[u].load /\ m[u].cat = s.tab[u].cat /\ m[u].missed = s.tab[u].missed
                       /\ m[u].told = s.tab[u].told
  <2> SUFFICES ASSUME NEW u \in Shell
               PROVE  LET w == [s.tab[u] EXCEPT !.toldRepos = @ \/ u # t] IN
                     /\ w \in PickerType /\ Alike(w, s.tab[u])
                     /\ w.load = s.tab[u].load /\ w.cat = s.tab[u].cat /\ w.missed = s.tab[u].missed
                     /\ w.told = s.tab[u].told
    OBVIOUS
  <2>1. s.tab[u] \in PickerType
    BY Parts
  <2> QED BY <2>1 DEF PickerType, Alike
<1>0. \A u \in Shell : /\ Steady(s.tab[u]) /\ Sorted(s.tab[u]) /\ Loading(s.tab[u], s.disk)
                       /\ IF u = t THEN Chosen(s.tab[u], d) \/ Rested(s.tab[u])
                          ELSE Chosen(s.tab[u], d) /\ Current(s.tab[u], s.disk, a)
  BY <1>1 DEF Good, Chosen
<1> HIDE DEF d
<1>3. m \in [Shell -> PickerType]
  <2>1. m = [u \in Shell |-> m[u]]
    OBVIOUS
  <2> HIDE DEF m
  <2> QED BY <1>2, <2>1
<1> HIDE DEF m
<1>4. e \in State /\ e.tab = s.tab /\ e.disk = d /\ e.srv = s.srv /\ e.raced = s.raced
  BY <1>1, WithDisk
<1>5. /\ y \in State /\ y.disk = d /\ y.tab = m /\ y.srv = s.srv /\ y.raced = s.raced
  <2> HIDE DEF e
  <2> QED BY <1>3, <1>4 DEF State
<1>6. x = setRepositories(y, t)
  <2>1. y = [s EXCEPT !.disk.repos = R, !.tab = [u \in Shell |-> [s.tab[u] EXCEPT !.toldRepos = @ \/ u # t]]]
    BY DEF d, m
  <2> QED BY <2>1, Zenon DEF writeRemoteRepositories
<1>7. \A u \in Shell : selected(m[u]) = selected(s.tab[u])
  BY <1>2 DEF Alike, selected
<1>8. \A u \in Shell : /\ Steady(m[u]) /\ Sorted(m[u]) /\ Loading(m[u], d)
                       /\ IF u = t THEN Chosen(m[u], d) \/ Rested(m[u])
                          ELSE Chosen(m[u], d) /\ Current(m[u], d, a)
  <2> TAKE u \in Shell
  <2>1. /\ Steady(s.tab[u]) /\ Sorted(s.tab[u]) /\ Loading(s.tab[u], s.disk)
        /\ IF u = t THEN Chosen(s.tab[u], d) \/ Rested(s.tab[u])
           ELSE Chosen(s.tab[u], d) /\ Current(s.tab[u], s.disk, a)
    BY <1>0
  <2>2. (Chosen(s.tab[u], d) => Chosen(m[u], d)) /\ (Rested(s.tab[u]) => Rested(m[u]))
    BY <1>1, <1>2 DEF Chosen, Alike, Rested
  <2>3. Steady(m[u])
    BY <1>2, <1>7, <2>1 DEF Steady, Alike
  <2>4. Sorted(m[u])
    BY <1>2, <2>1 DEF Sorted
  <2>5. m[u].phase = s.tab[u].phase
    BY <1>2 DEF Alike
  <2>6. Loading(m[u], d) /\ (Current(s.tab[u], s.disk, a) => Current(m[u], d, a))
    BY <1>1, <1>2, <1>7, <2>1, <2>5 DEF Loading, Current, OnPicker
  <2> QED BY <2>1, <2>2, <2>3, <2>4, <2>6
<1> HIDE DEF y, x
<1>9. /\ Frame(x, y, t) /\ x.tab[t].repos = R /\ x.tab[t].phase = m[t].phase
      /\ x.tab[t].import = m[t].import /\ x.tab[t].dialog = m[t].dialog /\ x.tab[t].export = m[t].export
      /\ Good(x.tab[t], d) /\ Current(x.tab[t], d, a)
  <2>1. /\ Steady(y.tab[t]) /\ Sorted(y.tab[t]) /\ Loading(y.tab[t], y.disk)
        /\ Chosen(y.tab[t], y.disk) \/ Rested(y.tab[t])
        /\ y.disk.repos \subseteq y.disk.past
    BY <1>1, <1>5, <1>8
  <2>2. LET w == setRepositories(y, t) IN
        /\ Frame(w, y, t) /\ w.tab[t].repos = y.disk.repos /\ w.tab[t].phase = y.tab[t].phase
        /\ w.tab[t].import = y.tab[t].import /\ w.tab[t].dialog = y.tab[t].dialog
        /\ w.tab[t].export = y.tab[t].export
        /\ Good(w.tab[t], y.disk) /\ \A c : Current(w.tab[t], y.disk, c)
    BY <1>5, <2>1, RereadingAccounts
  <2> QED BY <1>1, <1>5, <1>6, <2>2
<1>10. x \in State /\ x.disk = d /\ x.srv = s.srv /\ x.raced = s.raced /\ \A u \in Shell : u # t => x.tab[u] = m[u]
  BY <1>5, <1>9 DEF Frame
<1>11. Settled(x, a)
  BY <1>8, <1>9, <1>10 DEF Settled, Steadies, Good
<1>12. Carries(x, s)
  BY <1>1, <1>2, <1>9, <1>10 DEF Carries, Doing, Alike
<1> QED BY <1>2, <1>9, <1>10, <1>11, <1>12 DEF x, d, Alike

\* The same in a tab with nothing under way.
LEMMA WritingAccounts ==
    ASSUME 0 \in Repo, NEW s \in State, NEW t \in Shell, NEW R \in SUBSET s.disk.past, NEW a,
           \A u \in Shell : /\ Good(s.tab[u], s.disk)
                            /\ s.tab[u].selected \notin s.tab[u].repos \cup {0} => s.tab[u].selected \notin R
                            /\ u # t => Current(s.tab[u], s.disk, a)
    PROVE  LET x == writeRemoteRepositories(s, t, R) IN
           /\ Carries(x, s) /\ Settled(x, a) /\ x.disk = [s.disk EXCEPT !.repos = R]
           /\ x.tab[t].repos = R /\ x.tab[t].phase = s.tab[t].phase
<1>1. Steady(s.tab[t]) /\ Sorted(s.tab[t]) /\ Loading(s.tab[t], s.disk) /\ Chosen(s.tab[t], s.disk)
  BY DEF Good
<1> QED BY <1>1, RewritingAccounts
-----------------------------------------------------------------------------
(* The shell.                                                              *)

\* A lease is taken or let go of.
LEMMA Leasing ==
    ASSUME NEW s \in State, NEW l \in [Graph -> Shell \cup {0}]
    PROVE  LET d == [s.disk EXCEPT !.lease = l] IN
           d \in DiskType /\ SameDisk(d, s.disk) /\ d.auth = s.disk.auth
BY Parts DEF DiskType, SameDisk

\* The lease of a graph is let go of, or taken.
LEMMA Dropping ==
    ASSUME NEW s \in State, NEW t \in Shell, NEW g \in Ref
    PROVE  LET x == Drops(s, t, g) IN
           /\ x \in State /\ SameDisk(x.disk, s.disk) /\ x.tab = s.tab /\ x.srv = s.srv /\ x.raced = s.raced
<1> DEFINE l == [s.disk.lease EXCEPT ![g] = IF @ = t THEN 0 ELSE @]
           d == [s.disk EXCEPT !.lease = l]
<1>1. s.disk.lease \in [Graph -> Shell \cup {0}]
  BY Parts DEF DiskType
<1>2. l \in [Graph -> Shell \cup {0}]
  <2>1. CASE g \in Graph
    BY <1>1, <2>1
  <2>2. CASE g \notin Graph
    BY <1>1, <2>2
  <2> QED BY <2>1, <2>2
<1>3. Drops(s, t, g) = [s EXCEPT !.disk = d]
  BY DEF Drops
<1> HIDE DEF l
<1>4. d \in DiskType /\ SameDisk(d, s.disk)
  BY <1>2, Leasing
<1> HIDE DEF d
<1> QED BY <1>3, <1>4, WithDisk

LEMMA Taking ==
    ASSUME NEW s \in State, NEW t \in Shell, NEW g \in Graph
    PROVE  LET x == Takes(s, t, g) IN
           /\ x \in State /\ SameDisk(x.disk, s.disk) /\ x.tab = s.tab /\ x.srv = s.srv /\ x.raced = s.raced
<1> DEFINE l == [s.disk.lease EXCEPT ![g] = t]
           d == [s.disk EXCEPT !.lease = l]
<1>1. s.disk.lease \in [Graph -> Shell \cup {0}]
  BY Parts DEF DiskType
<1>2. l \in [Graph -> Shell \cup {0}]
  BY <1>1
<1>3. Takes(s, t, g) = [s EXCEPT !.disk = d]
  BY DEF Takes
<1> HIDE DEF l
<1>4. d \in DiskType /\ SameDisk(d, s.disk)
  BY <1>2, Leasing
<1> HIDE DEF d
<1> QED BY <1>3, <1>4, WithDisk

\* A tab that leaves its graph reads the accounts again and lists nothing.
LEMMA Closing ==
    ASSUME 0 \in Repo, NEW s \in State, NEW t \in Shell, s.disk.repos \subseteq s.disk.past, Good(s.tab[t], s.disk)
    PROVE  LET x == closeSession(s, t) IN
           Moves(x, s, t) /\ Good(x.tab[t], x.disk)
           /\ (selected(s.tab[t]) = 0 => selected(x.tab[t]) = 0)
<1> DEFINE p == s.tab[t]
           y == Drops(s, t, p.at)
           q == [p EXCEPT !.at = NoGraph, !.phase = "picker", !.cat = [r \in Repo |-> NoCatalog], !.repos = s.disk.repos]
           x == closeSession(s, t)
<1>1. p \in PickerType /\ p.at \in Ref /\ s.disk.repos \subseteq Repo /\ s.tab[t] = p
  BY Parts, PickerParts
<1>2. CASE p.at = NoGraph
  BY <1>2 DEF closeSession, Moves, SameDisk, Doing
<1>3. CASE p.at # NoGraph
  <2>1. y \in State /\ SameDisk(y.disk, s.disk) /\ y.tab = s.tab /\ y.srv = s.srv /\ y.raced = s.raced
    BY <1>1, Dropping
  <2>2. [r \in Repo |-> NoCatalog] \in [Repo -> CatalogType] /\ "picker" \in Word /\ NoGraph \in Ref
    BY Empty, NoStepIs DEF Word
  <2>3. x = With(y, t, q)
    BY <1>3, Zenon DEF closeSession
  <2> HIDE DEF y
  <2>4. /\ q \in PickerType /\ q.load = p.load /\ q.cat = [r \in Repo |-> NoCatalog] /\ q.phase = "picker"
        /\ q.selected = p.selected /\ q.repos = s.disk.repos /\ Doing(q, p)
        /\ q.told = p.told /\ q.missed = p.missed
    BY <1>1, <2>2 DEF PickerType, Doing
  <2> HIDE DEF q
  <2>5. selected(p) = 0 => selected(q) = 0
    BY <2>4 DEF selected, Good, Chosen
  <2>6. Chosen(q, s.disk)
    BY <2>4 DEF Good, Chosen
  <2>7. Steady(q)
    BY <2>4, <2>5 DEF Good, Steady, Doing
  <2>8. Sorted(q)
    BY <2>4, Empty DEF Good, Sorted
  <2>9. Loading(q, s.disk)
    BY <2>4 DEF Good, Loading
  <2>10. Good(q, y.disk)
    BY <2>1, <2>6, <2>7, <2>8, <2>9, GoodSame DEF Good, SameDisk
  <2>11. Frame(x, y, t) /\ x.tab[t] = q
    BY <2>1, <2>3, <2>4, WithTab
  <2> HIDE DEF x
  <2>12. Moves(x, s, t) /\ Good(x.tab[t], x.disk)
    BY <2>1, <2>4, <2>10, <2>11 DEF Moves, Frame
  <2> QED BY <2>5, <2>11, <2>12 DEF x
<1> QED BY <1>2, <1>3

\* Nothing but the choice of the list changes when a tab chooses what it shows already.
LEMMA Staying ==
    ASSUME 0 \in Repo, NEW s \in State, NEW t \in Shell, Good(s.tab[t], s.disk)
    PROVE  LET x == select(s, t, s.tab[t].selected) IN
           Moves(x, s, t) /\ Good(x.tab[t], x.disk) /\ \A a : Current(x.tab[t], x.disk, a)
<1> DEFINE p == s.tab[t]  r == p.selected  x == select(s, t, r)
<1>1. p \in PickerType /\ r \in Repo
  BY Parts, PickerParts
<1>2. [p EXCEPT !.selected = r] = p
  BY <1>1 DEF PickerType
<1>3. Chosen([p EXCEPT !.selected = r], s.disk) /\ Steady([p EXCEPT !.selected = r]) /\ Sorted(p) /\ Loading(p, s.disk)
  BY <1>2 DEF Good
<1>4. /\ Frame(x, s, t) /\ Alike(x.tab[t], [p EXCEPT !.selected = r])
      /\ Good(x.tab[t], s.disk) /\ \A a : Current(x.tab[t], s.disk, a)
  BY <1>1, <1>3, Choosing
<1> HIDE DEF x
<1> QED BY <1>2, <1>4 DEF Frame, Moves, Alike, Doing, SameDisk, x

\* A tab goes back to its picker.
LEMMA GoingHome ==
    ASSUME 0 \in Repo, NEW s \in State, NEW t \in Shell, s.disk.repos \subseteq s.disk.past, Good(s.tab[t], s.disk)
    PROVE  LET x == home(s, t) IN
           Moves(x, s, t) /\ Good(x.tab[t], x.disk) /\ \A a : Current(x.tab[t], x.disk, a)
<1> DEFINE y == closeSession(s, t)  x == select(y, t, y.tab[t].selected)
<1>1. Moves(y, s, t) /\ Good(y.tab[t], y.disk)
  BY Closing
<1>2. home(s, t) = x
  BY Zenon DEF home
<1> HIDE DEF y
<1>3. Moves(x, y, t) /\ Good(x.tab[t], x.disk) /\ \A a : Current(x.tab[t], x.disk, a)
  BY <1>1, Staying DEF Moves
<1> HIDE DEF x
<1>4. Moves(x, s, t)
  BY <1>1, <1>3 DEF Moves, SameDisk, Doing
<1> QED BY <1>2, <1>3, <1>4

\* A tab goes to a graph, or home if its account is unknown.
LEMMA Visiting ==
    ASSUME 0 \in Repo, NEW s \in State, NEW t \in Shell, NEW g \in Graph,
           s.disk.repos \subseteq s.disk.past, Good(s.tab[t], s.disk)
    PROVE  LET x == visit(s, t, g) IN
           Moves(x, s, t) /\ Good(x.tab[t], x.disk) /\ \A a : Current(x.tab[t], x.disk, a)
<1> DEFINE y == closeSession(s, t)
           ph == IF g.repo = 0 /\ g \notin s.disk.entries THEN "looking" ELSE "opening"
           q == [y.tab[t] EXCEPT !.at = g, !.load = [r \in Repo |-> NoLoad], !.phase = ph]
           z == With(y, t, q)
           x == visit(s, t, g)
<1>1. Moves(y, s, t) /\ Good(y.tab[t], y.disk)
  BY Closing
<1>2. x = IF g.repo \in y.disk.repos \cup {0} THEN z ELSE home(s, t)
  BY Zenon DEF visit
<1> HIDE DEF y
<1>3. y \in State /\ y.tab[t] \in PickerType /\ y.disk.repos \subseteq y.disk.past
  BY <1>1, Parts DEF Moves, SameDisk
<1>4. CASE g.repo \in y.disk.repos \cup {0}
  <2>1. ph \in Word /\ ph # "picker" /\ g \in Ref /\ [r \in Repo |-> NoLoad] \in [Repo -> LoadType]
    BY GraphIsRef, Empty DEF Word
  <2> HIDE DEF ph
  <2>2. /\ q \in PickerType /\ q.load = [r \in Repo |-> NoLoad] /\ q.cat = y.tab[t].cat /\ q.phase = ph /\ q.at = g
        /\ q.selected = y.tab[t].selected /\ q.repos = y.tab[t].repos /\ Doing(q, y.tab[t])
    BY <1>3, <2>1 DEF PickerType, Doing
  <2> HIDE DEF q
  <2>3. selected(q) = selected(y.tab[t])
    BY <2>2 DEF selected
  <2>4. Chosen(q, y.disk) /\ Steady(q)
    BY <1>1, <2>1, <2>2, <2>3 DEF Good, Chosen, Steady, Doing
  <2>5. Sorted(q) /\ Loading(q, y.disk)
    BY <1>1, <2>2, Empty DEF Good, Sorted, Loading
  <2>6. \A a : Current(q, y.disk, a)
    BY <2>1, <2>2 DEF Current, OnPicker
  <2>7. Frame(z, y, t) /\ z.tab[t] = q
    BY <1>3, <2>2, WithTab
  <2>8. x = z
    BY <1>2, <1>4
  <2> HIDE DEF z, x
  <2>9. Moves(x, s, t) /\ Good(x.tab[t], x.disk) /\ \A a : Current(x.tab[t], x.disk, a)
    BY <1>1, <2>2, <2>4, <2>5, <2>6, <2>7, <2>8 DEF Moves, Frame, Good, SameDisk, Doing
  <2> QED BY <2>9 DEF x
<1>5. CASE g.repo \notin y.disk.repos \cup {0}
  <2>1. x = home(s, t)
    BY <1>2, <1>5
  <2> QED BY <2>1, GoingHome
<1> QED BY <1>4, <1>5

\* A tab that moved left the others as they were.
LEMMA Moved ==
    ASSUME NEW s \in State, NEW t \in Shell, NEW x, NEW a, Moves(x, s, t), Settled(s, a) \/
               (\A u \in Shell : u # t => Good(s.tab[u], s.disk) /\ Current(s.tab[u], s.disk, a)),
           Good(x.tab[t], x.disk), Current(x.tab[t], x.disk, a)
    PROVE  Carries(x, s) /\ Settled(x, a) /\ SameDisk(x.disk, s.disk)
<1>1. \A u \in Shell : u # t => Good(s.tab[u], s.disk) /\ Current(s.tab[u], s.disk, a)
  BY DEF Settled, Steadies
<1>2. \A u \in Shell : Good(s.tab[u], s.disk) => Good(s.tab[u], x.disk)
  BY GoodSame DEF Moves, SameDisk
<1>3. \A u \in Shell : Current(s.tab[u], s.disk, a) => Current(s.tab[u], x.disk, a)
  BY GoodSame DEF Moves, SameDisk
<1>4. \A u \in Shell : Good(x.tab[u], x.disk) /\ Current(x.tab[u], x.disk, a)
  BY <1>1, <1>2, <1>3 DEF Moves
<1> QED BY <1>4 DEF Settled, Steadies, Carries, Moves, SameDisk, Doing

\* The picker opens a graph, writing the entry of one that is not local.
LEMMA Opening ==
    ASSUME 0 \in Repo, NEW s \in State, NEW t \in Shell, NEW g \in Graph, NEW a,
           s.disk.repos \subseteq s.disk.past, Settled(s, a)
    PROVE  LET x == openGraph(s, t, g) IN
           /\ Carries(x, s) /\ Settled(x, a) /\ x.disk.repos = s.disk.repos
           /\ s.disk.entries \subseteq x.disk.entries
<1> DEFINE y == IF g.repo # 0 THEN writeEntries(s, t, {g}) ELSE s
           x == visit(y, t, g)
<1>1. openGraph(s, t, g) = x
  BY Zenon DEF openGraph
<1>2. Carries(y, s) /\ Settled(y, a) /\ y.disk.repos = s.disk.repos /\ s.disk.entries \subseteq y.disk.entries
  <2>1. CASE g.repo # 0
    <3>1. Of({g}, 0) = {} /\ {g} \in SUBSET Graph
      BY <2>1 DEF Of
    <3>2. LET w == writeEntries(s, t, {g}) IN
          Carries(w, s) /\ Settled(w, a) /\ w.disk = [s.disk EXCEPT !.entries = @ \cup {g}]
      BY <3>1, Writing
    <3>3. [s.disk EXCEPT !.entries = @ \cup {g}].repos = s.disk.repos
          /\ s.disk.entries \subseteq [s.disk EXCEPT !.entries = @ \cup {g}].entries
      BY Parts DEF DiskType
    <3> QED BY <2>1, <3>2, <3>3
  <2>2. CASE g.repo = 0
    BY <2>2 DEF Carries, Doing
  <2> QED BY <2>1, <2>2
<1> HIDE DEF y
<1>3. y \in State /\ y.disk.repos \subseteq y.disk.past /\ Good(y.tab[t], y.disk)
  BY <1>2 DEF Carries, Settled, Steadies
<1>4. Moves(x, y, t) /\ Good(x.tab[t], x.disk) /\ \A c : Current(x.tab[t], x.disk, c)
  BY <1>3, Visiting
<1> HIDE DEF x
<1>5. Carries(x, y) /\ Settled(x, a) /\ SameDisk(x.disk, y.disk)
  BY <1>2, <1>3, <1>4, Moved
<1> QED BY <1>1, <1>2, <1>5 DEF Carries, SameDisk, Doing
-----------------------------------------------------------------------------
(* Steps.                                                                  *)

Inv == LibraryInv(Lib)

LEMMA LibIs == Lib.disk = disk /\ Lib.tab = tab /\ Lib.srv = srv /\ Lib.raced = raced
BY DEF Lib

\* A step that leaves the library settled and reachable keeps the invariant.
LEMMA Goes ==
    ASSUME NEW x \in State, Becomes(x), NEW a, a \subseteq Apart(x), Settled(x, a), Reachable(x)
    PROVE  Inv'
<1>1. x = [disk |-> disk', tab |-> tab', srv |-> srv', raced |-> raced']
  BY DEF Becomes, State
<1>2. Currents(x) /\ Steadies(x)
  <2>1. \A u \in Shell : Current(x.tab[u], x.disk, a) => Current(x.tab[u], x.disk, Apart(x))
    BY DEF Current
  <2> QED BY <2>1 DEF Settled, Currents
<1>3. LibraryInv(x)
  BY <1>2 DEF LibraryInv
<1>4. LibraryInv([disk |-> disk', tab |-> tab', srv |-> srv', raced |-> raced'])
  BY <1>1, <1>3
<1> QED BY <1>4 DEF Inv, Lib

\* Entries come, and nothing else of what is stored changes.
LEMMA Reaches ==
    ASSUME NEW s, NEW x, Carries(x, s), x.disk.repos = s.disk.repos, s.disk.entries \subseteq x.disk.entries,
           Reachable(s)
    PROVE  Reachable(x) /\ Apart(x) = Apart(s) /\ Pending(x) = Pending(s)
<1>1. Pending(x) = Pending(s)
  BY DEF Pending, Carries, Doing
<1>2. Kin(x) = Kin(s)
  BY DEF Kin, Carries
<1>3. Reachable(x)
  BY <1>1, <1>2 DEF Reachable, Carries, Doing
<1> QED BY <1>1, <1>3 DEF Apart, Carries

\* A step that only adds entries, listings and places keeps the invariant.
LEMMA Carried ==
    ASSUME Inv, NEW x, Becomes(x), Carries(x, Lib), Settled(x, Apart(Lib)),
           x.disk.repos = disk.repos, disk.entries \subseteq x.disk.entries
    PROVE  Inv'
<1>1. Reachable(Lib)
  BY DEF Inv, LibraryInv
<1>2. Reachable(x) /\ Apart(x) = Apart(Lib)
  BY <1>1, LibIs, Reaches
<1> QED BY <1>2, Goes DEF Carries

\* What the invariant says of the library and of each tab.
LEMMA Was ==
    ASSUME Inv
    PROVE  /\ Lib \in State /\ Settled(Lib, Apart(Lib)) /\ Reachable(Lib)
           /\ disk.repos \subseteq disk.past /\ Lib.disk.repos \subseteq Lib.disk.past
           /\ \A u \in Shell : tab[u] \in PickerType /\ Good(tab[u], disk) /\ Current(tab[u], disk, Apart(Lib))
<1>1. Lib \in State /\ Steadies(Lib) /\ Currents(Lib) /\ Reachable(Lib)
  BY DEF Inv, LibraryInv
<1>2. \A u \in Shell : tab[u] \in PickerType
  BY <1>1, LibIs, Parts
<1>3. disk.repos \subseteq disk.past /\ Lib.disk.repos \subseteq Lib.disk.past
  BY <1>1, LibIs DEF Reachable
<1>4. \A u \in Shell : Good(tab[u], disk) /\ Current(tab[u], disk, Apart(Lib))
  BY <1>1, LibIs DEF Steadies, Currents
<1>5. Settled(Lib, Apart(Lib))
  BY <1>1 DEF Settled, Currents
<1> QED BY <1>1, <1>2, <1>3, <1>4, <1>5

\* One tab's picker is replaced and does what it did.
LEMMA Replacing ==
    ASSUME NEW s \in State, NEW t \in Shell, NEW q \in PickerType, NEW a,
           Settled(s, a), Good(q, s.disk), Current(q, s.disk, a), Doing(q, s.tab[t])
    PROVE  LET x == With(s, t, q) IN
           /\ Moves(x, s, t) /\ Carries(x, s) /\ Settled(x, a) /\ x.disk = s.disk /\ x.tab[t] = q
<1> DEFINE x == With(s, t, q)
<1>1. Frame(x, s, t) /\ x.tab[t] = q
  BY WithTab
<1> HIDE DEF x
<1>2. Moves(x, s, t) /\ Good(x.tab[t], x.disk) /\ Current(x.tab[t], x.disk, a)
  BY <1>1 DEF Moves, Frame, SameDisk
<1>3. Carries(x, s) /\ Settled(x, a)
  BY <1>2, Moved
<1> QED BY <1>1, <1>2, <1>3 DEF Frame, x

\* The event of another tab's write.
LEMMA StorageEventStep ==
    ASSUME 0 \in Repo, Inv, NEW t \in Shell, storageEvent(t)
    PROVE  Inv'
<1> DEFINE p == tab[t]  a == Apart(Lib)
<1>1. Lib \in State /\ Settled(Lib, a) /\ Lib.disk.repos \subseteq Lib.disk.past
      /\ p \in PickerType /\ Good(p, Lib.disk) /\ Current(p, Lib.disk, a) /\ Lib.disk = disk /\ Lib.tab[t] = p
  BY Was, LibIs
<1>2. CASE /\ tab[t].told
           /\ LET x == [Lib EXCEPT !.tab[t].told = FALSE]
              IN Becomes(IF selected(x.tab[t]) = 0 THEN refreshSelected(x, t)
                         ELSE [x EXCEPT !.tab[t].missed = @ \/ x.tab[t].load[0] # NoLoad])
  <2> DEFINE q == [p EXCEPT !.told = FALSE]  y == With(Lib, t, q)
             m == [q EXCEPT !.missed = @ \/ q.load[0] # NoLoad]
  <2>1. /\ q \in PickerType /\ Alike(q, p) /\ q.load = p.load /\ q.cat = p.cat /\ q.told = FALSE
        /\ q.missed = p.missed
    BY <1>1 DEF PickerType, Alike
  <2>2. [Lib EXCEPT !.tab[t].told = FALSE] = y
    BY <1>1 DEF With
  <2> HIDE DEF q
  <2>3. Frame(y, Lib, t) /\ y.tab[t] = q
    BY <1>1, <2>1, WithTab
  <2>4. selected(q) = selected(p)
    BY <2>1 DEF Alike, selected
  <2>5. Chosen(q, disk) /\ Steady(q) /\ Sorted(q)
    BY <1>1, <2>1, <2>4 DEF Good, Chosen, Steady, Sorted, Alike
  <2>6. CASE selected(q) = 0
    <3> DEFINE x == refreshSelected(y, t)
    <3>1. Becomes(x)
      BY <1>2, <2>2, <2>3, <2>6
    <3>2. y \in State /\ y.disk = disk
      BY <1>1, <2>3 DEF Frame
    <3> HIDE DEF y
    <3>3. Frame(x, y, t) /\ Alike(x.tab[t], q) /\ Good(x.tab[t], disk) /\ Current(x.tab[t], disk, a)
      BY <2>3, <2>5, <2>6, <3>2, RefreshingSelected
    <3> HIDE DEF x
    <3>4. Moves(x, Lib, t) /\ x.disk = disk
      BY <1>1, <2>1, <2>3, <3>2, <3>3 DEF Frame, Moves, SameDisk, Alike, Doing
    <3>5. Carries(x, Lib) /\ Settled(x, a)
      BY <1>1, <3>3, <3>4, Moved
    <3> QED BY <3>1, <3>4, <3>5, Carried
  <2>7. CASE selected(q) # 0
    <3>1. [y EXCEPT !.tab[t].missed = @ \/ y.tab[t].load[0] # NoLoad] = With(y, t, [y.tab[t] EXCEPT !.missed = @ \/ y.tab[t].load[0] # NoLoad])
      BY DEF With
    <3>2. With(y, t, m) = With(Lib, t, m)
      BY <1>1 DEF With, State
    <3>3. Becomes(With(Lib, t, m))
      <4>1. Becomes([y EXCEPT !.tab[t].missed = @ \/ y.tab[t].load[0] # NoLoad])
        <5> HIDE DEF y
        <5> QED BY <1>2, <2>2, <2>3, <2>7
      <4> QED BY <2>3, <3>1, <3>2, <4>1
    <3>4. /\ m \in PickerType /\ Alike(m, p) /\ m.load = p.load /\ m.cat = p.cat /\ m.told = FALSE
          /\ (p.load[0] # NoLoad => m.missed)
      BY <2>1 DEF PickerType, Alike
    <3> HIDE DEF m
    <3>5. selected(m) = selected(p)
      BY <3>4 DEF Alike, selected
    <3>6. Chosen(m, disk) /\ Steady(m) /\ Sorted(m)
      BY <1>1, <3>4, <3>5 DEF Good, Chosen, Steady, Sorted, Alike
    <3>7. Loading(m, disk) /\ Current(m, disk, a)
      BY <1>1, <2>4, <2>7, <3>4, <3>5 DEF Good, Loading, Current
    <3>8. Carries(With(Lib, t, m), Lib) /\ Settled(With(Lib, t, m), a) /\ With(Lib, t, m).disk = disk
      BY <1>1, <3>4, <3>6, <3>7, Replacing DEF Good, Alike, Doing
    <3> QED BY <3>3, <3>8, Carried
  <2> QED BY <2>6, <2>7
<1>3. CASE Becomes(setRepositories([Lib EXCEPT !.tab[t].toldRepos = FALSE], t))
  <2> DEFINE q == [p EXCEPT !.toldRepos = FALSE]  y == With(Lib, t, q)  x == setRepositories(y, t)
  <2>1. q \in PickerType /\ Alike(q, p) /\ q.load = p.load /\ q.cat = p.cat /\ q.told = p.told /\ q.missed = p.missed
    BY <1>1 DEF PickerType, Alike
  <2>2. [Lib EXCEPT !.tab[t].toldRepos = FALSE] = y
    BY <1>1 DEF With
  <2> HIDE DEF q
  <2>3. selected(q) = selected(p)
    BY <2>1 DEF Alike, selected
  <2>4. Good(q, disk)
    BY <1>1, <2>1, <2>3 DEF Good, Chosen, Steady, Sorted, Loading, Alike
  <2>5. Frame(y, Lib, t) /\ y.tab[t] = q
    BY <1>1, <2>1, WithTab
  <2>6. y \in State /\ y.disk = disk
    BY <1>1, <2>5 DEF Frame
  <2>7. Becomes(x)
    BY <1>3, <2>2
  <2> HIDE DEF y
  <2>8. /\ Frame(x, y, t) /\ Doing(x.tab[t], q)
        /\ Good(x.tab[t], disk) /\ Current(x.tab[t], disk, a)
    BY <1>1, <2>4, <2>5, <2>6, ReadingAccounts DEF Doing
  <2> HIDE DEF x
  <2>9. Moves(x, Lib, t) /\ x.disk = disk
    BY <1>1, <2>1, <2>5, <2>6, <2>8 DEF Frame, Moves, SameDisk, Alike, Doing
  <2>10. Carries(x, Lib) /\ Settled(x, a)
    BY <1>1, <2>8, <2>9, Moved
  <2> QED BY <2>7, <2>9, <2>10, Carried
<1> QED BY <1>2, <1>3 DEF storageEvent
-----------------------------------------------------------------------------
(* What the steps share.                                                   *)

\* A picker that lists what it listed, and shows what it showed.
Rests(q, p) ==
    /\ q.at = p.at /\ q.phase = p.phase /\ q.selected = p.selected /\ q.repos = p.repos
    /\ q.cat = p.cat /\ q.load = p.load /\ q.told = p.told /\ q.missed = p.missed

\* One step of a picker is replaced.
LEMMA Dialogs ==
    ASSUME NEW p \in PickerType, NEW o \in StepType
    PROVE  LET q == [p EXCEPT !.dialog = o] IN
           q \in PickerType /\ Rests(q, p) /\ q.dialog = o /\ q.import = p.import /\ q.export = p.export
BY DEF PickerType, Rests

LEMMA Imports ==
    ASSUME NEW p \in PickerType, NEW o \in StepType
    PROVE  LET q == [p EXCEPT !.import = o] IN
           q \in PickerType /\ Rests(q, p) /\ q.import = o /\ q.dialog = p.dialog /\ q.export = p.export
BY DEF PickerType, Rests

LEMMA Exports ==
    ASSUME NEW p \in PickerType, NEW o \in StepType
    PROVE  LET q == [p EXCEPT !.export = o] IN
           q \in PickerType /\ Rests(q, p) /\ q.export = o /\ q.dialog = p.dialog /\ q.import = p.import
BY DEF PickerType, Rests

\* The claims on a picker's lists do not read its steps.
LEMMA Resting ==
    ASSUME NEW q, NEW p, NEW d, Rests(q, p)
    PROVE  /\ selected(q) = selected(p)
           /\ Chosen(p, d) => Chosen(q, d)
           /\ Sorted(p) => Sorted(q)
           /\ Loading(p, d) => Loading(q, d)
           /\ \A a : Current(p, d, a) => Current(q, d, a)
<1>1. selected(q) = selected(p)
  BY DEF Rests, selected
<1>2. Chosen(p, d) => Chosen(q, d)
  BY DEF Rests, Chosen
<1>3. Sorted(p) => Sorted(q)
  BY DEF Rests, Sorted
<1>4. Loading(p, d) => Loading(q, d)
  BY DEF Rests, Loading
<1>5. \A a : Current(p, d, a) => Current(q, d, a)
  BY <1>1 DEF Rests, Current, OnPicker
<1> QED BY <1>1, <1>2, <1>3, <1>4, <1>5

\* One tab takes up another step.
LEMMA Standing ==
    ASSUME NEW s \in State, NEW t \in Shell, NEW q \in PickerType, NEW a,
           Settled(s, a), Rests(q, s.tab[t]), Steady(q)
    PROVE  LET x == With(s, t, q) IN
           Frame(x, s, t) /\ x.tab[t] = q /\ Settled(x, a)
<1> DEFINE x == With(s, t, q)
<1>1. Frame(x, s, t) /\ x.tab[t] = q
  BY WithTab
<1> HIDE DEF x
<1>2. \A u \in Shell : Good(s.tab[u], s.disk) /\ Current(s.tab[u], s.disk, a)
  BY DEF Settled, Steadies
<1>3. Good(q, s.disk) /\ Current(q, s.disk, a)
  BY <1>2, Resting DEF Good
<1>4. \A u \in Shell : Good(x.tab[u], x.disk) /\ Current(x.tab[u], x.disk, a)
  BY <1>1, <1>2, <1>3 DEF Frame
<1> QED BY <1>1, <1>4 DEF Settled, Steadies, x

\* A graph that is listed, or is stored, need not be told apart.
LEMMA Narrowing ==
    ASSUME 0 \in Repo, NEW x \in State, NEW a, NEW b, Settled(x, a),
           \A g \in a \ b : g \in Graph => g.repo # 0 \/ g \in x.disk.entries
    PROVE  Settled(x, b)
<1> SUFFICES ASSUME NEW u \in Shell PROVE Current(x.tab[u], x.disk, b)
  BY DEF Settled
<1>1. Current(x.tab[u], x.disk, a) /\ Sorted(x.tab[u])
  BY DEF Settled, Steadies, Good
<1>2. x.tab[u].cat[0].graphs \subseteq Of(Graph, 0)
  BY <1>1 DEF Sorted
<1> QED BY <1>1, <1>2 DEF Current, Of

\* What a picker offers.
LEMMA Offered ==
    ASSUME 0 \in Repo, Inv, NEW t \in Shell, NEW g \in GraphList(t)
    PROVE  /\ tab[t].phase = "picker" /\ tab[t].dialog = NoStep
           /\ g \in Graph /\ g.repo = selected(tab[t])
<1>1. tab[t] \in PickerType /\ Sorted(tab[t])
  BY Was DEF Good
<1>2. selected(tab[t]) \in Repo
  BY <1>1, SelectedIs
<1>3. tab[t].cat[selected(tab[t])].graphs \subseteq Of(Graph, selected(tab[t]))
  BY <1>1, <1>2 DEF Sorted
<1>4. OnPicker(tab[t]) /\ tab[t].dialog = NoStep /\ g \in tab[t].cat[selected(tab[t])].graphs
  BY DEF GraphList, Cat
<1> QED BY <1>3, <1>4, OfIs DEF OnPicker

\* A tab takes up another dialog.
LEMMA Asked ==
    ASSUME 0 \in Repo, NEW s \in State, NEW t \in Shell, NEW o \in StepType, NEW a, Settled(s, a), Reachable(s),
           o.kind \in {"rename", "delete"} =>
               o.graph \in Graph /\ (o.graph.repo = 0 => selected(s.tab[t]) = 0),
           o.kind = "forget" => o.graph.repo # 0 /\ o.rest \subseteq Of(Graph, o.graph.repo),
           (o.kind = "forget" /\ o.step # "ask") => \A g \in Kin(s) : g.repo = o.graph.repo => g \in o.rest,
           (o.kind = "delete" /\ o.step = "entry") => o.graph \notin Kin(s),
           o.kind = "connect" => /\ s.tab[t].import = NoStep /\ Joins(o, s.disk.past)
                                 /\ \A v \in Shell : v # t => Alone(o, s.tab[v].dialog)
    PROVE  LET x == Poses(s, t, o) IN
           /\ Frame(x, s, t) /\ Settled(x, a) /\ Reachable(x) /\ Pending(x) = Pending(s)
           /\ x.tab[t].dialog = o /\ Rests(x.tab[t], s.tab[t])
           /\ x.tab[t].import = s.tab[t].import /\ x.tab[t].export = s.tab[t].export
<1> DEFINE p == s.tab[t]  q == [p EXCEPT !.dialog = o]  x == With(s, t, q)
<1>1. p \in PickerType /\ Good(p, s.disk)
  BY Parts DEF Settled, Steadies
<1>2. q \in PickerType /\ Rests(q, p) /\ q.dialog = o /\ q.import = p.import /\ q.export = p.export
  BY <1>1, Dialogs
<1>3. Poses(s, t, o) = x
  BY DEF Poses
<1> HIDE DEF q
<1>4. selected(q) = selected(p)
  BY <1>2, Resting
<1>5. Steady(q)
  BY <1>1, <1>2, <1>4 DEF Good, Steady, Rests
<1>6. Frame(x, s, t) /\ x.tab[t] = q /\ Settled(x, a)
  BY <1>2, <1>5, Standing
<1> HIDE DEF x
<1>7. \A u \in Shell : x.tab[u].import = s.tab[u].import
  BY <1>2, <1>6 DEF Frame
<1>8. Pending(x) = Pending(s) /\ Kin(x) = Kin(s)
  BY <1>6, <1>7 DEF Pending, Kin, Frame
<1>9. Reachable(x)
  <2>1. \A u \in Shell : u # t => x.tab[u].dialog = s.tab[u].dialog
    BY <1>6 DEF Frame
  <2>2. x.disk = s.disk /\ x.tab[t].dialog = o
    BY <1>2, <1>6 DEF Frame
  <2>3. Joins(o, s.disk.past) /\ \A v \in Shell : v # t => Alone(o, s.tab[v].dialog) /\ Alone(s.tab[v].dialog, o)
    BY DEF Joins, Alone
  <2>4. \A u \in Shell : /\ Joins(x.tab[u].dialog, x.disk.past)
                         /\ \A v \in Shell : v # u => Alone(x.tab[u].dialog, x.tab[v].dialog)
    BY <2>1, <2>2, <2>3 DEF Reachable
  <2> QED BY <1>8, <2>1, <2>2, <2>4 DEF Reachable
<1> QED BY <1>2, <1>3, <1>6, <1>8, <1>9

Lists(q, p, r, l, c) == q = [p EXCEPT !.load[r] = l, !.cat[r] = c]

\* A request for a list goes on, or answers.
LEMMA Listing ==
    ASSUME 0 \in Repo, NEW p \in PickerType, NEW r \in Repo, NEW l \in LoadType, NEW c \in CatalogType,
           NEW d, Good(p, d), l.entries \subseteq Of(Graph, r), l.stored \subseteq Of(Graph, r),
           c.graphs \subseteq Of(Graph, r), NEW q, Lists(q, p, r, l, c)
    PROVE
           /\ q \in PickerType /\ Alike(q, p) /\ Chosen(q, d) /\ Sorted(q)
           /\ q.load[r] = l /\ q.cat[r] = c /\ q.told = p.told /\ q.missed = p.missed
           /\ selected(q) = selected(p)
           /\ (r # 0 \/ l = NoLoad) => Good(q, d)
           /\ r # 0 => \A a : Current(p, d, a) => Current(q, d, a)
<1>1. p.cat \in [Repo -> CatalogType] /\ p.load \in [Repo -> LoadType]
  BY PickerParts
<1>2. /\ q \in PickerType /\ q.load = [p.load EXCEPT ![r] = l] /\ q.cat = [p.cat EXCEPT ![r] = c]
      /\ Alike(q, p) /\ q.told = p.told /\ q.missed = p.missed
  BY <1>1 DEF PickerType, Alike, Lists
<1>3. /\ q.load[r] = l /\ q.cat[r] = c
      /\ \A u \in Repo : u # r => q.load[u] = p.load[u] /\ q.cat[u] = p.cat[u]
  BY <1>1, <1>2
<1>4. selected(q) = selected(p) /\ Chosen(q, d)
  BY <1>2 DEF Good, Alike, selected, Chosen
<1>5. Sorted(q)
  <2> SUFFICES ASSUME NEW u \in Repo 
               PROVE  /\ q.cat[u].graphs \subseteq Of(Graph, u)
                      /\ q.load[u].entries \subseteq Of(Graph, u) /\ q.load[u].stored \subseteq Of(Graph, u)
    BY DEF Sorted
  <2>1. /\ p.cat[u].graphs \subseteq Of(Graph, u)
        /\ p.load[u].entries \subseteq Of(Graph, u) /\ p.load[u].stored \subseteq Of(Graph, u)
    BY DEF Good, Sorted
  <2> QED BY <1>3, <2>1
<1>6. ASSUME r # 0 \/ l = NoLoad PROVE Good(q, d)
  <2>1. Steady(q)
    BY <1>2, <1>3, <1>4, <1>6 DEF Good, Steady, Alike
  <2>2. Loading(q, d)
    BY <1>2, <1>3, <1>6 DEF Good, Loading
  <2> QED BY <1>4, <1>5, <2>1, <2>2 DEF Good
<1>7. ASSUME r # 0, NEW a, Current(p, d, a) PROVE Current(q, d, a)
  BY <1>2, <1>3, <1>4, <1>7 DEF Current, OnPicker, Alike
<1> QED BY <1>2, <1>3, <1>4, <1>5, <1>6, <1>7

\* An account's list goes on, or answers.
LEMMA ListingAccount ==
    ASSUME 0 \in Repo, NEW s \in State, NEW t \in Shell, NEW r \in Repo, r # 0, NEW l \in LoadType, NEW c \in CatalogType,
           NEW a, Settled(s, a), l.entries \subseteq Of(Graph, r), l.stored \subseteq Of(Graph, r),
           c.graphs \subseteq Of(Graph, r), NEW q, Lists(q, s.tab[t], r, l, c)
    PROVE  LET x == With(s, t, q) IN
           Carries(x, s) /\ Settled(x, a) /\ x.disk = s.disk
<1>1. s.tab[t] \in PickerType /\ Good(s.tab[t], s.disk) /\ Current(s.tab[t], s.disk, a)
  BY Parts DEF Settled, Steadies
<1>2. q \in PickerType /\ Alike(q, s.tab[t]) /\ Good(q, s.disk) /\ Current(q, s.disk, a)
  BY <1>1, Listing
<1>3. Doing(q, s.tab[t])
  BY <1>2 DEF Alike, Doing
<1> QED BY <1>2, <1>3, Replacing

\* A request for a list answers: the entries it read are still those there are.
LEMMA LoadRepositoryCatalogStep ==
    ASSUME 0 \in Repo, Inv, NEW t \in Shell, loadRepositoryCatalog(t)
    PROVE  Inv'
<1> DEFINE p == tab[t]  a == Apart(Lib)
<1>1. /\ Lib \in State /\ Settled(Lib, a) /\ Reachable(Lib)
      /\ p \in PickerType /\ Good(p, disk) /\ Current(p, disk, a)
      /\ Lib.disk = disk /\ Lib.tab[t] = p /\ Lib.raced = raced
  BY Was, LibIs
<1>2. PICK r \in Repo :
        LET l == tab[t].load[r]
            stored == Of(disk.replicas, r)
            listed == {GraphRef(r, id) : id \in srv}
            failed == Catalog("failed", tab[t].cat[r].graphs)
        IN \/ /\ l.stage = "auth"
              /\ Becomes(Loaded(Lib, t, r, Catalog("auth", {})))
           \/ /\ l.stage = "stored"
              /\ Becomes(IF r = 0 THEN Loaded(Lib, t, r, Ready(l.entries \cup stored))
                         ELSE With(Lib, t, [tab[t] EXCEPT !.load[r] = Load("server", l.entries, stored)]))
           \/ l.stage = "stored" /\ Becomes(Loaded(Lib, t, r, failed))
           \/ /\ l.stage = "server"
              /\ Becomes(IF r \in disk.auth
                         THEN Loaded(writeEntries(Lib, t, listed), t, r, Ready(listed))
                         ELSE Loaded(Lib, t, r, Catalog("auth", {})))
           \/ /\ l.stage = "server"
              /\ Becomes(Loaded(Lib, t, r, IF l.stored = {} THEN failed ELSE Ready(l.stored)))
  BY DEF loadRepositoryCatalog
<1> DEFINE l == p.load[r]
           stored == Of(disk.replicas, r)
           listed == {GraphRef(r, id) : id \in srv}
<1>3. l \in LoadType /\ p.cat[r] \in CatalogType
  BY <1>1, PickerParts
<1>4. l.entries \subseteq Graph /\ l.stored \subseteq Graph /\ p.cat[r].graphs \subseteq Graph
  BY <1>3 DEF LoadType, CatalogType
<1>5. l.entries \subseteq Of(Graph, r) /\ l.stored \subseteq Of(Graph, r) /\ p.cat[r].graphs \subseteq Of(Graph, r)
  BY <1>1 DEF Good, Sorted
<1>6. stored \subseteq Of(Graph, r)
  BY <1>1, Parts DEF Of
<1>7. r = 0 => l.stage \notin {"auth", "server"}
  BY <1>1, Empty DEF Good, Loading
<1>8. ASSUME r # 0, NEW c \in CatalogType, c.graphs \subseteq Of(Graph, r), Becomes(Loaded(Lib, t, r, c)) PROVE Inv'
  <2> DEFINE q == [Lib.tab[t] EXCEPT !.load[r] = NoLoad, !.cat[r] = c]
             x == With(Lib, t, q)
  <2>1. Loaded(Lib, t, r, c) = x
    BY Zenon DEF Loaded
  <2>0. Lists(q, Lib.tab[t], r, NoLoad, c)
    BY DEF Lists
  <2> HIDE DEF q
  <2>2. NoLoad.entries \subseteq Of(Graph, r) /\ NoLoad.stored \subseteq Of(Graph, r) /\ NoLoad \in LoadType
    BY Empty
  <2>3. Carries(x, Lib) /\ Settled(x, a) /\ x.disk = disk
    BY <1>1, <1>8, <2>0, <2>2, ListingAccount
  <2> HIDE DEF x
  <2> QED BY <1>8, <2>1, <2>3, Carried
<1>9. Catalog("auth", {}) \in CatalogType /\ Catalog("auth", {}).graphs = {}
  BY ACatalog DEF Word
<1>10. CASE l.stage = "auth" /\ Becomes(Loaded(Lib, t, r, Catalog("auth", {})))
  BY <1>7, <1>8, <1>9, <1>10
<1>11. CASE l.stage = "stored" /\ r = 0 /\ Becomes(Loaded(Lib, t, r, Ready(l.entries \cup stored)))
  <2> DEFINE c == Ready(l.entries \cup stored)
             q == [p EXCEPT !.load[r] = NoLoad, !.cat[r] = c]
  <2>1. l.entries \cup stored \in SUBSET Graph
    BY <1>4, <1>6 DEF Of
  <2>2. c \in CatalogType /\ c.graphs = l.entries \cup stored
    BY <2>1, ACatalog DEF Ready, Word
  <2> HIDE DEF c
  <2>3. Loaded(Lib, t, r, c) = With(Lib, t, q)
    BY <1>1, Zenon DEF Loaded
  <2>4. l # NoLoad
    BY <1>11, Empty
  <2>5. /\ q \in PickerType /\ Alike(q, p) /\ Good(q, disk) /\ q.cat[r] = c /\ q.told = p.told
        /\ q.missed = p.missed /\ selected(q) = selected(p)
    <3>1. NoLoad \in LoadType /\ NoLoad.entries \subseteq Of(Graph, r) /\ NoLoad.stored \subseteq Of(Graph, r)
      BY Empty
    <3>2. c.graphs \subseteq Of(Graph, r)
      BY <1>5, <1>6, <2>2
    <3>3. Lists(q, p, r, NoLoad, c)
      BY DEF Lists
    <3> HIDE DEF q, p
    <3> QED BY <1>1, <2>2, <3>1, <3>2, <3>3, Listing
  <2> HIDE DEF q
  <2>6. Current(q, disk, a)
    <3> SUFFICES ASSUME ~p.told, ~p.missed
                 PROVE  Of(disk.entries, 0) \subseteq c.graphs /\ c.graphs \subseteq Of(disk.entries, 0) \cup a
      BY <1>11, <2>5 DEF Current
    <3>1. l.entries = Of(disk.entries, 0)
      BY <1>1, <1>11, <2>4 DEF Good, Loading
    <3>2. \A g \in stored : g \in disk.entries \cup a
      BY <1>1, <1>11 DEF Reachable, Kin, Apart, Of
    <3>3. \A g \in stored : g.repo = 0
      BY <1>11, OfIs
    <3> HIDE DEF stored, a
    <3>4. stored \subseteq Of(disk.entries, 0) \cup a
      BY <3>2, <3>3 DEF Of
    <3> QED BY <2>2, <3>1, <3>4
  <2>7. Doing(q, Lib.tab[t])
    BY <1>1, <2>5 DEF Alike, Doing
  <2>8. Carries(With(Lib, t, q), Lib) /\ Settled(With(Lib, t, q), a) /\ With(Lib, t, q).disk = disk
    <3>1. Settled(Lib, a) /\ Good(q, Lib.disk) /\ Current(q, Lib.disk, a) /\ q \in PickerType /\ Lib \in State
      BY <1>1, <2>5, <2>6
    <3> HIDE DEF a, p
    <3> QED BY <1>1, <2>7, <3>1, Replacing
  <2>9. Becomes(With(Lib, t, q))
    <3>1. Becomes(Loaded(Lib, t, r, c))
      BY <1>11 DEF c
    <3> QED BY <2>3, <3>1
  <2> QED BY <2>8, <2>9, Carried
<1>12. CASE /\ l.stage = "stored" /\ r # 0
            /\ Becomes(With(Lib, t, [p EXCEPT !.load[r] = Load("server", l.entries, stored)]))
  <2> DEFINE m == Load("server", l.entries, stored)
             q == [p EXCEPT !.load[r] = m]
             x == With(Lib, t, q)
  <2>1. m \in LoadType /\ m.entries = l.entries /\ m.stored = stored
    <3>1. l.entries \in SUBSET Graph /\ stored \in SUBSET Graph
      BY <1>4, <1>6 DEF Of
    <3> HIDE DEF l, stored
    <3> QED BY <3>1, ALoad DEF Word
  <2> HIDE DEF m
  <2>2. Lists(q, Lib.tab[t], r, m, p.cat[r])
    <3>1. p.cat \in [Repo -> CatalogType] /\ [p.cat EXCEPT ![r] = p.cat[r]] = p.cat
      BY <1>1, PickerParts
    <3> HIDE DEF p
    <3> QED BY <1>1, <3>1 DEF PickerType, Lists
  <2>5. Becomes(x)
    BY <1>12 DEF m
  <2> HIDE DEF q
  <2>3. Carries(x, Lib) /\ Settled(x, a) /\ x.disk = disk
    BY <1>1, <1>3, <1>5, <1>6, <1>12, <2>1, <2>2, ListingAccount
  <2> HIDE DEF x
  <2> QED BY <2>3, <2>5, Carried
<1>13. CASE /\ l.stage = "server" /\ r \in disk.auth
            /\ Becomes(Loaded(writeEntries(Lib, t, listed), t, r, Ready(listed)))
  <2> DEFINE y == writeEntries(Lib, t, listed)  c == Ready(listed)
             q == [y.tab[t] EXCEPT !.load[r] = NoLoad, !.cat[r] = c]
             x == With(y, t, q)
  <2>1. listed \in SUBSET Graph /\ listed \subseteq Of(Graph, r)
    BY <1>1, Parts DEF GraphRef, Graph, Of, Lib
  <2>2. Of(listed, 0) = {}
    BY <1>7, <1>13, <2>1 DEF Of
  <2> HIDE DEF listed
  <2>3. Carries(y, Lib) /\ Settled(y, a) /\ y.disk = [disk EXCEPT !.entries = @ \cup listed]
    BY <1>1, <2>1, <2>2, Writing
  <2>4. c \in CatalogType /\ c.graphs = listed
    BY <2>1, ACatalog DEF Ready, Word
  <2>5. Loaded(y, t, r, c) = x
    BY Zenon DEF Loaded
  <2> HIDE DEF y, c
  <2>6. Carries(x, y) /\ Settled(x, a) /\ x.disk = y.disk
    <3>1. NoLoad \in LoadType /\ NoLoad.entries \subseteq Of(Graph, r) /\ NoLoad.stored \subseteq Of(Graph, r)
      BY Empty
    <3>2. y \in State /\ r # 0 /\ c.graphs \subseteq Of(Graph, r)
      BY <1>7, <1>13, <2>1, <2>3, <2>4 DEF Carries
    <3>3. Lists(q, y.tab[t], r, NoLoad, c)
      BY DEF Lists
    <3> HIDE DEF q, a
    <3> QED BY <2>3, <2>4, <3>1, <3>2, <3>3, ListingAccount
  <2> HIDE DEF x
  <2>7. y.disk.repos = disk.repos /\ disk.entries \subseteq y.disk.entries
    BY <1>1, <2>3, Parts DEF DiskType
  <2>8. Carries(x, Lib)
    BY <2>3, <2>6 DEF Carries, Doing
  <2>9. Becomes(x)
    BY <1>13, <2>5 DEF y, c
  <2> QED BY <2>6, <2>7, <2>8, <2>9, Carried
<1>14. CASE l.stage = "server" /\ Becomes(Loaded(Lib, t, r, Catalog("auth", {})))
  BY <1>7, <1>8, <1>9, <1>14
<1>15. CASE l.stage = "server" /\ Becomes(Loaded(Lib, t, r, IF l.stored = {} THEN Catalog("failed", p.cat[r].graphs) ELSE Ready(l.stored)))
  <2> DEFINE c == IF l.stored = {} THEN Catalog("failed", p.cat[r].graphs) ELSE Ready(l.stored)
  <2>1. Catalog("failed", p.cat[r].graphs) \in CatalogType /\ Catalog("failed", p.cat[r].graphs).graphs = p.cat[r].graphs
    BY <1>4, ACatalog DEF Word
  <2>2. Ready(l.stored) \in CatalogType /\ Ready(l.stored).graphs = l.stored
    BY <1>4, ACatalog DEF Word, Ready
  <2>3. c \in CatalogType /\ c.graphs \subseteq Of(Graph, r)
    BY <1>5, <2>1, <2>2
  <2> HIDE DEF c
  <2>4. Becomes(Loaded(Lib, t, r, c))
    BY <1>15 DEF c
  <2> QED BY <1>7, <1>8, <1>15, <2>3, <2>4
<1>16. CASE l.stage = "stored" /\ Becomes(Loaded(Lib, t, r, Catalog("failed", p.cat[r].graphs)))
  <2> DEFINE c == Catalog("failed", p.cat[r].graphs)
             q == [p EXCEPT !.load[r] = NoLoad, !.cat[r] = c]
  <2>1. c \in CatalogType /\ c.graphs = p.cat[r].graphs /\ c.status = "failed"
    BY <1>4, ACatalog DEF Word
  <2> HIDE DEF c
  <2>2. Becomes(Loaded(Lib, t, r, c))
    BY <1>16 DEF c
  <2>3. Loaded(Lib, t, r, c) = With(Lib, t, q)
    BY <1>1, Zenon DEF Loaded
  <2>4. /\ q \in PickerType /\ Alike(q, p) /\ Good(q, disk) /\ q.cat[r] = c
        /\ r # 0 => Current(q, disk, a)
    <3>1. NoLoad \in LoadType /\ NoLoad.entries \subseteq Of(Graph, r) /\ NoLoad.stored \subseteq Of(Graph, r)
      BY Empty
    <3>2. c.graphs \subseteq Of(Graph, r)
      BY <1>5, <2>1
    <3>3. Lists(q, p, r, NoLoad, c)
      BY DEF Lists
    <3> HIDE DEF q, p, a
    <3> QED BY <1>1, <2>1, <3>1, <3>2, <3>3, Listing
  <2> HIDE DEF q
  <2>5. Current(q, disk, a)
    BY <2>1, <2>4 DEF Current
  <2>6. Doing(q, Lib.tab[t])
    BY <1>1, <2>4 DEF Alike, Doing
  <2>7. Carries(With(Lib, t, q), Lib) /\ Settled(With(Lib, t, q), a) /\ With(Lib, t, q).disk = disk
    <3>1. Settled(Lib, a) /\ Good(q, Lib.disk) /\ Current(q, Lib.disk, a) /\ q \in PickerType /\ Lib \in State
      BY <1>1, <2>4, <2>5
    <3> HIDE DEF a, p
    <3> QED BY <1>1, <2>6, <3>1, Replacing
  <2>8. Becomes(With(Lib, t, q))
    BY <2>2, <2>3
  <2> QED BY <2>7, <2>8, Carried
<1> QED BY <1>2, <1>10, <1>11, <1>12, <1>13, <1>14, <1>15, <1>16

Phases(q, p, ph) == q = [p EXCEPT !.phase = ph]

\* A picker's phase in the shell changes while no list loads.
LEMMA Phasing ==
    ASSUME 0 \in Repo, NEW p \in PickerType, NEW ph \in Word, NEW d, NEW q, Phases(q, p, ph),
           Good(p, d), p.phase # "picker", ph # "picker"
    PROVE  q \in PickerType /\ Good(q, d) /\ (\A a : Current(q, d, a)) /\ Doing(q, p) /\ q.repos = p.repos
<1>1. /\ q \in PickerType /\ q.at = p.at /\ q.phase = ph /\ q.selected = p.selected /\ q.repos = p.repos
      /\ q.load = p.load /\ q.cat = p.cat /\ q.told = p.told /\ q.missed = p.missed
      /\ q.import = p.import /\ q.export = p.export /\ q.dialog = p.dialog
  BY DEF PickerType, Phases
<1>2. selected(q) = selected(p)
  BY <1>1 DEF selected
<1>3. Chosen(q, d) /\ Sorted(q) /\ Loading(q, d)
  BY <1>1 DEF Good, Chosen, Sorted, Loading
<1>4. Steady(q)
  BY <1>1, <1>2 DEF Good, Steady
<1>5. \A a : Current(q, d, a)
  BY <1>1 DEF Current, OnPicker
<1> QED BY <1>1, <1>3, <1>4, <1>5 DEF Good, Doing

\* A local graph without an entry is looked up.
LEMMA LocalGraphExistsStep ==
    ASSUME 0 \in Repo, Inv, NEW t \in Shell, localGraphExists(t)
    PROVE  Inv'
<1> DEFINE p == tab[t]  a == Apart(Lib)  q == [p EXCEPT !.phase = "opening"]
<1>1. /\ Lib \in State /\ Settled(Lib, a) /\ Lib.disk.repos \subseteq Lib.disk.past
      /\ p \in PickerType /\ Good(p, Lib.disk) /\ Lib.disk = disk /\ Lib.tab[t] = p
  BY Was, LibIs
<1>2. CASE p.phase = "looking" /\ Becomes(With(Lib, t, q))
  <2>1. Phases(q, p, "opening")
    BY DEF Phases
  <2>2. q \in PickerType /\ Good(q, Lib.disk) /\ Current(q, Lib.disk, a) /\ Doing(q, p)
    <3>1. "opening" \in Word
      BY DEF Word
    <3> HIDE DEF q
    <3> QED BY <1>1, <1>2, <2>1, <3>1, Phasing
  <2> HIDE DEF q, a
  <2>3. LET x == With(Lib, t, q) IN Carries(x, Lib) /\ Settled(x, a) /\ x.disk = disk
    BY <1>1, <2>2, Replacing
  <2> QED BY <1>2, <2>3, Carried DEF a
<1>3. CASE Becomes(home(Lib, t))
  <2> DEFINE x == home(Lib, t)
  <2>1. Moves(x, Lib, t) /\ Good(x.tab[t], x.disk) /\ Current(x.tab[t], x.disk, a)
    BY <1>1, GoingHome
  <2> HIDE DEF x
  <2>2. Carries(x, Lib) /\ Settled(x, a) /\ SameDisk(x.disk, disk)
    BY <1>1, <2>1, Moved
  <2>3. Becomes(x)
    BY <1>3 DEF x
  <2> QED BY <2>2, <2>3, Carried DEF SameDisk
<1> QED BY <1>2, <1>3 DEF localGraphExists

\* The reader leaves a graph.
LEMMA OnExitStep ==
    ASSUME 0 \in Repo, Inv, NEW t \in Shell, onExit(t)
    PROVE  Inv'
<1> DEFINE p == tab[t]  a == Apart(Lib)  x == home(Lib, t)
<1>1. /\ Lib \in State /\ Settled(Lib, a) /\ Lib.disk.repos \subseteq Lib.disk.past
      /\ p \in PickerType /\ Good(p, Lib.disk) /\ Lib.disk = disk /\ Lib.tab[t] = p
  BY Was, LibIs
<1>2. Moves(x, Lib, t) /\ Good(x.tab[t], x.disk) /\ Current(x.tab[t], x.disk, a)
  BY <1>1, GoingHome
<1>3. Becomes(x)
  BY DEF onExit
<1> HIDE DEF x
<1>4. Carries(x, Lib) /\ Settled(x, a) /\ SameDisk(x.disk, disk)
  BY <1>1, <1>2, Moved
<1> QED BY <1>3, <1>4, Carried DEF SameDisk

\* A graph that is stored while nothing removes it can be reached.
LEMMA Storing ==
    ASSUME Inv, NEW s \in State, NEW g \in Graph,
           SameDisk(s.disk, disk), s.tab = tab, s.srv = srv, s.raced = raced
    PROVE  LET x == Stored(s, g) IN
           /\ x \in State /\ x.tab = tab /\ Settled(x, Apart(Lib)) /\ Apart(Lib) \subseteq Apart(x)
           /\ Reachable(x) /\ x.disk.entries = disk.entries /\ x.disk.repos = disk.repos
<1> DEFINE d == [s.disk EXCEPT !.replicas = @ \cup {g}]
           ra == IF Removing(g) THEN s.raced \cup {g} ELSE s.raced
           y == [s EXCEPT !.disk = d]
           x == [y EXCEPT !.raced = ra]
           a == Apart(Lib)
<1>1. /\ d \in DiskType /\ d.entries = disk.entries /\ d.repos = disk.repos /\ d.past = disk.past
      /\ d.replicas = disk.replicas \cup {g}
  BY Parts DEF DiskType, SameDisk
<1>2. Stored(s, g) = x
  BY DEF Stored
<1>3. ra \in SUBSET Graph /\ raced \subseteq ra /\ (Removing(g) => g \in ra)
  BY Parts
<1> HIDE DEF d, ra
<1>4. y \in State /\ y.disk = d /\ y.tab = tab /\ y.srv = srv
  BY <1>1, WithDisk
<1> HIDE DEF y
<1>5. x \in State /\ x.disk = d /\ x.tab = tab /\ x.raced = ra
  BY <1>3, <1>4 DEF State
<1> HIDE DEF x
<1>6. \A u \in Shell : Good(tab[u], disk) /\ Current(tab[u], disk, a)
  BY Was
<1>7. \A u \in Shell : Good(tab[u], d) /\ Current(tab[u], d, a)
  BY <1>1, <1>6, GoodSame
<1>8. Settled(x, a)
  BY <1>5, <1>7 DEF Settled, Steadies
<1>9. Pending(x) = Pending(Lib)
  BY <1>5, LibIs DEF Pending
<1>10. Apart(Lib) \subseteq Apart(x)
  BY <1>3, <1>5, <1>9, LibIs DEF Apart
<1>11. Reachable(Lib)
  BY Was
<1>12. \A h \in Kin(x) : h \in Kin(Lib) \/ (h = g /\ ~Removing(g) /\ (g \in disk.replicas => g \in Kin(Lib)))
  BY <1>1, <1>3, <1>5, LibIs DEF Kin
<1>13. Reachable(x)
  <2>1. \A h \in Kin(Lib) : IF h.repo = 0 THEN h \in disk.entries \cup Pending(Lib) ELSE h.repo \in disk.repos
    BY <1>11, LibIs DEF Reachable
  <2>2. \A u \in Shell : LET o == tab[u].dialog IN
          /\ (o.kind = "forget" /\ o.step # "ask") => \A h \in Kin(Lib) : h.repo = o.graph.repo => h \in o.rest
          /\ (o.kind = "delete" /\ o.step = "entry") => o.graph \notin Kin(Lib)
    BY <1>11, LibIs DEF Reachable
  <2>3. \A h \in Kin(x) : IF h.repo = 0 THEN h \in disk.entries \cup Pending(Lib) ELSE h.repo \in disk.repos
    BY <1>12, <2>1 DEF Removing, Going
  <2>4. \A u \in Shell : LET o == tab[u].dialog IN
          /\ (o.kind = "forget" /\ o.step # "ask") => \A h \in Kin(x) : h.repo = o.graph.repo => h \in o.rest
          /\ (o.kind = "delete" /\ o.step = "entry") => o.graph \notin Kin(x)
    <3> TAKE u \in Shell
    <3> DEFINE o == tab[u].dialog
    <3>1. ASSUME o.kind = "forget", o.step # "ask", NEW h \in Kin(x), h.repo = o.graph.repo PROVE h \in o.rest
      BY <1>12, <2>2, <3>1 DEF Removing, Going
    <3>2. ASSUME o.kind = "delete", o.step = "entry", o.graph \in Kin(x) PROVE FALSE
      BY <1>12, <2>2, <3>2 DEF Removing, Going
    <3> QED BY <3>1, <3>2
  <2>5. d.repos \subseteq d.past /\ 0 \notin d.past
    BY <1>1, <1>11, LibIs DEF Reachable
  <2>6. \A u \in Shell : /\ Joins(tab[u].dialog, d.past)
                         /\ \A v \in Shell : v # u => Alone(tab[u].dialog, tab[v].dialog)
    BY <1>1, <1>11, LibIs DEF Reachable
  <2> QED BY <2>6, <1>1, <1>5, <1>9, <2>3, <2>4, <2>5 DEF Reachable
<1> QED BY <1>1, <1>2, <1>5, <1>8, <1>10, <1>13

\* The session opens the replica, which creates it.
LEMMA SessionOpensStep ==
    ASSUME 0 \in Repo, Inv, NEW t \in Shell, sessionOpens(t)
    PROVE  Inv'
<1> DEFINE p == tab[t]  a == Apart(Lib)  g == p.at
           s == IF Free(Lib, g) THEN Takes(Lib, t, g) ELSE Lib
           y == Stored(s, g)
           ph == IF Free(Lib, g) THEN "open" ELSE "reading"
           q == [p EXCEPT !.phase = ph]
           x == With(y, t, q)
<1>1. /\ Lib \in State /\ p \in PickerType /\ Good(p, disk) /\ Lib.disk = disk /\ Lib.tab = tab
      /\ Lib.srv = srv /\ Lib.raced = raced
  BY Was, LibIs
<1>2. p.phase # "picker" /\ Becomes(x)
  BY Zenon DEF sessionOpens
<1>3. g \in Graph
  BY <1>1, <1>2 DEF Good, Steady
<1>4. s \in State /\ SameDisk(s.disk, disk) /\ s.tab = tab /\ s.srv = srv /\ s.raced = raced
  <2>1. LET w == Takes(Lib, t, g) IN
        w \in State /\ SameDisk(w.disk, disk) /\ w.tab = tab /\ w.srv = srv /\ w.raced = raced
    <3> HIDE DEF p
    <3> QED BY <1>1, <1>3, Taking
  <2>2. SameDisk(disk, disk)
    BY DEF SameDisk
  <2> QED BY <1>1, <2>1, <2>2
<1>5. ph \in Word /\ ph # "picker" /\ Phases(q, p, ph)
  BY DEF Word, Phases
<1> HIDE DEF s, ph, q, p
<1>6. /\ y \in State /\ y.tab = tab /\ Settled(y, a) /\ a \subseteq Apart(y)
      /\ Reachable(y) /\ y.disk.entries = disk.entries /\ y.disk.repos = disk.repos
  BY <1>3, <1>4, Storing
<1> HIDE DEF y
<1>7. Good(p, y.disk) /\ y.tab[t] = p
  BY <1>6 DEF Settled, Steadies, p
<1>8. q \in PickerType /\ Good(q, y.disk) /\ Current(q, y.disk, a) /\ Doing(q, y.tab[t])
  BY <1>1, <1>2, <1>5, <1>7, Phasing
<1> HIDE DEF a
<1>9. Carries(x, y) /\ Settled(x, a) /\ x.disk = y.disk
  BY <1>6, <1>8, Replacing
<1> HIDE DEF x
<1>10. Reachable(x) /\ Apart(x) = Apart(y)
  BY <1>6, <1>9, Reaches
<1> QED BY <1>2, <1>6, <1>9, <1>10, Goes DEF Carries

\* The reader opens a graph of the list.
LEMMA OpenStep ==
    ASSUME 0 \in Repo, Inv, NEW t \in Shell, open(t)
    PROVE  Inv'
<1>1. PICK g \in GraphList(t) : Becomes(openGraph(Lib, t, g))
  BY DEF open
<1> DEFINE x == openGraph(Lib, t, g)
<1>2. g \in Graph
  BY Offered
<1>3. Lib \in State /\ Settled(Lib, Apart(Lib)) /\ Lib.disk.repos \subseteq Lib.disk.past
  BY Was
<1>4. Carries(x, Lib) /\ Settled(x, Apart(Lib)) /\ x.disk.repos = disk.repos /\ disk.entries \subseteq x.disk.entries
  BY <1>2, <1>3, LibIs, Opening
<1> QED BY <1>1, <1>4, Carried

\* A tab asks for the list it shows.
LEMMA Relisting ==
    ASSUME 0 \in Repo, NEW s \in State, NEW t \in Shell, NEW a, Settled(s, a)
    PROVE  LET x == refreshSelected(s, t) IN
           Frame(x, s, t) /\ Carries(x, s) /\ Settled(x, a) /\ x.disk = s.disk
<1> DEFINE x == refreshSelected(s, t)
<1>1. Good(s.tab[t], s.disk)
  BY DEF Settled, Steadies
<1>2. /\ Frame(x, s, t) /\ Alike(x.tab[t], s.tab[t]) /\ Good(x.tab[t], s.disk) /\ Current(x.tab[t], s.disk, a)
  BY <1>1, RefreshingSelected DEF Good
<1> HIDE DEF x
<1>3. Moves(x, s, t) /\ x.disk = s.disk
  BY <1>2 DEF Frame, Moves, Alike, Doing, SameDisk
<1>4. Carries(x, s) /\ Settled(x, a)
  BY <1>2, <1>3, Moved
<1> QED BY <1>2, <1>3, <1>4 DEF x

\* The reader asks again for a list that failed.
LEMMA RetryStep ==
    ASSUME 0 \in Repo, Inv, NEW t \in Shell, retry(t)
    PROVE  Inv'
<1> DEFINE x == refreshSelected(Lib, t)
<1>1. Becomes(x)
  BY DEF retry
<1>2. Carries(x, Lib) /\ Settled(x, Apart(Lib)) /\ x.disk = disk
  BY Was, LibIs, Relisting
<1> QED BY <1>1, <1>2, Carried

\* The credentials change.
LEMMA Authorizing ==
    ASSUME NEW s \in State, NEW A \in SUBSET Repo, NEW a, Settled(s, a)
    PROVE  LET x == [s EXCEPT !.disk.auth = A] IN
           /\ x \in State /\ x.tab = s.tab /\ x.srv = s.srv /\ x.raced = s.raced
           /\ Carries(x, s) /\ Settled(x, a) /\ SameDisk(x.disk, s.disk)
<1> DEFINE d == [s.disk EXCEPT !.auth = A]  y == [s EXCEPT !.disk = d]
<1>1. d \in DiskType /\ SameDisk(d, s.disk)
  BY Parts DEF DiskType, SameDisk
<1>2. [s EXCEPT !.disk.auth = A] = y
  OBVIOUS
<1> HIDE DEF d
<1>3. y \in State /\ y.disk = d /\ y.tab = s.tab /\ y.srv = s.srv /\ y.raced = s.raced
  BY <1>1, WithDisk
<1> HIDE DEF y
<1>4. \A u \in Shell : Good(s.tab[u], s.disk) /\ Current(s.tab[u], s.disk, a)
  BY DEF Settled, Steadies
<1>5. \A u \in Shell : Good(s.tab[u], d) /\ Current(s.tab[u], d, a)
  BY <1>1, <1>4, GoodSame DEF SameDisk
<1>6. Settled(y, a)
  BY <1>3, <1>5 DEF Settled, Steadies
<1>7. Carries(y, s) /\ SameDisk(y.disk, s.disk)
  BY <1>1, <1>3 DEF Carries, Doing, SameDisk
<1> QED BY <1>2, <1>3, <1>6, <1>7

\* The reader signs out of an account.
LEMMA SignOutOfStep ==
    ASSUME 0 \in Repo, Inv, NEW t \in Shell, signOutOf(t)
    PROVE  Inv'
<1> DEFINE A == disk.auth \ {selected(tab[t])}
           y == [Lib EXCEPT !.disk.auth = A]
           x == refreshSelected(y, t)
           a == Apart(Lib)
<1>1. Lib \in State /\ Settled(Lib, a) /\ Lib.disk = disk
  BY Was, LibIs
<1>2. A \in SUBSET Repo
  BY <1>1, Parts
<1>3. Becomes(x)
  <2>1. [Lib EXCEPT !.disk.auth = @ \ {selected(tab[t])}] = y
    BY <1>1
  <2> QED BY <2>1 DEF signOutOf
<1> HIDE DEF A, a
<1>4. y \in State /\ Carries(y, Lib) /\ Settled(y, a) /\ SameDisk(y.disk, disk)
  BY <1>1, <1>2, Authorizing
<1> HIDE DEF y
<1>5. Carries(x, y) /\ Settled(x, a) /\ x.disk = y.disk
  BY <1>4, Relisting
<1> HIDE DEF x
<1>6. Carries(x, Lib)
  BY <1>4, <1>5 DEF Carries, Doing
<1> QED BY <1>3, <1>4, <1>5, <1>6, Carried DEF SameDisk, a

\* A reader who does nothing else may choose another account.
LEMMA Choices ==
    ASSUME 0 \in Repo, NEW p \in PickerType, NEW d, Good(p, d), NEW r \in Repo, r \in p.repos \cup {0},
           p.import = NoStep, p.dialog = NoStep
    PROVE  LET q == [p EXCEPT !.selected = r] IN
           /\ Chosen(q, d) /\ Steady(q) /\ Doing(q, p)
<1> DEFINE q == [p EXCEPT !.selected = r]
<1>1. /\ q.at = p.at /\ q.phase = p.phase /\ q.selected = r /\ q.repos = p.repos
      /\ q.load = p.load /\ q.import = p.import /\ q.export = p.export /\ q.dialog = p.dialog
  BY DEF PickerType
<1> HIDE DEF q
<1>2. Chosen(q, d)
  BY <1>1 DEF Good, Chosen
<1>3. Steady(q)
  BY <1>1, NoStepIs DEF Good, Steady
<1> QED BY <1>1, <1>2, <1>3 DEF Doing, q

\* The reader chooses another account.
LEMMA ChooseRepositoryStep ==
    ASSUME 0 \in Repo, Inv, NEW t \in Shell, chooseRepository(t)
    PROVE  Inv'
<1> DEFINE p == tab[t]  a == Apart(Lib)
<1>1. PICK r \in p.repos \cup {0} : Becomes(select(Lib, t, r))
  BY DEF chooseRepository
<1> DEFINE x == select(Lib, t, r)  q == [p EXCEPT !.selected = r]
<1>2. /\ Lib \in State /\ Settled(Lib, a) /\ Lib.disk = disk /\ Lib.tab[t] = p
      /\ p \in PickerType /\ Good(p, Lib.disk)
  BY Was, LibIs
<1>3. p.dialog = NoStep /\ p.import = NoStep /\ r \in Repo
  BY <1>2, PickerParts DEF chooseRepository, Idle
<1>4. Chosen(q, Lib.disk) /\ Steady(q) /\ Doing(q, p)
  <2> HIDE DEF p
  <2> QED BY <1>1, <1>2, <1>3, Choices
<1>5. Frame(x, Lib, t) /\ Alike(x.tab[t], q) /\ Good(x.tab[t], Lib.disk) /\ Current(x.tab[t], Lib.disk, a)
  <2>1. Sorted(Lib.tab[t]) /\ Loading(Lib.tab[t], Lib.disk)
    BY <1>2 DEF Good
  <2> HIDE DEF p
  <2>2. Chosen([Lib.tab[t] EXCEPT !.selected = r], Lib.disk) /\ Steady([Lib.tab[t] EXCEPT !.selected = r])
    BY <1>2, <1>4
  <2> QED BY <1>2, <1>3, <2>1, <2>2, Choosing
<1> HIDE DEF q, p, x, a
<1>6. Moves(x, Lib, t) /\ x.disk = disk
  BY <1>2, <1>4, <1>5 DEF Frame, Moves, SameDisk, Alike, Doing
<1>7. Carries(x, Lib) /\ Settled(x, a)
  BY <1>2, <1>5, <1>6, Moved
<1> QED BY <1>1, <1>6, <1>7, Carried DEF x, a

\* An export opens its graph under the lease.
LEMMA OnExportStep ==
    ASSUME 0 \in Repo, Inv, NEW t \in Shell, onExport(t)
    PROVE  Inv'
<1> DEFINE p == tab[t]  a == Apart(Lib)  e == p.export
<1>1. /\ Lib \in State /\ Settled(Lib, a) /\ Reachable(Lib) /\ Lib.disk = disk /\ Lib.tab = tab
      /\ p \in PickerType /\ Good(p, disk) /\ Lib.srv = srv /\ Lib.raced = raced
  BY Was, LibIs
<1>2. ASSUME NEW s \in State, s.tab = tab, s.disk.entries = disk.entries, s.disk.repos = disk.repos,
             Settled(s, a), a \subseteq Apart(s), Reachable(s),
             NEW o \in StepType, o # NoStep => o.graph \in Graph,
             Becomes(With(s, t, [p EXCEPT !.export = o]))
      PROVE  Inv'
  <2> DEFINE q == [p EXCEPT !.export = o]  x == With(s, t, q)
  <2>1. q \in PickerType /\ Rests(q, p) /\ q.export = o /\ q.dialog = p.dialog /\ q.import = p.import
    <3> HIDE DEF p
    <3> QED BY <1>1, Exports
  <2> HIDE DEF q
  <2>2. selected(q) = selected(p)
    BY <2>1, Resting
  <2>3. Steady(q)
    BY <1>1, <1>2, <2>1, <2>2 DEF Good, Steady, Rests
  <2>4. Rests(q, s.tab[t])
    BY <1>2, <2>1
  <2> HIDE DEF a
  <2>5. Frame(x, s, t) /\ x.tab[t] = q /\ Settled(x, a)
    BY <1>2, <2>1, <2>3, <2>4, Standing
  <2>6. Becomes(x)
    BY <1>2 DEF q
  <2> HIDE DEF x
  <2>7. \A u \in Shell : x.tab[u].import = s.tab[u].import /\ x.tab[u].dialog = s.tab[u].dialog
    BY <1>2, <2>1, <2>5 DEF Frame
  <2>8. Pending(x) = Pending(s) /\ Kin(x) = Kin(s)
    BY <2>5, <2>7 DEF Pending, Kin, Frame
  <2>9. Reachable(x) /\ Apart(x) = Apart(s)
    BY <1>2, <2>5, <2>7, <2>8 DEF Reachable, Frame, Apart
  <2> QED BY <1>2, <2>5, <2>6, <2>9, Goes DEF Frame
<1>3. CASE \E g \in GraphList(t) : Becomes(With(Lib, t, [p EXCEPT !.export = Step("export", g, "none", {}, FALSE)]))
  <2>1. PICK g \in GraphList(t) : Becomes(With(Lib, t, [p EXCEPT !.export = Step("export", g, "none", {}, FALSE)]))
    BY <1>3
  <2>2. g \in Graph /\ g \in Ref
    BY Offered, GraphIsRef
  <2> DEFINE o == Step("export", g, "none", {}, FALSE)
  <2>3. o \in StepType /\ o.graph = g
    <3>1. "export" \in Word /\ "none" \in Word /\ FALSE \in BOOLEAN /\ {} \in SUBSET Graph
      BY DEF Word
    <3> QED BY <2>2, <3>1 DEF Step, StepType
  <2> HIDE DEF o
  <2> QED BY <1>1, <1>2, <2>1, <2>2, <2>3 DEF o
<1>4. CASE e # NoStep /\ Becomes(With(IF Free(Lib, e.graph) THEN Stored(Lib, e.graph) ELSE Lib, t, [p EXCEPT !.export = NoStep]))
  <2> DEFINE s == IF Free(Lib, e.graph) THEN Stored(Lib, e.graph) ELSE Lib
  <2>1. e.graph \in Graph
    BY <1>1, <1>4 DEF Good, Steady
  <2>2. SameDisk(Lib.disk, disk)
    BY <1>1 DEF SameDisk
  <2>3. LET x == Stored(Lib, e.graph) IN
           /\ x \in State /\ x.tab = tab /\ Settled(x, a) /\ a \subseteq Apart(x)
           /\ Reachable(x) /\ x.disk.entries = disk.entries /\ x.disk.repos = disk.repos
    <3> HIDE DEF e
    <3> QED BY <1>1, <2>1, <2>2, Storing
  <2>4. /\ s \in State /\ s.tab = tab /\ Settled(s, a) /\ a \subseteq Apart(s)
        /\ Reachable(s) /\ s.disk.entries = disk.entries /\ s.disk.repos = disk.repos
    BY <1>1, <2>3
  <2>5. Becomes(With(s, t, [p EXCEPT !.export = NoStep]))
    BY <1>4
  <2> HIDE DEF s
  <2> QED BY <1>2, <2>4, <2>5, NoStepIs
<1> QED BY <1>3, <1>4 DEF onExport

\* A graph is renamed, which writes its entry.
LEMMA RenameDialogStep ==
    ASSUME 0 \in Repo, Inv, NEW t \in Shell, RenameDialog(t)
    PROVE  Inv'
<1> DEFINE p == tab[t]  a == Apart(Lib)  d == p.dialog
<1>1. /\ Lib \in State /\ Settled(Lib, a) /\ Reachable(Lib) /\ Lib.disk = disk /\ Lib.tab = tab
      /\ p \in PickerType /\ Good(p, disk) /\ Lib.srv = srv /\ Lib.raced = raced
  BY Was, LibIs
<1>2. CASE \E g \in Of(GraphList(t), 0) : Becomes(Poses(Lib, t, Step("rename", g, "none", {}, FALSE)))
  <2>1. PICK g \in Of(GraphList(t), 0) : Becomes(Poses(Lib, t, Step("rename", g, "none", {}, FALSE)))
    BY <1>2
  <2>2. g \in GraphList(t)
    BY DEF Of
  <2>3. g \in Graph /\ g \in Ref /\ g.repo = selected(p)
    BY <2>2, Offered, GraphIsRef
  <2> DEFINE o == Step("rename", g, "none", {}, FALSE)  x == Poses(Lib, t, o)
  <2>4. o \in StepType /\ o.kind = "rename" /\ o.graph = g
    <3>1. "rename" \in Word /\ "none" \in Word /\ FALSE \in BOOLEAN /\ {} \in SUBSET Graph
      BY DEF Word
    <3> QED BY <2>3, <3>1 DEF Step, StepType
  <2> HIDE DEF o
  <2>5. Frame(x, Lib, t) /\ Settled(x, a) /\ Reachable(x) /\ Pending(x) = Pending(Lib)
    BY <1>1, <2>3, <2>4, Asked
  <2>6. Becomes(x)
    BY <2>1 DEF o
  <2> HIDE DEF x
  <2>7. Apart(x) = a
    BY <2>5 DEF Frame, Apart
  <2> QED BY <2>5, <2>6, <2>7, Goes DEF Frame
<1>3. CASE /\ d.kind = "rename"
           /\ \E save \in BOOLEAN :
                LET x == Poses(Lib, t, NoStep)
                IN Becomes(IF save THEN refreshSelected(writeEntries(x, t, {d.graph}), t) ELSE x)
  <2> DEFINE x == Poses(Lib, t, NoStep)
             y == writeEntries(x, t, {d.graph})
             z == refreshSelected(y, t)
  <2>1. /\ Frame(x, Lib, t) /\ Settled(x, a) /\ Reachable(x) /\ Pending(x) = Pending(Lib)
        /\ Rests(x.tab[t], p)
    BY <1>1, NoStepIs, Asked
  <2>2. Becomes(z) \/ Becomes(x)
    BY <1>3
  <2>3. d.graph \in Graph /\ (d.graph.repo = 0 => selected(p) = 0)
    BY <1>1, <1>3 DEF Good, Steady
  <2> HIDE DEF x, d, p
  <2>4. Apart(x) = a /\ x \in State /\ x.disk = disk
    BY <1>1, <2>1 DEF Frame, Apart
  <2>5. selected(x.tab[t]) = selected(p)
    BY <2>1, Resting
  <2>6. Carries(y, x) /\ Settled(y, a) /\ y.disk = [x.disk EXCEPT !.entries = @ \cup {d.graph}]
    <3>1. {d.graph} \in SUBSET Graph /\ (Of({d.graph}, 0) = {} \/ selected(x.tab[t]) = 0)
      BY <2>3, <2>5 DEF Of
    <3> QED BY <2>1, <2>4, <3>1, Writing
  <2>7. y.disk.repos = x.disk.repos /\ x.disk.entries \subseteq y.disk.entries
    BY <2>4, <2>6, Parts DEF DiskType
  <2>8. Reachable(y) /\ Apart(y) = Apart(x) /\ y \in State
    BY <2>1, <2>6, <2>7, Reaches DEF Carries
  <2> HIDE DEF y
  <2>9. Carries(z, y) /\ Settled(z, a) /\ z.disk = y.disk
    BY <2>6, <2>8, Relisting
  <2> HIDE DEF z
  <2>10. Reachable(z) /\ Apart(z) = Apart(y) /\ z \in State
    BY <2>8, <2>9, Reaches DEF Carries
  <2>11. CASE Becomes(z)
    BY <2>4, <2>8, <2>9, <2>10, <2>11, Goes
  <2>12. CASE Becomes(x)
    BY <2>1, <2>4, <2>12, Goes
  <2> QED BY <2>2, <2>11, <2>12
<1> QED BY <1>2, <1>3 DEF RenameDialog

\* The server gains graphs, or loses some.
LEMMA Serving ==
    ASSUME NEW s \in State, NEW S \in SUBSET Id, NEW a, Settled(s, a), Reachable(s)
    PROVE  LET x == [s EXCEPT !.srv = S] IN
           /\ x \in State /\ x.disk = s.disk /\ x.tab = s.tab /\ x.srv = S /\ x.raced = s.raced
           /\ Settled(x, a) /\ Reachable(x) /\ Apart(x) = Apart(s) /\ Kin(x) = Kin(s)
<1> DEFINE x == [s EXCEPT !.srv = S]
<1>1. x \in State /\ x.disk = s.disk /\ x.tab = s.tab /\ x.srv = S /\ x.raced = s.raced
  BY WithServer
<1> HIDE DEF x
<1>2. Settled(x, a)
  BY <1>1 DEF Settled, Steadies
<1>3. Kin(x) = Kin(s) /\ Pending(x) = Pending(s)
  BY <1>1 DEF Kin, Pending
<1>4. Reachable(x) /\ Apart(x) = Apart(s)
  BY <1>1, <1>3 DEF Reachable, Apart
<1> QED BY <1>1, <1>2, <1>3, <1>4 DEF x

\* Another device changes what the server has.
LEMMA ElsewhereStep ==
    ASSUME 0 \in Repo, Inv, elsewhere
    PROVE  Inv'
<1>1. PICK id \in Id : Becomes([Lib EXCEPT !.srv = IF id \in srv THEN srv \ {id} ELSE srv \cup {id}])
  BY DEF elsewhere
<1> DEFINE S == IF id \in srv THEN srv \ {id} ELSE srv \cup {id}  x == [Lib EXCEPT !.srv = S]
<1>2. Lib \in State /\ Settled(Lib, Apart(Lib)) /\ Reachable(Lib) /\ srv \subseteq Id
  BY Was, LibIs, Parts
<1>3. S \in SUBSET Id
  BY <1>2
<1>4. Becomes(x)
  BY <1>1
<1> HIDE DEF S
<1>5. x \in State /\ Settled(x, Apart(Lib)) /\ Reachable(x) /\ Apart(x) = Apart(Lib)
  BY <1>2, <1>3, Serving
<1> QED BY <1>4, <1>5, Goes

\* A graph is opened, by whatever came before.
LEMMA OpeningFrom ==
    ASSUME 0 \in Repo, NEW s \in State, NEW t \in Shell, NEW g \in Graph, NEW a, Settled(s, a), a \subseteq Apart(s),
           Reachable(s), Becomes(openGraph(s, t, g))
    PROVE  Inv'
<1> DEFINE x == openGraph(s, t, g)
<1>1. s.disk.repos \subseteq s.disk.past
  BY DEF Reachable
<1>2. Carries(x, s) /\ Settled(x, a) /\ x.disk.repos = s.disk.repos /\ s.disk.entries \subseteq x.disk.entries
  BY <1>1, Opening
<1> HIDE DEF x
<1>3. Reachable(x) /\ Apart(x) = Apart(s)
  BY <1>2, Reaches
<1> QED BY <1>2, <1>3, Goes DEF Carries, x

\* An id nothing uses yet.
LEMMA FreshIs ==
    ASSUME NEW r \in Repo, NEW g \in Fresh(r)
    PROVE  g \in Graph /\ g.repo = r /\ g.id \in Id
BY DEF Fresh, GraphRef, Graph

\* A local graph is created and opened.
LEMMA CreateLocalStep ==
    ASSUME 0 \in Repo, Inv, NEW t \in Shell, createLocal(t)
    PROVE  Inv'
<1>1. PICK g \in Fresh(0) : Becomes(openGraph(writeEntries(Lib, t, {g}), t, g))
  BY DEF createLocal
<1> DEFINE a == Apart(Lib)  x == writeEntries(Lib, t, {g})
<1>2. g \in Graph
  BY FreshIs
<1>3. Lib \in State /\ Settled(Lib, a) /\ Reachable(Lib) /\ selected(Lib.tab[t]) = 0
  BY Was, LibIs DEF createLocal
<1>4. Carries(x, Lib) /\ Settled(x, a) /\ x.disk = [Lib.disk EXCEPT !.entries = @ \cup {g}]
  <2>1. {g} \in SUBSET Graph
    BY <1>2
  <2> HIDE DEF a
  <2> QED BY <1>3, <2>1, Writing
<1>5. x.disk.repos = Lib.disk.repos /\ Lib.disk.entries \subseteq x.disk.entries
  BY <1>3, <1>4, Parts DEF DiskType
<1> HIDE DEF x
<1>6. Reachable(x) /\ Apart(x) = a /\ x \in State
  BY <1>3, <1>4, <1>5, Reaches DEF Carries
<1>7. Becomes(openGraph(x, t, g))
  BY <1>1 DEF x
<1> QED BY <1>2, <1>4, <1>6, <1>7, OpeningFrom

\* A graph of the account is created and opened.
LEMMA CreateRemoteStep ==
    ASSUME 0 \in Repo, Inv, NEW t \in Shell, createRemote(t)
    PROVE  Inv'
<1> DEFINE a == Apart(Lib)
<1>1. Lib \in State /\ Settled(Lib, a) /\ Reachable(Lib) /\ srv \subseteq Id /\ Lib.srv = srv
      /\ tab[t] \in PickerType
  BY Was, LibIs, Parts
<1>2. CASE \E g \in Fresh(selected(tab[t])) : Becomes(openGraph([Lib EXCEPT !.srv = @ \cup {g.id}], t, g))
  <2>1. PICK g \in Fresh(selected(tab[t])) : Becomes(openGraph([Lib EXCEPT !.srv = @ \cup {g.id}], t, g))
    BY <1>2
  <2> DEFINE S == srv \cup {g.id}  x == [Lib EXCEPT !.srv = S]
  <2>2. g \in Graph /\ g.id \in Id
    BY <1>1, SelectedIs, FreshIs
  <2>3. S \in SUBSET Id
    BY <1>1, <2>2
  <2>4. Becomes(openGraph(x, t, g))
    BY <1>1, <2>1
  <2> HIDE DEF S, a
  <2>5. x \in State /\ Settled(x, a) /\ Reachable(x) /\ Apart(x) = Apart(Lib)
    BY <1>1, <2>3, Serving
  <2> HIDE DEF x
  <2> QED BY <2>2, <2>4, <2>5, OpeningFrom DEF a
<1>3. CASE Becomes(Lib)
  BY <1>1, <1>3, Goes
<1> QED BY <1>2, <1>3 DEF createRemote

\* An import goes a step on.
LEMMA Importing ==
    ASSUME 0 \in Repo, NEW s \in State, NEW t \in Shell, NEW o \in StepType, NEW a, Settled(s, a),
           o # NoStep => o.graph \in Graph /\ (o.graph.repo = 0 => selected(s.tab[t]) = 0),
           s.tab[t].dialog.kind = "connect" => o = NoStep
    PROVE  LET x == With(s, t, [s.tab[t] EXCEPT !.import = o]) IN
           /\ Frame(x, s, t) /\ Settled(x, a)
           /\ x.tab[t].import = o /\ Rests(x.tab[t], s.tab[t]) /\ \A u \in Shell : x.tab[u].dialog = s.tab[u].dialog
           /\ (o.step # "register" /\ s.tab[t].import.step # "register" /\ Reachable(s))
                => Reachable(x) /\ Apart(x) = Apart(s)
<1> DEFINE p == s.tab[t]  q == [p EXCEPT !.import = o]  x == With(s, t, q)
<1>1. p \in PickerType /\ Good(p, s.disk)
  BY Parts DEF Settled, Steadies
<1>2. q \in PickerType /\ Rests(q, p) /\ q.import = o /\ q.dialog = p.dialog /\ q.export = p.export
  <2> HIDE DEF p
  <2> QED BY <1>1, Imports
<1> HIDE DEF q
<1>3. selected(q) = selected(p)
  BY <1>2, Resting
<1>4. Steady(q)
  BY <1>1, <1>2, <1>3 DEF Good, Steady, Rests
<1>5. Frame(x, s, t) /\ x.tab[t] = q /\ Settled(x, a)
  BY <1>2, <1>4, Standing
<1> HIDE DEF x
<1>6. \A u \in Shell : x.tab[u].dialog = s.tab[u].dialog
  BY <1>2, <1>5 DEF Frame
<1>7. ASSUME o.step # "register", p.import.step # "register", Reachable(s)
      PROVE  Reachable(x) /\ Apart(x) = Apart(s)
  <2>1. \A u \in Shell : x.tab[u].import.step = "register" <=> s.tab[u].import.step = "register"
    BY <1>2, <1>5, <1>7 DEF Frame
  <2>2. \A u \in Shell : s.tab[u].import.step = "register" => x.tab[u].import = s.tab[u].import
    BY <1>2, <1>5, <1>7 DEF Frame
  <2>3. Pending(x) = Pending(s) /\ Kin(x) = Kin(s)
    BY <1>5, <2>1, <2>2 DEF Frame, Kin, Pending
  <2> QED BY <1>5, <1>6, <1>7, <2>3 DEF Reachable, Frame, Apart
<1> QED BY <1>2, <1>5, <1>6, <1>7 DEF x, q

\* The copy is stored: it has an entry to come, and its account if it is one's.
LEMMA Installing ==
    ASSUME 0 \in Repo, Inv, NEW t \in Shell, NEW s \in State, NEW g \in Graph,
           Frame(s, Lib, t), Settled(s, Apart(Lib)), s.tab[t].import.step = "register", s.tab[t].import.graph = g,
           tab[t].import.step # "register", g \notin disk.replicas,
           \A u \in Shell : s.tab[u].dialog = tab[u].dialog
    PROVE  LET x == installImportedGraph(s, g) IN
           x \in State /\ Settled(x, Apart(Lib)) /\ Apart(Lib) \subseteq Apart(x) /\ Reachable(x)
<1> DEFINE d == [s.disk EXCEPT !.replicas = @ \cup {g}]
           ra == IF Going(g) THEN s.raced \cup {g} ELSE s.raced
           y == [s EXCEPT !.disk = d]
           x == [y EXCEPT !.raced = ra]
           a == Apart(Lib)
<1>0. s.disk = disk /\ s.raced = raced /\ s.srv = srv /\ \A u \in Shell : u # t => s.tab[u] = tab[u]
  BY LibIs DEF Frame
<1>1. /\ d \in DiskType /\ d.entries = disk.entries /\ d.repos = disk.repos /\ d.past = disk.past
      /\ d.replicas = disk.replicas \cup {g}
  BY <1>0, Parts DEF DiskType
<1>2. installImportedGraph(s, g) = x
  BY DEF installImportedGraph
<1>3. ra \in SUBSET Graph /\ raced \subseteq ra /\ (Going(g) => g \in ra)
  BY <1>0, Parts
<1> HIDE DEF d, ra
<1>4. y \in State /\ y.disk = d /\ y.tab = s.tab /\ y.srv = s.srv
  BY <1>1, WithDisk
<1> HIDE DEF y
<1>5. x \in State /\ x.disk = d /\ x.tab = s.tab /\ x.raced = ra
  BY <1>3, <1>4 DEF State
<1> HIDE DEF x
<1>6. \A u \in Shell : Good(s.tab[u], d) /\ Current(s.tab[u], d, a)
  BY <1>0, <1>1, GoodSame DEF Settled, Steadies
<1>7. Settled(x, a)
  BY <1>5, <1>6 DEF Settled, Steadies
<1>8. Pending(Lib) \subseteq Pending(x) /\ g \in Pending(x)
  BY <1>0, <1>5, LibIs DEF Pending
<1>9. a \subseteq Apart(x)
  BY <1>3, <1>5, <1>8, LibIs DEF Apart
<1>10. Reachable(Lib)
  BY Was
<1>11. \A h \in Kin(x) : h \in Kin(Lib) \/ (h = g /\ ~Going(g))
  BY <1>1, <1>3, <1>5, LibIs DEF Kin
<1>12. Reachable(x)
  <2>1. \A h \in Kin(Lib) : IF h.repo = 0 THEN h \in disk.entries \cup Pending(Lib) ELSE h.repo \in disk.repos
    BY <1>10, LibIs DEF Reachable
  <2>2. \A u \in Shell : LET o == tab[u].dialog IN
          /\ (o.kind = "forget" /\ o.step # "ask") => \A h \in Kin(Lib) : h.repo = o.graph.repo => h \in o.rest
          /\ (o.kind = "delete" /\ o.step = "entry") => o.graph \notin Kin(Lib)
    BY <1>10, LibIs DEF Reachable
  <2>3. \A h \in Kin(x) : IF h.repo = 0 THEN h \in disk.entries \cup Pending(x) ELSE h.repo \in disk.repos
    BY <1>8, <1>11, <2>1 DEF Going
  <2>4. \A u \in Shell : LET o == tab[u].dialog IN
          /\ (o.kind = "forget" /\ o.step # "ask") => \A h \in Kin(x) : h.repo = o.graph.repo => h \in o.rest
          /\ (o.kind = "delete" /\ o.step = "entry") => o.graph \notin Kin(x)
    <3> TAKE u \in Shell
    <3> DEFINE o == tab[u].dialog
    <3>1. ASSUME o.kind = "forget", o.step # "ask", NEW h \in Kin(x), h.repo = o.graph.repo PROVE h \in o.rest
      BY <1>11, <2>2, <3>1 DEF Going
    <3>2. ASSUME o.kind = "delete", o.step = "entry", o.graph \in Kin(x) PROVE FALSE
      BY <1>11, <2>2, <3>2 DEF Going
    <3> QED BY <3>1, <3>2
  <2>5. d.repos \subseteq d.past /\ 0 \notin d.past
    BY <1>1, <1>10, LibIs DEF Reachable
  <2>6. \A u \in Shell : /\ Joins(tab[u].dialog, d.past)
                         /\ \A v \in Shell : v # u => Alone(tab[u].dialog, tab[v].dialog)
    BY <1>1, <1>10, LibIs DEF Reachable
  <2> QED BY <2>6, <1>1, <1>5, <2>3, <2>4, <2>5 DEF Reachable
<1> QED BY <1>2, <1>5, <1>7, <1>9, <1>12

\* The entry of the copy is written: it is one graph among the others.
LEMMA Registering ==
    ASSUME 0 \in Repo, Inv, NEW t \in Shell, NEW s \in State, NEW g \in Graph,
           Frame(s, Lib, t), Settled(s, Apart(Lib)), s.tab[t].import = NoStep, tab[t].import.graph = g,
           g.repo = 0 => selected(s.tab[t]) = 0,
           \A u \in Shell : s.tab[u].dialog = tab[u].dialog
    PROVE  LET x == writeEntries(s, t, {g}) IN
           x \in State /\ Settled(x, Apart(x)) /\ Reachable(x)
<1> DEFINE a == Apart(Lib)  x == writeEntries(s, t, {g})
<1>1. s.disk = disk /\ s.raced = raced /\ s.srv = srv /\ \A u \in Shell : u # t => s.tab[u] = tab[u]
  BY LibIs DEF Frame
<1>2. Carries(x, s) /\ Settled(x, a) /\ x.disk = [s.disk EXCEPT !.entries = @ \cup {g}]
  <2>1. {g} \in SUBSET Graph /\ (Of({g}, 0) = {} \/ selected(s.tab[t]) = 0)
    BY DEF Of
  <2>2. Settled(s, a) /\ s \in State
    OBVIOUS
  <2> DEFINE E == {g}
  <2>3. E \in SUBSET Graph /\ (Of(E, 0) = {} \/ selected(s.tab[t]) = 0)
    BY <2>1
  <2> HIDE DEF a, E
  <2>4. LET w == writeEntries(s, t, E) IN Carries(w, s) /\ Settled(w, a) /\ w.disk = [s.disk EXCEPT !.entries = @ \cup E]
    BY <2>2, <2>3, Writing
  <2> QED BY <2>4 DEF E
<1>3. /\ x.disk.repos = disk.repos /\ x.disk.entries = disk.entries \cup {g} /\ x.disk.past = disk.past
      /\ x.disk.replicas = disk.replicas /\ x.raced = raced
      /\ x \in State
  BY <1>1, <1>2, Parts DEF DiskType, Carries
<1> HIDE DEF x
<1>4. /\ \A u \in Shell : x.tab[u].import = s.tab[u].import /\ x.tab[u].dialog = tab[u].dialog
      /\ \A u \in Shell : u # t => x.tab[u].import = tab[u].import
  BY <1>1, <1>2 DEF Carries, Doing
<1>5. \A h \in Pending(Lib) \ Pending(x) : h = g
  <2> SUFFICES ASSUME NEW u \in Shell, tab[u].import.step = "register", tab[u].import.graph \notin Pending(x)
               PROVE  tab[u].import.graph = g
    BY LibIs DEF Pending
  <2> QED BY <1>4 DEF Pending
<1>6. Settled(x, Apart(x))
  <2>1. \A h \in a \ Apart(x) : h = g
    BY <1>3, <1>5, LibIs DEF Apart
  <2> QED BY <1>2, <1>3, <2>1, Narrowing
<1>7. Reachable(Lib) /\ Kin(x) = Kin(Lib)
  BY <1>3, Was, LibIs DEF Kin
<1>8. \A h \in Kin(x) : IF h.repo = 0 THEN h \in x.disk.entries \cup Pending(x) ELSE h.repo \in x.disk.repos
  BY <1>3, <1>5, <1>7, LibIs DEF Reachable
<1>9. Reachable(x)
  BY <1>3, <1>4, <1>7, <1>8, LibIs DEF Reachable
<1> QED BY <1>3, <1>6, <1>9 DEF x

\* An import prepares, seeds, installs and registers its graph, or is refused.
LEMMA ImportArchiveStep ==
    ASSUME 0 \in Repo, Inv, NEW t \in Shell, importArchive(t)
    PROVE  Inv'
<1> DEFINE p == tab[t]  a == Apart(Lib)  i == p.import  g == i.graph
           next == CASE i.step = "prepare" -> IF g.repo # 0 THEN "seed" ELSE "install"
                  [] i.step = "seed" -> "install"
                  [] i.step = "install" -> "register"
                  [] OTHER -> "done"
           o == IF next = "done" THEN NoStep ELSE [i EXCEPT !.step = next]
           m == With(Lib, t, [p EXCEPT !.import = o])
           stepped == CASE i.step = "seed" -> [m EXCEPT !.srv = @ \cup {g.id}]
                        [] i.step = "install" -> installImportedGraph(m, g)
                        [] i.step = "register" -> writeEntries(m, t, {g})
                        [] OTHER -> m
<1>1. /\ Lib \in State /\ Settled(Lib, a) /\ Reachable(Lib) /\ Lib.disk = disk /\ Lib.tab = tab
      /\ p \in PickerType /\ Good(p, disk) /\ Lib.srv = srv /\ Lib.raced = raced /\ srv \subseteq Id
  BY Was, LibIs, Parts
<1>2. i \in StepType /\ NoStep \in StepType /\ NoStep.step = "none"
  BY <1>1, PickerParts, NoStepIs
<1>3. CASE canCreate(t) /\ \E f \in Fresh(selected(tab[t])) : Becomes(prepareArchive(Lib, t, f))
  <2>1. PICK f \in Fresh(selected(p)) : Becomes(prepareArchive(Lib, t, f))
    BY <1>3
  <2> DEFINE k == Step("import", f, "prepare", {}, FALSE)
             x == With(Lib, t, [Lib.tab[t] EXCEPT !.import = k])
  <2>2. f \in Graph /\ f \in Ref /\ f.repo = selected(p)
    BY <1>1, SelectedIs, FreshIs, GraphIsRef
  <2>3. k \in StepType /\ k.graph = f /\ k.step = "prepare"
    <3>1. "import" \in Word /\ "prepare" \in Word
      BY DEF Word
    <3> QED BY <2>2, <3>1 DEF Step, StepType
  <2>4. Becomes(x)
    BY <1>1, <2>1 DEF prepareArchive
  <2>5. i = NoStep
    BY <1>3 DEF canCreate
  <2> HIDE DEF k
  <2>6. Frame(x, Lib, t) /\ Settled(x, a) /\ Reachable(x) /\ Apart(x) = a
    <3>1. /\ k # NoStep => k.graph \in Graph /\ (k.graph.repo = 0 => selected(Lib.tab[t]) = 0)
          /\ Lib.tab[t].dialog.kind # "connect"
      BY <1>1, <1>3, <2>2, <2>3, NoStepIs DEF canCreate
    <3>2. Lib.tab[t].import.step # "register" /\ k.step # "register"
      BY <1>1, <1>2, <2>3, <2>5
    <3> HIDE DEF a
    <3> QED BY <1>1, <2>3, <3>1, <3>2, Importing DEF a
  <2> QED BY <2>4, <2>6, Goes DEF Frame
<1>4. ASSUME i # NoStep, Becomes(IF next = "done" THEN openGraph(stepped, t, g) ELSE stepped),
             i.step = "install" => g \notin disk.replicas
      PROVE  Inv'
  <2>1. g \in Graph /\ (g.repo = 0 => selected(p) = 0) /\ g.id \in Id /\ p.dialog.kind # "connect"
    <3>1. Steady(p) /\ p.import # NoStep
      BY <1>1, <1>4 DEF Good
    <3> HIDE DEF next, o, m, stepped, p
    <3>2. g \in Graph /\ (g.repo = 0 => selected(p) = 0)
      BY <3>1 DEF Steady
    <3>3. p.dialog.kind # "connect"
      BY <3>1 DEF Steady
    <3> QED BY <3>2, <3>3, GraphIsRef
  <2>2. o \in StepType /\ (o # NoStep => o.graph = g) /\ (next # "done" => o.step = next)
    <3>1. next = "done" \/ next \in Word
      BY DEF Word
    <3> HIDE DEF next
    <3>2. next # "done" => [i EXCEPT !.step = next] \in StepType /\ [i EXCEPT !.step = next].graph = g
                           /\ [i EXCEPT !.step = next].step = next
      BY <1>2, <3>1 DEF StepType
    <3> QED BY <1>2, <3>2
  <2>3. /\ Frame(m, Lib, t) /\ Settled(m, a) /\ m.tab[t].import = o /\ Rests(m.tab[t], p)
        /\ \A u \in Shell : m.tab[u].dialog = tab[u].dialog
        /\ (o.step # "register" /\ i.step # "register") => Reachable(m) /\ Apart(m) = a
    <3>1. /\ o # NoStep => o.graph \in Graph /\ (o.graph.repo = 0 => selected(Lib.tab[t]) = 0)
          /\ Lib.tab[t].dialog.kind # "connect"
      BY <1>1, <2>1, <2>2
    <3>2. m = With(Lib, t, [Lib.tab[t] EXCEPT !.import = o])
      BY <1>1
    <3> HIDE DEF o, m, a
    <3> QED BY <1>1, <2>2, <3>1, <3>2, Importing DEF a
  <2>4. m \in State /\ m.srv = srv
    BY <1>1, <2>3 DEF Frame
  <2>5. CASE i.step = "prepare"
    <3>1. next # "done" /\ next # "register"
      BY <2>5
    <3>2. stepped = m
      BY <2>5
    <3>3. o.step # "register"
      BY <2>2, <3>1
    <3>4. Becomes(m)
      BY <1>4, <3>1, <3>2
    <3> HIDE DEF m, next, o
    <3> QED BY <2>3, <2>4, <2>5, <3>3, <3>4, Goes
  <2>6. CASE i.step = "seed"
    <3>1. next = "install"
      BY <2>6
    <3> DEFINE S == srv \cup {g.id}  x == [m EXCEPT !.srv = S]
    <3>2. stepped = x
      BY <2>4, <2>6
    <3>3. o.step # "register"
      BY <2>2, <3>1
    <3>4. Becomes(x)
      BY <1>4, <3>1, <3>2
    <3>5. S \in SUBSET Id
      BY <1>1, <2>1
    <3> HIDE DEF S, m, next, o
    <3>6. x \in State /\ Settled(x, a) /\ Reachable(x) /\ Apart(x) = Apart(m)
      BY <2>3, <2>4, <2>6, <3>3, <3>5, Serving
    <3> QED BY <2>3, <2>6, <3>3, <3>4, <3>6, Goes
  <2>7. CASE i.step = "install"
    <3>1. next = "register"
      BY <2>7
    <3> DEFINE x == installImportedGraph(m, g)
    <3>2. stepped = x
      BY <2>7
    <3>3. Becomes(x)
      BY <1>4, <3>1, <3>2
    <3>4. m.tab[t].import.step = "register" /\ m.tab[t].import.graph = g
      <4>1. o.step = "register" /\ o # NoStep
        BY <1>2, <2>2, <3>1
      <4> HIDE DEF o, m, next
      <4> QED BY <2>2, <2>3, <4>1
    <3>5. g \notin disk.replicas
      BY <1>4, <2>7
    <3> HIDE DEF m, next, o
    <3>6. x \in State /\ Settled(x, a) /\ a \subseteq Apart(x) /\ Reachable(x)
      BY <2>1, <2>3, <2>4, <2>7, <3>4, <3>5, Installing
    <3> QED BY <3>3, <3>6, Goes
  <2>8. CASE i.step = "register"
    <3>1. next = "done"
      BY <2>8
    <3> DEFINE x == writeEntries(m, t, {g})
    <3>2. stepped = x
      BY <2>8
    <3>3. Becomes(openGraph(x, t, g))
      BY <1>4, <3>1, <3>2
    <3>4. m.tab[t].import = NoStep
      BY <2>3, <3>1
    <3>5. g.repo = 0 => selected(m.tab[t]) = 0
      <4> HIDE DEF m
      <4> QED BY <2>1, <2>3, Resting
    <3> HIDE DEF m, next, o
    <3>6. x \in State /\ Settled(x, Apart(x)) /\ Reachable(x)
      BY <2>1, <2>3, <2>4, <3>4, <3>5, Registering
    <3> QED BY <2>1, <3>3, <3>6, OpeningFrom
  <2>9. CASE i.step \notin {"prepare", "seed", "install", "register"}
    <3>1. next = "done" /\ stepped = m
      BY <2>9
    <3>2. o = NoStep
      BY <3>1
    <3>3. Becomes(openGraph(m, t, g))
      BY <1>4, <3>1
    <3> HIDE DEF m, next, o
    <3> QED BY <1>2, <2>1, <2>3, <2>4, <2>9, <3>2, <3>3, OpeningFrom
  <2> QED BY <2>5, <2>6, <2>7, <2>8, <2>9
<1>5. CASE i.step # "register" /\ Becomes(With(Lib, t, [p EXCEPT !.import = NoStep]))
  <2> DEFINE x == With(Lib, t, [Lib.tab[t] EXCEPT !.import = NoStep])
  <2>1. Becomes(x)
    BY <1>1, <1>5
  <2>2. Frame(x, Lib, t) /\ Settled(x, a) /\ Reachable(x) /\ Apart(x) = a
    <3>1. Lib.tab[t].import.step # "register" /\ NoStep.step # "register"
      BY <1>1, <1>2, <1>5
    <3> HIDE DEF a
    <3> QED BY <1>1, <1>2, <3>1, Importing DEF a
  <2> QED BY <2>1, <2>2, Goes DEF Frame
<1>6. \/ canCreate(t) /\ \E f \in Fresh(selected(tab[t])) : Becomes(prepareArchive(Lib, t, f))
      \/ /\ i # NoStep /\ (i.step = "install" => g \notin disk.replicas)
         /\ Becomes(IF next = "done" THEN openGraph(stepped, t, g) ELSE stepped)
      \/ i.step # "register" /\ Becomes(With(Lib, t, [p EXCEPT !.import = NoStep]))
  BY Zenon DEF importArchive
<1> HIDE DEF next, o, m, stepped
<1> QED BY <1>3, <1>4, <1>5, <1>6 DEF o, m, stepped, next

\* An account is registered, or was, and has its credential or not; no one connects a new
\* one under its id.
Unasked(s, r) ==
    \A u \in Shell : LET o == s.tab[u].dialog IN (o.kind = "connect" /\ ~o.served) => o.graph.repo # r
Signed(s, A, r) == [s EXCEPT !.disk.auth = A, !.disk.past = @ \cup {r}]
LEMMA Signing ==
    ASSUME NEW s \in State, NEW A \in SUBSET Repo, NEW r \in Repo \ {0}, NEW a, Settled(s, a), Reachable(s), Unasked(s, r)
    PROVE  LET x == Signed(s, A, r) IN
           /\ x \in State /\ x.tab = s.tab /\ x.srv = s.srv /\ x.raced = s.raced
           /\ x.disk.repos = s.disk.repos /\ x.disk.entries = s.disk.entries /\ x.disk.replicas = s.disk.replicas
           /\ x.disk.past = s.disk.past \cup {r}
           /\ Settled(x, a) /\ Reachable(x) /\ Apart(x) = Apart(s)
<1> DEFINE d == [s.disk EXCEPT !.auth = A, !.past = @ \cup {r}]  x == [s EXCEPT !.disk = d]
<1>2. /\ d \in DiskType /\ d.repos = s.disk.repos /\ d.entries = s.disk.entries /\ d.replicas = s.disk.replicas
      /\ d.past = s.disk.past \cup {r}
  BY Parts DEF DiskType
<1>3. Signed(s, A, r) = x
  BY DEF Signed, State
<1> HIDE DEF d
<1>4. x \in State /\ x.disk = d /\ x.tab = s.tab /\ x.srv = s.srv /\ x.raced = s.raced
  BY <1>2, WithDisk
<1> HIDE DEF x
<1>5. \A u \in Shell : Good(s.tab[u], s.disk) /\ Current(s.tab[u], s.disk, a)
  BY DEF Settled, Steadies
<1>6. \A u \in Shell : Good(s.tab[u], d) /\ Current(s.tab[u], d, a)
  BY <1>2, <1>5 DEF Good, Chosen, Loading, Current
<1>7. Settled(x, a)
  BY <1>4, <1>6 DEF Settled, Steadies
<1>8. Kin(x) = Kin(s) /\ Pending(x) = Pending(s)
  BY <1>2, <1>4 DEF Kin, Pending
<1>9. Apart(x) = Apart(s)
  BY <1>4, <1>8 DEF Apart
<1>10. Reachable(x)
  <2>1. \A u \in Shell : Joins(s.tab[u].dialog, d.past)
    BY <1>2 DEF Reachable, Joins, Unasked
  <2> QED BY <1>2, <1>4, <1>8, <2>1 DEF Reachable
<1> QED BY <1>2, <1>3, <1>4, <1>7, <1>9, <1>10

\* A dialog goes on while the credentials change.
LEMMA Credentials ==
    ASSUME 0 \in Repo, Inv, NEW t \in Shell, NEW o \in StepType, NEW A \in SUBSET Repo,
           o.kind \in {"none", "connect"},
           o.kind = "connect" => /\ tab[t].import = NoStep /\ Joins(o, disk.past)
                                 /\ \A v \in Shell : v # t => Alone(o, tab[v].dialog),
           Becomes([Poses(Lib, t, o) EXCEPT !.disk.auth = A])
    PROVE  Inv'
<1> DEFINE a == Apart(Lib)  s == Poses(Lib, t, o)  x == [s EXCEPT !.disk.auth = A]
<1>1. Lib \in State /\ Settled(Lib, a) /\ Reachable(Lib) /\ Lib.disk = disk /\ Lib.tab = tab
  BY Was, LibIs
<1>2. Becomes(x)
  OBVIOUS
<1> HIDE DEF a
<1>3. Frame(s, Lib, t) /\ Settled(s, a) /\ Reachable(s) /\ Pending(s) = Pending(Lib)
  BY <1>1, Asked
<1> HIDE DEF s
<1>4. s \in State /\ Apart(s) = a
  BY <1>3 DEF Frame, Apart, a
<1>5. x \in State /\ Carries(x, s) /\ Settled(x, a) /\ SameDisk(x.disk, s.disk)
  BY <1>3, <1>4, Authorizing
<1> HIDE DEF x
<1>6. Reachable(x) /\ Apart(x) = a
  BY <1>3, <1>4, <1>5, Reaches DEF SameDisk
<1> QED BY <1>2, <1>5, <1>6, Goes

\* The account that was signed in to is registered, if it is not, and shown.
LEMMA Showing ==
    ASSUME 0 \in Repo, NEW x \in State, NEW t \in Shell, NEW r \in Repo \ {0}, NEW a, Settled(x, a), a \subseteq Apart(x),
           Reachable(x), r \in x.disk.past, Rested(x.tab[t]), NEW served \in BOOLEAN,
           (~served /\ r \notin x.disk.repos) => x.disk.repos = {},
           \A u \in Shell : (~served /\ r \notin x.disk.repos) => x.tab[u].selected # r,
           LET y == With(x, t, [x.tab[t] EXCEPT !.selected = r])
           IN Becomes(IF served \/ r \in x.disk.repos THEN setRepositories(y, t) ELSE writeRemoteRepositories(y, t, {r}))
    PROVE  Inv'
<1> DEFINE p == x.tab[t]  q == [p EXCEPT !.selected = r]  y == With(x, t, q)
<1>1. p \in PickerType /\ Good(p, x.disk) /\ x.disk.repos \subseteq x.disk.past
  BY Parts DEF Settled, Steadies, Reachable
<1>2. /\ q \in PickerType /\ q.at = p.at /\ q.phase = p.phase /\ q.selected = r /\ q.repos = p.repos
      /\ q.load = p.load /\ q.cat = p.cat /\ q.told = p.told /\ q.missed = p.missed
      /\ q.import = p.import /\ q.export = p.export /\ q.dialog = p.dialog
  BY <1>1 DEF PickerType
<1>3. Becomes(IF served \/ r \in x.disk.repos THEN setRepositories(y, t) ELSE writeRemoteRepositories(y, t, {r}))
  OBVIOUS
<1> HIDE DEF q
<1>4. Frame(y, x, t) /\ y.tab[t] = q
  BY <1>2, WithTab
<1> HIDE DEF y
<1>5. y \in State /\ y.disk = x.disk /\ y.raced = x.raced /\ y.srv = x.srv /\ \A u \in Shell : u # t => y.tab[u] = x.tab[u]
  BY <1>4 DEF Frame
<1>6. Steady(q) /\ Sorted(q) /\ Loading(q, x.disk) /\ Rested(q)
  <2>1. Rested(q)
    BY <1>2 DEF Rested
  <2>2. Steady(q)
    BY <1>1, <1>2, <2>1, NoStepIs DEF Good, Steady, Rested
  <2>3. Sorted(q) /\ Loading(q, x.disk)
    BY <1>1, <1>2 DEF Good, Sorted, Loading
  <2> QED BY <2>1, <2>2, <2>3
<1>7. \A u \in Shell : y.tab[u].import = x.tab[u].import /\ y.tab[u].dialog = x.tab[u].dialog
                       /\ y.tab[u].export = x.tab[u].export
  BY <1>2, <1>4, <1>5
<1>8. CASE served \/ r \in x.disk.repos
  <2> DEFINE z == setRepositories(y, t)
  <2>1. /\ Frame(z, y, t) /\ z.tab[t].import = q.import /\ z.tab[t].dialog = q.dialog /\ z.tab[t].export = q.export
        /\ Good(z.tab[t], x.disk) /\ Current(z.tab[t], x.disk, a)
    BY <1>1, <1>4, <1>5, <1>6, RereadingAccounts
  <2>2. Becomes(z)
    BY <1>3, <1>8
  <2> HIDE DEF z
  <2>3. Moves(z, x, t) /\ z.disk = x.disk
    BY <1>2, <1>5, <2>1 DEF Frame, Moves, SameDisk, Doing
  <2>4. Carries(z, x) /\ Settled(z, a)
    BY <2>1, <2>3, Moved
  <2>5. Reachable(z) /\ Apart(z) = Apart(x)
    BY <2>3, <2>4, Reaches
  <2> QED BY <2>2, <2>4, <2>5, Goes DEF Carries
<1>9. CASE ~served /\ r \notin x.disk.repos
  <2> DEFINE R == {r}  z == writeRemoteRepositories(y, t, R)
  <2>1. Becomes(z)
    BY <1>3, <1>9
  <2>2. R \in SUBSET y.disk.past
    BY <1>5
  <2>3. \A u \in Shell : u # t => /\ Good(y.tab[u], y.disk) /\ Current(y.tab[u], y.disk, a)
                                /\ y.tab[u].selected \notin R
    BY <1>5, <1>9 DEF Settled, Steadies
  <2> HIDE DEF R
  <2>4. /\ Carries(z, y) /\ Settled(z, a) /\ z.disk = [y.disk EXCEPT !.repos = R]
    BY <1>4, <1>5, <1>6, <2>2, <2>3, RewritingAccounts
  <2> HIDE DEF z
  <2>5. /\ z.disk.repos = {r} /\ z.disk.past = x.disk.past /\ z.disk.entries = x.disk.entries
        /\ z.disk.replicas = x.disk.replicas /\ z.raced = x.raced
        /\ \A u \in Shell : z.tab[u].import = x.tab[u].import /\ z.tab[u].dialog = x.tab[u].dialog
    BY <1>5, <1>7, <2>4, Parts DEF DiskType, Carries, Doing, R
  <2>6. Kin(z) = Kin(x) /\ Pending(z) = Pending(x) /\ Apart(z) = Apart(x)
    BY <2>5 DEF Kin, Pending, Apart
  <2>7. \A g \in Kin(z) : g.repo = 0 /\ g \in z.disk.entries \cup Pending(z)
    BY <1>9, <2>5, <2>6 DEF Reachable
  <2>8. Reachable(z)
    BY <2>5, <2>6, <2>7 DEF Reachable
  <2> QED BY <2>1, <2>4, <2>6, <2>8, Goes DEF Carries
<1> QED BY <1>8, <1>9

\* A dialog takes its next step.
LEMMA DialogStep ==
    ASSUME NEW i \in StepType, NEW st \in Word
    PROVE  LET o == [i EXCEPT !.step = st] IN
           o \in StepType /\ o.step = st /\ o.kind = i.kind /\ o.graph = i.graph /\ o.rest = i.rest
BY DEF StepType

\* A tab asks, and nothing else happens.
LEMMA Asking ==
    ASSUME 0 \in Repo, NEW s \in State, NEW t \in Shell, NEW o \in StepType, NEW a, Settled(s, a), Reachable(s),
           a \subseteq Apart(s),
           o.kind \in {"rename", "delete"} =>
               o.graph \in Graph /\ (o.graph.repo = 0 => selected(s.tab[t]) = 0),
           o.kind = "forget" => o.graph.repo # 0 /\ o.rest \subseteq Of(Graph, o.graph.repo),
           (o.kind = "forget" /\ o.step # "ask") => \A g \in Kin(s) : g.repo = o.graph.repo => g \in o.rest,
           (o.kind = "delete" /\ o.step = "entry") => o.graph \notin Kin(s),
           o.kind = "connect" => /\ s.tab[t].import = NoStep /\ Joins(o, s.disk.past)
                                 /\ \A v \in Shell : v # t => Alone(o, s.tab[v].dialog),
           Becomes(Poses(s, t, o))
    PROVE  Inv'
<1> DEFINE x == Poses(s, t, o)
<1>1. Frame(x, s, t) /\ Settled(x, a) /\ Reachable(x) /\ Pending(x) = Pending(s)
  BY Asked
<1> HIDE DEF x
<1>2. x \in State /\ Apart(x) = Apart(s)
  BY <1>1 DEF Frame, Apart
<1> QED BY <1>1, <1>2, Goes DEF x

\* The reader signs in to an account.
LEMMA RepositoryDialogStep ==
    ASSUME 0 \in Repo, Inv, NEW t \in Shell, RepositoryDialog(t)
    PROVE  Inv'
<1> DEFINE p == tab[t]  a == Apart(Lib)  d == p.dialog  id == d.graph.repo
<1>1. /\ Lib \in State /\ Settled(Lib, a) /\ Reachable(Lib) /\ Lib.disk = disk /\ Lib.tab = tab
      /\ p \in PickerType /\ Good(p, disk) /\ Lib.srv = srv /\ Lib.raced = raced
      /\ disk.repos \subseteq Repo /\ disk.past \subseteq Repo /\ disk.auth \subseteq Repo /\ 0 \notin disk.past
      /\ disk.repos \subseteq disk.past
  BY Was, LibIs, Parts DEF Reachable
<1>2. d \in StepType /\ NoStep \in StepType /\ NoStep.kind = "none" /\ d.graph \in Ref /\ id \in Repo
  <2>1. d \in StepType /\ NoStep \in StepType /\ NoStep.kind = "none"
    BY <1>1, PickerParts, NoStepIs
  <2> QED BY <2>1 DEF StepType, Ref
<1>3. d.kind = "connect" => /\ p.import = NoStep /\ Joins(d, disk.past)
                            /\ \A v \in Shell : v # t => Alone(d, tab[v].dialog)
  BY <1>1 DEF Reachable, Good, Steady
<1>4. CASE \E served \in BOOLEAN : \E r \in IF served THEN {selected(p)} \ {0} ELSE createRepositoryId :
              Becomes(Requests(t, "connect", GraphRef(r, 0), served)) /\ p.import = NoStep
  <2>1. PICK served \in BOOLEAN : \E r \in IF served THEN {selected(p)} \ {0} ELSE createRepositoryId :
              Becomes(Requests(t, "connect", GraphRef(r, 0), served)) /\ p.import = NoStep
    BY <1>4
  <2>2. PICK r \in IF served THEN {selected(p)} \ {0} ELSE createRepositoryId :
              Becomes(Requests(t, "connect", GraphRef(r, 0), served)) /\ p.import = NoStep
    BY <2>1
  <2> DEFINE o == Step("connect", GraphRef(r, 0), "ask", {}, served)
  <2>3. r \in Repo /\ (served => r \in disk.past)
        /\ (~served => r \notin disk.past \cup {0} /\ \A v \in Shell : tab[v].dialog.graph.repo # r)
    BY <1>1, SelectedIs DEF createRepositoryId, Good, Chosen
  <2>4. o \in StepType /\ o.kind = "connect" /\ o.graph.repo = r /\ o.served = served /\ o.step = "ask"
    <3>1. GraphRef(r, 0) \in Ref /\ GraphRef(r, 0).repo = r
      BY <2>3 DEF GraphRef, Ref
    <3>2. "connect" \in Word /\ "ask" \in Word /\ {} \in SUBSET Graph
      BY DEF Word
    <3> QED BY <3>1, <3>2 DEF Step, StepType
  <2>5. Becomes(Poses(Lib, t, o))
    BY <2>2, Zenon DEF Requests
  <2> HIDE DEF o
  <2>6. Joins(o, disk.past) /\ \A v \in Shell : v # t => Alone(o, tab[v].dialog)
    BY <2>3, <2>4 DEF Joins, Alone
  <2>7. a \subseteq Apart(Lib) /\ p.import = NoStep
    BY <2>2
  <2> HIDE DEF a, p
  <2> QED BY <1>1, <2>4, <2>5, <2>6, <2>7, Asking DEF p
<1>5. CASE Becomes(Poses(Lib, t, NoStep))
  <2> HIDE DEF a
  <2> QED BY <1>1, <1>2, <1>5, Asking DEF a
<1>6. CASE d.kind = "connect" /\ Becomes([Steps(t, "list") EXCEPT !.disk.auth = @ \cup {id}])
  <2> DEFINE o == [d EXCEPT !.step = "list"]  A == disk.auth \cup {id}
  <2>1. o \in StepType /\ o.kind = "connect" /\ o.graph = d.graph /\ o.served = d.served
    BY <1>2, <1>6 DEF StepType, Word
  <2>2. Poses(Lib, t, o).disk = disk
    BY <1>1 DEF Poses, With, State
  <2>3. Becomes([Poses(Lib, t, o) EXCEPT !.disk.auth = A])
    <3>1. Steps(t, "list") = Poses(Lib, t, o)
      BY DEF Steps
    <3> HIDE DEF o
    <3> QED BY <1>6, <2>2, <3>1
  <2> HIDE DEF o
  <2>4. Joins(o, disk.past) /\ \A v \in Shell : v # t => Alone(o, tab[v].dialog)
    BY <1>3, <1>6, <2>1 DEF Joins, Alone
  <2>5. A \in SUBSET Repo
    BY <1>1, <1>2
  <2> HIDE DEF A
  <2> QED BY <1>3, <1>6, <2>1, <2>3, <2>4, <2>5, Credentials
<1>7. CASE Becomes([Poses(Lib, t, NoStep) EXCEPT !.disk.auth = @ \ {id}])
  <2> DEFINE A == disk.auth \ {id}
  <2>1. Poses(Lib, t, NoStep).disk = disk
    BY <1>1 DEF Poses, With, State
  <2>2. Becomes([Poses(Lib, t, NoStep) EXCEPT !.disk.auth = A])
    BY <1>7, <2>1
  <2>3. A \in SUBSET Repo
    BY <1>1
  <2> HIDE DEF A
  <2> QED BY <1>2, <2>2, <2>3, Credentials
<1>8. CASE d.kind = "connect" /\ \E r \in registerRemoteRepository(d.served, id) : Becomes(connected(t, d.served, id, r))
  <2>1. PICK r \in registerRemoteRepository(d.served, id) : Becomes(connected(t, d.served, id, r))
    BY <1>8
  <2> DEFINE s == Poses(Lib, t, NoStep)  A == IF r = id THEN disk.auth ELSE (disk.auth \ {id}) \cup {r}
             x == [s EXCEPT !.disk.auth = A, !.disk.past = @ \cup {r}]
             y == With(x, t, [x.tab[t] EXCEPT !.selected = r])
  <2>2. /\ r \in Repo \ {0} /\ d.served \in BOOLEAN /\ (d.served => r \in disk.past)
        /\ (~d.served => r \in disk.repos \/ (disk.repos = {} /\ r = id /\ r \notin disk.past))
    BY <1>1, <1>2, <1>3, <1>8 DEF registerRemoteRepository, Joins, StepType
  <2>3. A \in SUBSET Repo
    BY <1>1, <2>2
  <2>4. /\ Frame(s, Lib, t) /\ Settled(s, a) /\ Reachable(s) /\ Pending(s) = Pending(Lib)
        /\ s.tab[t].dialog = NoStep /\ Rests(s.tab[t], p) /\ s.tab[t].import = NoStep
    <3> HIDE DEF a
    <3> QED BY <1>1, <1>2, <1>3, <1>8, Asked
  <2>5. Becomes(IF d.served \/ r \in disk.repos THEN setRepositories(y, t) ELSE writeRemoteRepositories(y, t, {r}))
    <3>1. s.disk = disk
      BY <1>1, <2>4 DEF Frame
    <3>2. [s EXCEPT !.disk.auth = IF r = id THEN @ ELSE (@ \ {id}) \cup {r}, !.disk.past = @ \cup {r}] = x
      <4> HIDE DEF s
      <4> QED BY <3>1
    <3> QED BY <2>1, <3>2, Zenon DEF connected
  <2> HIDE DEF s, A
  <2>6. s \in State /\ Apart(s) = a /\ s.disk = disk /\ \A u \in Shell : u # t => s.tab[u] = tab[u]
    BY <1>1, <2>4 DEF Frame, Apart
  <2>7. \A u \in Shell : LET o == s.tab[u].dialog IN (o.kind = "connect" /\ ~o.served) => o.graph.repo # r
    <3>1. CASE r \in disk.past
      BY <2>4, <2>6, <3>1 DEF Reachable, Joins
    <3>2. CASE r \notin disk.past
      BY <1>1, <1>2, <1>3, <1>8, <2>2, <2>4, <2>6, <3>2 DEF Alone
    <3> QED BY <3>1, <3>2
  <2>8. /\ x \in State /\ x.tab = s.tab /\ x.disk.repos = disk.repos /\ x.disk.past = disk.past \cup {r}
        /\ Settled(x, a) /\ Reachable(x) /\ Apart(x) = a
    <3>1. s \in State /\ Settled(s, a) /\ Reachable(s) /\ r \in Repo \ {0}
      BY <2>2, <2>4, <2>6
    <3>2. x = Signed(s, A, r)
      BY DEF Signed
    <3> HIDE DEF a, p, d, x, y, s, A, id
    <3>3. Unasked(s, r)
      BY <2>7 DEF Unasked
    <3>4. LET w == Signed(s, A, r) IN
          /\ w \in State /\ w.tab = s.tab /\ w.disk.repos = s.disk.repos /\ w.disk.past = s.disk.past \cup {r}
          /\ Settled(w, a) /\ Reachable(w) /\ Apart(w) = Apart(s)
      BY <2>3, <3>1, <3>3, Signing
    <3> QED BY <2>6, <3>2, <3>4
  <2> HIDE DEF x
  <2>9. Rested(x.tab[t])
    BY <2>4, <2>8 DEF Rested
  <2>10. \A u \in Shell : (~d.served /\ r \notin x.disk.repos) => x.tab[u].selected # r
    <3> SUFFICES ASSUME NEW u \in Shell, r \notin disk.past PROVE x.tab[u].selected # r
      BY <1>1, <2>2, <2>8
    <3>1. x.tab[u].selected = tab[u].selected
      BY <2>4, <2>6, <2>8 DEF Rests
    <3>2. tab[u].selected \in disk.past \cup {0}
      BY Was DEF Good, Chosen
    <3> QED BY <2>2, <3>1, <3>2
  <2>11. /\ a \subseteq Apart(x) /\ r \in x.disk.past
         /\ Becomes(IF d.served \/ r \in x.disk.repos THEN setRepositories(y, t) ELSE writeRemoteRepositories(y, t, {r}))
    BY <2>5, <2>8
  <2>12. (~d.served /\ r \notin x.disk.repos) => x.disk.repos = {}
    BY <2>2, <2>8
  <2> HIDE DEF a, p
  <2> QED BY <2>2, <2>8, <2>9, <2>10, <2>11, <2>12, Showing
<1>9. RepositoryDialog(t)
  OBVIOUS
<1> QED BY <1>4, <1>5, <1>6, <1>7, <1>8, <1>9 DEF RepositoryDialog, Idle

\* A replica goes.
LEMMA Deleting ==
    ASSUME NEW s \in State, NEW g, NEW a, Settled(s, a), Reachable(s)
    PROVE  LET x == deleteLocal(s, g) IN
           /\ x \in State /\ x.tab = s.tab /\ x.srv = s.srv /\ x.raced = s.raced
           /\ x.disk.entries = s.disk.entries /\ x.disk.repos = s.disk.repos
           /\ Settled(x, a) /\ Reachable(x) /\ Apart(x) = Apart(s) /\ Kin(x) = Kin(s) \ {g}
<1> DEFINE d == [s.disk EXCEPT !.replicas = @ \ {g}]  x == [s EXCEPT !.disk = d]
<1>1. /\ d \in DiskType /\ d.entries = s.disk.entries /\ d.repos = s.disk.repos /\ d.past = s.disk.past
      /\ d.replicas = s.disk.replicas \ {g}
  BY Parts DEF DiskType
<1>2. deleteLocal(s, g) = x
  BY DEF deleteLocal
<1> HIDE DEF d
<1>3. x \in State /\ x.disk = d /\ x.tab = s.tab /\ x.srv = s.srv /\ x.raced = s.raced
  BY <1>1, WithDisk
<1> HIDE DEF x
<1>4. \A u \in Shell : Good(s.tab[u], d) /\ Current(s.tab[u], d, a)
  BY <1>1, GoodSame DEF Settled, Steadies
<1>5. Settled(x, a)
  BY <1>3, <1>4 DEF Settled, Steadies
<1>6. Pending(x) = Pending(s) /\ Kin(x) = Kin(s) \ {g}
  BY <1>1, <1>3 DEF Pending, Kin
<1>7. Reachable(x) /\ Apart(x) = Apart(s)
  BY <1>1, <1>3, <1>6 DEF Reachable, Apart
<1> QED BY <1>1, <1>2, <1>3, <1>5, <1>6, <1>7

\* An entry goes that no replica needs.
LEMMA RemovingEntry ==
    ASSUME 0 \in Repo, NEW s \in State, NEW t \in Shell, NEW g \in Ref, NEW a, Settled(s, a), Reachable(s),
           g \in Graph /\ g.repo = 0 => selected(s.tab[t]) = 0 /\ g \notin Kin(s)
    PROVE  LET x == removeEntry(s, t, g) IN
           Carries(x, s) /\ Settled(x, a) /\ Reachable(x) /\ Apart(x) = Apart(s) /\ Kin(x) = Kin(s)
           /\ \A u \in Shell : Alike(x.tab[u], s.tab[u])
<1> DEFINE x == removeEntry(s, t, g)
<1>1. /\ Carries(x, s) /\ Settled(x, a) /\ x.disk = [s.disk EXCEPT !.entries = @ \ {g}]
      /\ \A u \in Shell : Alike(x.tab[u], s.tab[u])
  BY Erasing
<1>2. x.disk.entries = s.disk.entries \ {g} /\ x.disk.repos = s.disk.repos /\ x.disk.past = s.disk.past
  BY <1>1, Parts DEF DiskType
<1> HIDE DEF x
<1>3. Kin(x) = Kin(s) /\ Pending(x) = Pending(s) /\ Kin(s) \subseteq Graph
  BY <1>1, Parts DEF Kin, Pending, Carries, Doing
<1>4. Apart(x) = Apart(s)
  BY <1>1, <1>3 DEF Apart, Carries
<1>5. \A h \in Kin(x) : IF h.repo = 0 THEN h \in x.disk.entries \cup Pending(x) ELSE h.repo \in x.disk.repos
  BY <1>2, <1>3 DEF Reachable
<1>6. Reachable(x)
  BY <1>1, <1>2, <1>3, <1>5 DEF Reachable, Carries, Doing
<1> QED BY <1>1, <1>3, <1>4, <1>6 DEF x

\* A replica goes while its dialog goes on.
LEMMA Commuting ==
    ASSUME NEW s \in State, NEW t \in Shell, NEW o \in StepType, NEW g
    PROVE  deleteLocal(Poses(s, t, o), g) = Poses(deleteLocal(s, g), t, o)
<1> DEFINE q == [s.tab[t] EXCEPT !.dialog = o]  d == [s.disk EXCEPT !.replicas = @ \ {g}]
<1>1. deleteLocal(Poses(s, t, o), g) = [[s EXCEPT !.tab[t] = q] EXCEPT !.disk = d]
  BY DEF deleteLocal, Poses, With, State
<1>2. Poses(deleteLocal(s, g), t, o) = [[s EXCEPT !.disk = d] EXCEPT !.tab[t] = q]
  BY DEF deleteLocal, Poses, With, State
<1> HIDE DEF q, d
<1>3. [[s EXCEPT !.tab[t] = q] EXCEPT !.disk = d] = [[s EXCEPT !.disk = d] EXCEPT !.tab[t] = q]
  BY DEF State
<1> QED BY <1>1, <1>2, <1>3

\* A graph is deleted: the server's, the stored one, its entry.
LEMMA DeleteDialogStep ==
    ASSUME 0 \in Repo, Inv, NEW t \in Shell, DeleteDialog(t)
    PROVE  Inv'
<1> DEFINE p == tab[t]  a == Apart(Lib)  d == p.dialog  g == d.graph
<1>1. /\ Lib \in State /\ Settled(Lib, a) /\ Reachable(Lib) /\ Lib.disk = disk /\ Lib.tab = tab
      /\ p \in PickerType /\ Good(p, disk) /\ Lib.srv = srv /\ Lib.raced = raced /\ srv \subseteq Id
      /\ a \subseteq a
  BY Was, LibIs, Parts
<1>2. d \in StepType /\ NoStep \in StepType /\ NoStep.kind = "none"
  BY <1>1, PickerParts, NoStepIs
<1>3. d.kind = "delete" => g \in Graph /\ g \in Ref /\ g.id \in Id /\ (g.repo = 0 => selected(p) = 0)
  BY <1>1, GraphIsRef DEF Good, Steady
<1>4. /\ "delete" \in Word /\ "ask" \in Word /\ "local" \in Word /\ "server" \in Word /\ "entry" \in Word
      /\ {} \in SUBSET Graph
  BY DEF Word
<1>5. ASSUME d.kind = "delete", NEW st \in Word, st # "entry", Becomes(Steps(t, st)) PROVE Inv'
  <2> DEFINE o == [d EXCEPT !.step = st]
  <2>1. o \in StepType /\ o.step = st /\ o.kind = "delete" /\ o.graph = g
    BY <1>2, <1>5, DialogStep
  <2>2. Becomes(Poses(Lib, t, o))
    BY <1>5 DEF Steps
  <2> HIDE DEF o, a
  <2> QED BY <1>1, <1>3, <1>5, <2>1, <2>2, Asking DEF a
<1>6. CASE \E h \in GraphList(t), served \in BOOLEAN : Becomes(Requests(t, "delete", h, served))
  <2>1. PICK h \in GraphList(t), served \in BOOLEAN : Becomes(Requests(t, "delete", h, served))
    BY <1>6
  <2> DEFINE o == Step("delete", h, "ask", {}, served)
  <2>2. h \in Graph /\ h \in Ref /\ h.repo = selected(p)
    BY Offered, GraphIsRef
  <2>3. o \in StepType /\ o.kind = "delete" /\ o.graph = h /\ o.step = "ask"
    BY <1>4, <2>2 DEF Step, StepType
  <2>4. Becomes(Poses(Lib, t, o))
    BY <2>1, Zenon DEF Requests
  <2> HIDE DEF o, a
  <2> QED BY <1>1, <2>2, <2>3, <2>4, Asking DEF a
<1>7. CASE Becomes(Poses(Lib, t, NoStep))
  <2> HIDE DEF a
  <2> QED BY <1>1, <1>2, <1>7, Asking DEF a
<1>8. CASE d.kind = "delete" /\ d.step = "server"
           /\ Becomes(Poses([Lib EXCEPT !.srv = @ \ {g.id}], t, Step("delete", g, "local", {}, TRUE)))
  <2> DEFINE o == Step("delete", g, "local", {}, TRUE)  S == srv \ {g.id}  s == [Lib EXCEPT !.srv = S]
  <2>1. o \in StepType /\ o.kind = "delete" /\ o.graph = g /\ o.step = "local"
    BY <1>3, <1>4, <1>8 DEF Step, StepType
  <2>2. Becomes(Poses(s, t, o))
    BY <1>1, <1>8
  <2>3. S \in SUBSET Id
    BY <1>1
  <2> HIDE DEF o, S, a
  <2>4. s \in State /\ s.tab = tab /\ Settled(s, a) /\ Reachable(s) /\ Apart(s) = Apart(Lib)
    BY <1>1, <2>3, Serving
  <2> HIDE DEF s
  <2>5. a \subseteq Apart(s) /\ (g.repo = 0 => selected(s.tab[t]) = 0)
    BY <1>3, <1>8, <2>4 DEF a
  <2> QED BY <1>3, <1>8, <2>1, <2>2, <2>4, <2>5, Asking
<1>9. CASE d.kind = "delete" /\ d.step = "local" /\ Becomes(deleteLocal(Steps(t, "entry"), g))
  <2> DEFINE o == [d EXCEPT !.step = "entry"]  s == deleteLocal(Lib, g)
  <2>1. o \in StepType /\ o.step = "entry" /\ o.kind = "delete" /\ o.graph = g
    BY <1>2, <1>4, <1>9, DialogStep
  <2>2. Becomes(deleteLocal(Poses(Lib, t, o), g))
    BY <1>1, <1>9 DEF Steps
  <2> HIDE DEF o, a
  <2>3. Becomes(Poses(s, t, o))
    BY <1>1, <2>1, <2>2, Commuting
  <2>4. s \in State /\ s.tab = tab /\ Settled(s, a) /\ Reachable(s) /\ Apart(s) = Apart(Lib) /\ Kin(s) = Kin(Lib) \ {g}
    BY <1>1, Deleting
  <2> HIDE DEF s
  <2>5. a \subseteq Apart(s) /\ (g.repo = 0 => selected(s.tab[t]) = 0) /\ g \notin Kin(s)
    BY <1>3, <1>9, <2>4 DEF a
  <2> QED BY <1>3, <1>9, <2>1, <2>3, <2>4, <2>5, Asking
<1>10. CASE d.kind = "delete" /\ d.step = "entry"
            /\ Becomes(refreshSelected(Poses(Removed(Lib, t), t, NoStep), t))
  <2> DEFINE s == removeEntry(Lib, t, g)  y == Poses(s, t, NoStep)  x == refreshSelected(y, t)
  <2>1. Removed(Lib, t) = s
    BY <1>1 DEF Removed
  <2>2. Becomes(x)
    BY <1>10, <2>1
  <2>3. g \notin Kin(Lib)
    BY <1>1, <1>10 DEF Reachable
  <2> HIDE DEF a
  <2>4. Carries(s, Lib) /\ Settled(s, a) /\ Reachable(s) /\ Apart(s) = Apart(Lib)
    BY <1>1, <1>3, <1>10, <2>3, RemovingEntry
  <2> HIDE DEF s
  <2>5. Frame(y, s, t) /\ Settled(y, a) /\ Reachable(y) /\ Pending(y) = Pending(s)
    BY <1>2, <2>4, Asked DEF Carries
  <2> HIDE DEF y
  <2>6. y \in State /\ Apart(y) = Apart(Lib)
    BY <2>4, <2>5 DEF Frame, Apart
  <2>7. Carries(x, y) /\ Settled(x, a) /\ x.disk = y.disk
    BY <2>5, <2>6, Relisting
  <2> HIDE DEF x
  <2>8. Reachable(x) /\ Apart(x) = Apart(Lib) /\ x \in State
    BY <2>5, <2>6, <2>7, Reaches DEF Carries
  <2> QED BY <2>2, <2>7, <2>8, Goes DEF a
<1>11. \/ \E h \in GraphList(t), served \in BOOLEAN : Becomes(Requests(t, "delete", h, served))
       \/ Becomes(Poses(Lib, t, NoStep))
       \/ d.kind = "delete" /\ (\E st \in {"local", "server", "ask"} : Becomes(Steps(t, st)))
       \/ d.kind = "delete" /\ d.step = "server"
           /\ Becomes(Poses([Lib EXCEPT !.srv = @ \ {g.id}], t, Step("delete", g, "local", {}, TRUE)))
       \/ d.kind = "delete" /\ d.step = "local" /\ Becomes(deleteLocal(Steps(t, "entry"), g))
       \/ d.kind = "delete" /\ d.step = "entry"
            /\ Becomes(refreshSelected(Poses(Removed(Lib, t), t, NoStep), t))
  <2>1. DeleteDialog(t)
    OBVIOUS
  <2> QED BY <2>1 DEF DeleteDialog
<1> QED BY <1>4, <1>5, <1>6, <1>7, <1>8, <1>9, <1>10, <1>11

\* The account goes: no replica needs it any more.
LEMMA Forgetting ==
    ASSUME 0 \in Repo, Inv, NEW t \in Shell, NEW r \in Repo, tab[t].dialog.kind = "forget", tab[t].dialog.step = "each",
           tab[t].dialog.graph.repo = r, tab[t].dialog.rest = {},
           LET forgot == With([Lib EXCEPT !.disk.auth = @ \ {r}], t, [tab[t] EXCEPT !.dialog = NoStep, !.selected = 0])
           IN Becomes(writeRemoteRepositories(forgot, t, disk.repos \ {r}))
    PROVE  Inv'
<1> DEFINE p == tab[t]  a == Apart(Lib)
           A == disk.auth \ {r}
           s == [Lib EXCEPT !.disk.auth = A]
           q == [p EXCEPT !.dialog = NoStep, !.selected = 0]
           y == With(s, t, q)
           R == disk.repos \ {r}
           x == writeRemoteRepositories(y, t, R)
<1>1. /\ Lib \in State /\ Settled(Lib, a) /\ Reachable(Lib) /\ Lib.disk = disk /\ Lib.tab = tab
      /\ p \in PickerType /\ Good(p, disk) /\ Lib.srv = srv /\ Lib.raced = raced
      /\ disk.auth \subseteq Repo /\ disk.repos \subseteq disk.past
  BY Was, LibIs, Parts
<1>2. Becomes(x)
  <2>1. [Lib EXCEPT !.disk.auth = @ \ {r}] = s
    BY <1>1
  <2> QED BY <2>1
<1>3. /\ q \in PickerType /\ q.dialog = NoStep /\ q.selected = 0 /\ q.at = p.at /\ q.phase = p.phase
      /\ q.repos = p.repos /\ q.cat = p.cat /\ q.load = p.load /\ q.told = p.told /\ q.missed = p.missed
      /\ q.import = p.import /\ q.export = p.export
  BY <1>1, NoStepIs DEF PickerType
<1>4. A \in SUBSET Repo /\ R \in SUBSET disk.past
  BY <1>1
<1> HIDE DEF A, q
<1>5. /\ s \in State /\ s.tab = tab /\ s.srv = srv /\ s.raced = raced
      /\ Settled(s, a) /\ SameDisk(s.disk, disk)
  <2> HIDE DEF a
  <2> QED BY <1>1, <1>4, Authorizing
<1> HIDE DEF s
<1>6. selected(q) = 0
  BY <1>3 DEF selected
<1>7. Good(q, disk)
  <2>1. Chosen(q, disk)
    BY <1>1, <1>3 DEF Good, Chosen
  <2>2. Steady(q)
    BY <1>1, <1>3, <1>6, NoStepIs DEF Good, Steady
  <2>3. Sorted(q) /\ Loading(q, disk)
    BY <1>1, <1>3 DEF Good, Sorted, Loading
  <2> QED BY <2>1, <2>2, <2>3 DEF Good
<1>8. Good(q, s.disk)
  BY <1>5, <1>7, GoodSame DEF SameDisk
<1>9. Frame(y, s, t) /\ y.tab[t] = q
  BY <1>3, <1>5, WithTab
<1>10. y \in State /\ y.disk = s.disk /\ y.srv = srv /\ y.raced = raced
       /\ \A u \in Shell : u # t => y.tab[u] = tab[u]
  BY <1>5, <1>9 DEF Frame
<1> HIDE DEF y, R
<1>11. /\ Carries(x, y) /\ Settled(x, a) /\ x.disk = [y.disk EXCEPT !.repos = R]
  <2>1. \A u \in Shell : /\ Good(y.tab[u], y.disk)
                         /\ y.tab[u].selected \notin y.tab[u].repos \cup {0} => y.tab[u].selected \notin R
                         /\ u # t => Current(y.tab[u], y.disk, a)
    <3> TAKE u \in Shell
    <3>1. CASE u = t
      BY <1>3, <1>8, <1>9, <1>10, <3>1
    <3>2. CASE u # t
      <4>1. Good(tab[u], s.disk) /\ Current(tab[u], s.disk, a) /\ Good(tab[u], disk)
        BY <1>5, Was DEF Settled, Steadies
      <4>2. tab[u].selected \notin tab[u].repos \cup {0} => tab[u].selected \notin R
        BY <4>1 DEF Good, Chosen, R
      <4> QED BY <1>10, <3>2, <4>1, <4>2
    <3> QED BY <3>1, <3>2
  <2>2. R \in SUBSET y.disk.past
    BY <1>4, <1>5, <1>10 DEF SameDisk
  <2> HIDE DEF x, a
  <2>3. LET w == writeRemoteRepositories(y, t, R) IN
        Carries(w, y) /\ Settled(w, a) /\ w.disk = [y.disk EXCEPT !.repos = R]
    BY <1>10, <2>1, <2>2, WritingAccounts
  <2> QED BY <2>3 DEF x
<1>12. /\ x.disk.repos = R /\ x.disk.past = disk.past /\ x.disk.entries = disk.entries
       /\ x.disk.replicas = disk.replicas
  BY <1>5, <1>10, <1>11, Parts DEF DiskType, SameDisk
<1> HIDE DEF x
<1>13. \A u \in Shell : x.tab[u].import = tab[u].import
  BY <1>3, <1>9, <1>10, <1>11 DEF Carries, Doing
<1>14. x \in State /\ x.raced = raced
  BY <1>10, <1>11 DEF Carries
<1>15. Kin(x) = Kin(Lib) /\ Pending(x) = Pending(Lib) /\ Apart(x) = a
  BY <1>1, <1>12, <1>13, <1>14 DEF Kin, Pending, Apart
<1>16. \A u \in Shell : u # t => x.tab[u].dialog = tab[u].dialog
  BY <1>10, <1>11 DEF Carries, Doing
<1>17. x.tab[t].dialog.kind = "none"
  BY <1>3, <1>9, <1>11, NoStepIs DEF Carries, Doing
<1>18. Reachable(x)
  <2>1. \A g \in Kin(x) : IF g.repo = 0 THEN g \in x.disk.entries \cup Pending(x) ELSE g.repo \in x.disk.repos
    <3> TAKE g \in Kin(x)
    <3>1. IF g.repo = 0 THEN g \in disk.entries \cup Pending(Lib) ELSE g.repo \in disk.repos
      BY <1>1, <1>15 DEF Reachable
    <3>2. g.repo # r
      BY <1>1, <1>15 DEF Reachable
    <3> QED BY <1>12, <1>15, <3>1, <3>2 DEF R
  <2>2. x.disk.repos \subseteq x.disk.past /\ 0 \notin x.disk.past
    BY <1>1, <1>4, <1>12 DEF Reachable
  <2>3. \A u \in Shell : LET o == x.tab[u].dialog IN
           /\ Joins(o, x.disk.past) /\ \A v \in Shell : v # u => Alone(o, x.tab[v].dialog)
    BY <1>1, <1>12, <1>16, <1>17 DEF Reachable, Joins, Alone
  <2> QED BY <1>1, <1>15, <1>16, <1>17, <2>1, <2>2, <2>3 DEF Reachable
<1> QED BY <1>2, <1>11, <1>14, <1>15, <1>18, Goes DEF x

\* An account is forgotten: its replicas one by one, then the account.
LEMMA ForgetRepositoryDialogStep ==
    ASSUME 0 \in Repo, Inv, NEW t \in Shell, ForgetRepositoryDialog(t)
    PROVE  Inv'
<1> DEFINE p == tab[t]  a == Apart(Lib)  d == p.dialog  r == d.graph.repo
<1>1. /\ Lib \in State /\ Settled(Lib, a) /\ Reachable(Lib) /\ Lib.disk = disk /\ Lib.tab = tab
      /\ p \in PickerType /\ Good(p, disk) /\ Lib.srv = srv /\ Lib.raced = raced
      /\ disk.replicas \subseteq Graph
  BY Was, LibIs, Parts
<1>2. d \in StepType /\ NoStep \in StepType /\ NoStep.kind = "none" /\ d.graph \in Ref /\ r \in Repo
  <2>1. d \in StepType /\ NoStep \in StepType /\ NoStep.kind = "none"
    BY <1>1, PickerParts, NoStepIs
  <2>2. d.graph \in Ref
    BY <2>1 DEF StepType
  <2> HIDE DEF d
  <2> QED BY <2>1, <2>2 DEF Ref
<1>3. d.kind = "forget" => r # 0 /\ d.rest \subseteq Of(Graph, r)
  BY <1>1 DEF Good, Steady
<1>4. /\ "forget" \in Word /\ "ask" \in Word /\ "each" \in Word /\ "entry" \in Word
      /\ {} \in SUBSET Graph
  BY DEF Word
<1>5. CASE selected(tab[t]) # 0 /\ Becomes(Requests(t, "forget", GraphRef(selected(tab[t]), 0), TRUE))
  <2> DEFINE h == GraphRef(selected(p), 0)  o == Step("forget", h, "ask", {}, TRUE)
  <2>1. h \in Ref /\ h.repo # 0
    BY <1>1, <1>5, SelectedIs DEF GraphRef, Ref
  <2>2. o \in StepType /\ o.kind = "forget" /\ o.graph = h /\ o.step = "ask" /\ o.rest = {}
    <3> HIDE DEF h
    <3> QED BY <1>4, <2>1 DEF Step, StepType
  <2>3. Becomes(Poses(Lib, t, o))
    BY <1>5, Zenon DEF Requests
  <2> HIDE DEF o, h
  <2>4. o.rest \subseteq Of(Graph, o.graph.repo) /\ a \subseteq Apart(Lib)
    BY <2>2
  <2> HIDE DEF a
  <2> QED BY <1>1, <2>1, <2>2, <2>3, <2>4, Asking
<1>6. CASE Becomes(Poses(Lib, t, NoStep))
  <2>1. a \subseteq Apart(Lib)
    OBVIOUS
  <2> HIDE DEF a
  <2> QED BY <1>1, <1>2, <1>6, <2>1, Asking
<1>7. CASE d.kind = "forget" /\ Becomes(Poses(Lib, t, Step("forget", d.graph, "each", Of(disk.replicas, r), TRUE)))
  <2> DEFINE R == Of(disk.replicas, r)  o == Step("forget", d.graph, "each", R, TRUE)
  <2>1. R \in SUBSET Graph /\ R \subseteq Of(Graph, r)
    BY <1>1 DEF Of
  <2>2. \A g \in Kin(Lib) : g.repo = r => g \in R
    BY <1>1 DEF Kin, Of
  <2>3. o \in StepType /\ o.kind = "forget" /\ o.graph = d.graph /\ o.step = "each" /\ o.rest = R
    <3> HIDE DEF R, d
    <3> QED BY <1>2, <1>4, <2>1 DEF Step, StepType
  <2>4. Becomes(Poses(Lib, t, o)) /\ a \subseteq Apart(Lib)
    BY <1>7
  <2> HIDE DEF R, o, a
  <2> QED BY <1>1, <1>3, <1>7, <2>1, <2>2, <2>3, <2>4, Asking
<1>8. ASSUME d.kind = "forget", Becomes(Steps(t, "ask")) PROVE Inv'
  <2> DEFINE o == [d EXCEPT !.step = "ask"]
  <2>1. o \in StepType /\ o.step = "ask" /\ o.kind = "forget" /\ o.graph = d.graph /\ o.rest = d.rest
    BY <1>2, <1>4, <1>8, DialogStep
  <2>2. Becomes(Poses(Lib, t, o)) /\ a \subseteq Apart(Lib)
    BY <1>8 DEF Steps
  <2> HIDE DEF o, a
  <2> QED BY <1>1, <1>3, <1>8, <2>1, <2>2, Asking
<1>9. CASE d.kind = "forget" /\ d.step = "each"
           /\ \E g \in d.rest : Becomes(Poses(deleteLocal(Lib, g), t, Step("forget", g, "entry", d.rest \ {g}, TRUE)))
  <2>1. PICK g \in d.rest : Becomes(Poses(deleteLocal(Lib, g), t, Step("forget", g, "entry", d.rest \ {g}, TRUE)))
    BY <1>9
  <2> DEFINE R == d.rest \ {g}  o == Step("forget", g, "entry", R, TRUE)  s == deleteLocal(Lib, g)
  <2>2. g \in Graph /\ g \in Ref /\ g.repo = r /\ R \in SUBSET Graph /\ R \subseteq Of(Graph, r)
    <3>1. d.rest \subseteq Of(Graph, r)
      BY <1>3, <1>9
    <3>2. g \in Graph /\ g.repo = r /\ R \in SUBSET Graph /\ R \subseteq Of(Graph, r)
      BY <3>1, OfIs
    <3> QED BY <3>2, GraphIsRef
  <2>3. o \in StepType /\ o.kind = "forget" /\ o.graph = g /\ o.step = "entry" /\ o.rest = R
    <3> HIDE DEF R
    <3> QED BY <1>4, <2>2 DEF Step, StepType
  <2>4. Becomes(Poses(s, t, o))
    BY <2>1
  <2>5. \A h \in Kin(Lib) : h.repo = r => h \in d.rest
    BY <1>1, <1>9 DEF Reachable
  <2> HIDE DEF o, a
  <2>6. /\ s \in State /\ Settled(s, a) /\ Reachable(s) /\ Apart(s) = Apart(Lib) /\ Kin(s) = Kin(Lib) \ {g}
    BY <1>1, Deleting
  <2> HIDE DEF s
  <2>7. \A h \in Kin(s) : h.repo = r => h \in R
    BY <2>5, <2>6
  <2>8. a \subseteq Apart(s)
    BY <2>6 DEF a
  <2> HIDE DEF R
  <2> QED BY <1>3, <1>9, <2>2, <2>3, <2>4, <2>6, <2>7, <2>8, Asking
<1>10. CASE d.kind = "forget" /\ d.step = "each" /\ forgetsAccount(d)
            /\ LET forgot == With([Lib EXCEPT !.disk.auth = @ \ {r}], t, [tab[t] EXCEPT !.dialog = NoStep, !.selected = 0])
               IN Becomes(writeRemoteRepositories(forgot, t, disk.repos \ {r}))
  BY <1>2, <1>10, Forgetting DEF forgetsAccount
<1>11. CASE d.kind = "forget" /\ d.step = "entry" /\ Becomes(Poses(Removed(Lib, t), t, [d EXCEPT !.step = "each"]))
  <2> DEFINE s == removeEntry(Lib, t, d.graph)  o == [d EXCEPT !.step = "each"]
  <2>1. o \in StepType /\ o.step = "each" /\ o.kind = "forget" /\ o.graph = d.graph /\ o.rest = d.rest
    BY <1>2, <1>4, <1>11, DialogStep
  <2>2. Becomes(Poses(s, t, o))
    BY <1>1, <1>11 DEF Removed
  <2>3. \A h \in Kin(Lib) : h.repo = r => h \in d.rest
    BY <1>1, <1>11 DEF Reachable
  <2> HIDE DEF o, a
  <2>4. Carries(s, Lib) /\ Settled(s, a) /\ Reachable(s) /\ Apart(s) = Apart(Lib) /\ Kin(s) = Kin(Lib)
    BY <1>1, <1>2, <1>3, <1>11, RemovingEntry
  <2> HIDE DEF s
  <2>5. s \in State /\ a \subseteq Apart(s) /\ \A h \in Kin(s) : h.repo = r => h \in d.rest
    BY <2>3, <2>4 DEF Carries, a
  <2> QED BY <1>3, <1>11, <2>1, <2>2, <2>4, <2>5, Asking
<1>12. \/ selected(tab[t]) # 0 /\ Becomes(Requests(t, "forget", GraphRef(selected(tab[t]), 0), TRUE))
       \/ Becomes(Poses(Lib, t, NoStep))
       \/ d.kind = "forget" /\ Becomes(Poses(Lib, t, Step("forget", d.graph, "each", Of(disk.replicas, r), TRUE)))
       \/ d.kind = "forget" /\ Becomes(Steps(t, "ask"))
       \/ d.kind = "forget" /\ d.step = "each"
           /\ \E g \in d.rest : Becomes(Poses(deleteLocal(Lib, g), t, Step("forget", g, "entry", d.rest \ {g}, TRUE)))
       \/ d.kind = "forget" /\ d.step = "each" /\ forgetsAccount(d)
            /\ LET forgot == With([Lib EXCEPT !.disk.auth = @ \ {r}], t, [tab[t] EXCEPT !.dialog = NoStep, !.selected = 0])
               IN Becomes(writeRemoteRepositories(forgot, t, disk.repos \ {r}))
       \/ d.kind = "forget" /\ d.step = "entry" /\ Becomes(Poses(Removed(Lib, t), t, [d EXCEPT !.step = "each"]))
  <2>1. ForgetRepositoryDialog(t)
    OBVIOUS
  <2> QED BY <2>1 DEF ForgetRepositoryDialog
<1> QED BY <1>5, <1>6, <1>7, <1>8, <1>9, <1>10, <1>11, <1>12

\* The picker of a tab that has just been opened.
LEMMA NewPicker ==
    ASSUME 0 \in Repo, NEW R \in SUBSET Repo
    PROVE  LET q == Picker(R) IN
           /\ q \in PickerType /\ q.phase = "picker" /\ q.selected = 0 /\ q.repos = R
           /\ q.cat = [r \in Repo |-> NoCatalog] /\ q.load = [r \in Repo |-> NoLoad]
           /\ q.told = FALSE /\ q.missed = FALSE
           /\ q.import = NoStep /\ q.export = NoStep /\ q.dialog = NoStep
<1>1. /\ NoGraph \in Ref /\ NoStep \in StepType /\ "picker" \in Word
      /\ [r \in Repo |-> NoCatalog] \in [Repo -> CatalogType] /\ [r \in Repo |-> NoLoad] \in [Repo -> LoadType]
  BY NoStepIs, Empty DEF Word
<1> QED BY <1>1 DEF Picker, PickerType

\* A tab that is opened again starts from what is stored.
LEMMA ReloadsStep ==
    ASSUME 0 \in Repo, Inv, NEW t \in Shell, reloads(t)
    PROVE  Inv'
<1> DEFINE p == tab[t]  i == p.import  a == Apart(Lib)
           ra == IF i.step = "register" THEN raced \cup Of({i.graph}, 0) ELSE raced
           l == [g \in Graph |-> IF disk.lease[g] = t THEN 0 ELSE disk.lease[g]]
           d == [disk EXCEPT !.lease = l]
           s == [[Lib EXCEPT !.disk = d] EXCEPT !.raced = ra]
           q == Picker(disk.repos)
           y == With(s, t, q)
           x == select(y, t, 0)
<1>1. /\ Lib \in State /\ Settled(Lib, a) /\ Reachable(Lib) /\ Lib.disk = disk /\ Lib.tab = tab
      /\ p \in PickerType /\ Good(p, disk) /\ Lib.srv = srv /\ Lib.raced = raced
      /\ raced \subseteq Graph /\ disk \in DiskType /\ disk.repos \subseteq Repo
  BY Was, LibIs, Parts
<1>2. Becomes(x)
  <2>1. [Lib EXCEPT !.raced = IF i.step = "register" THEN @ \cup Of({i.graph}, 0) ELSE @,
                    !.disk.lease = [g \in Graph |-> IF @[g] = t THEN 0 ELSE @[g]]] = s
    BY <1>1 DEF State
  <2>2. Becomes(select(With([Lib EXCEPT !.raced = IF i.step = "register" THEN @ \cup Of({i.graph}, 0) ELSE @,
                    !.disk.lease = [g \in Graph |-> IF @[g] = t THEN 0 ELSE @[g]]], t, Picker(disk.repos)), t, 0))
    BY Zenon DEF reloads
  <2> HIDE DEF s
  <2> QED BY <2>1, <2>2
<1>3. ra \in SUBSET Graph /\ raced \subseteq ra
      /\ (i.step = "register" /\ i.graph.repo = 0 => i.graph \in ra)
  <2>1. i.step = "register" => i.graph \in Graph
    BY <1>1, NoStepIs DEF Good, Steady
  <2> QED BY <1>1, <2>1 DEF Of
<1>4. d \in DiskType /\ SameDisk(d, disk)
  <2>1. l \in [Graph -> Shell \cup {0}]
    BY <1>1 DEF DiskType
  <2> HIDE DEF l
  <2> QED BY <1>1, <2>1, Leasing
<1> HIDE DEF ra, d, q
<1>5. s \in State /\ s.disk = d /\ s.tab = tab /\ s.raced = ra /\ s.srv = srv
  <2> DEFINE w == [Lib EXCEPT !.disk = d]
  <2>1. w \in State /\ w.disk = d /\ w.tab = tab /\ w.srv = srv
    BY <1>1, <1>4, WithDisk
  <2> HIDE DEF w
  <2>2. LET z == [w EXCEPT !.raced = ra] IN
        z \in State /\ z.disk = d /\ z.tab = tab /\ z.raced = ra /\ z.srv = srv
    BY <1>3, <2>1 DEF State
  <2> QED BY <2>2 DEF w
<1>6. /\ q \in PickerType /\ q.phase = "picker" /\ q.selected = 0 /\ q.repos = disk.repos
      /\ q.cat = [r \in Repo |-> NoCatalog] /\ q.load = [r \in Repo |-> NoLoad]
      /\ q.told = FALSE /\ q.missed = FALSE
      /\ q.import = NoStep /\ q.export = NoStep /\ q.dialog = NoStep
  BY <1>1, NewPicker DEF q
<1>7. Good(q, disk)
  <2>1. Chosen(q, disk)
    BY <1>1, <1>6 DEF Chosen, Reachable
  <2>2. Steady(q)
    BY <1>6, NoStepIs DEF Steady
  <2>3. Sorted(q) /\ Loading(q, disk)
    BY <1>6, Empty DEF Sorted, Loading
  <2> QED BY <2>1, <2>2, <2>3 DEF Good
<1> HIDE DEF s
<1>8. Frame(y, s, t) /\ y.tab[t] = q
  BY <1>5, <1>6, WithTab
<1>9. y \in State /\ y.disk = d /\ y.raced = ra /\ \A u \in Shell : u # t => y.tab[u] = tab[u]
  BY <1>5, <1>8 DEF Frame
<1> HIDE DEF y
<1>10. Good(q, d) /\ [q EXCEPT !.selected = 0] = q
  BY <1>4, <1>6, <1>7, GoodSame DEF SameDisk, PickerType
<1>11. Frame(x, y, t) /\ Alike(x.tab[t], q) /\ Good(x.tab[t], d) /\ \A b : Current(x.tab[t], d, b)
  <2>1. /\ Chosen([y.tab[t] EXCEPT !.selected = 0], y.disk) /\ Steady([y.tab[t] EXCEPT !.selected = 0])
        /\ Sorted(y.tab[t]) /\ Loading(y.tab[t], y.disk)
    BY <1>8, <1>9, <1>10 DEF Good
  <2> HIDE DEF x
  <2>2. LET w == select(y, t, 0) IN
        /\ Frame(w, y, t) /\ Alike(w.tab[t], [y.tab[t] EXCEPT !.selected = 0])
        /\ Good(w.tab[t], y.disk) /\ \A b : Current(w.tab[t], y.disk, b)
    BY <1>9, <2>1, Choosing
  <2> QED BY <1>8, <1>9, <1>10, <2>2 DEF x
<1> HIDE DEF x
<1>12. /\ x \in State /\ x.disk = d /\ x.raced = ra
       /\ \A u \in Shell : u # t => x.tab[u] = tab[u]
  BY <1>9, <1>11 DEF Frame
<1>13. Settled(x, a)
  <2>1. \A u \in Shell : Good(tab[u], d) /\ Current(tab[u], d, a)
    BY <1>4, Was, GoodSame DEF SameDisk
  <2> QED BY <1>11, <1>12, <2>1 DEF Settled, Steadies
<1>14. \A g \in Pending(Lib) \ Pending(x) : g = i.graph /\ i.step = "register"
  <2> SUFFICES ASSUME NEW u \in Shell, tab[u].import.step = "register", tab[u].import.graph \notin Pending(x)
               PROVE  u = t
    BY LibIs DEF Pending
  <2> QED BY <1>12 DEF Pending
<1>15. Settled(x, Apart(x))
  <2>1. \A g \in a \ Apart(x) : g.repo # 0
    BY <1>1, <1>3, <1>12, <1>14 DEF Apart
  <2> QED BY <1>12, <1>13, <2>1, Narrowing
<1>16. Kin(x) \subseteq Kin(Lib) /\ (i.step = "register" /\ i.graph.repo = 0 => i.graph \notin Kin(x))
  BY <1>1, <1>3, <1>4, <1>12 DEF Kin, SameDisk
<1>17. \A u \in Shell : u # t => x.tab[u].dialog = tab[u].dialog
  BY <1>12
<1>18. x.tab[t].dialog.kind = "none"
  BY <1>6, <1>11, NoStepIs DEF Alike
<1>19. Reachable(x)
  <2>1. \A g \in Kin(x) : IF g.repo = 0 THEN g \in x.disk.entries \cup Pending(x) ELSE g.repo \in x.disk.repos
    BY <1>1, <1>4, <1>12, <1>14, <1>16 DEF Reachable, SameDisk
  <2>2. x.disk.repos \subseteq x.disk.past /\ 0 \notin x.disk.past
    BY <1>1, <1>4, <1>12 DEF Reachable, SameDisk
  <2>3. \A u \in Shell : LET o == x.tab[u].dialog IN
           /\ Joins(o, x.disk.past) /\ \A v \in Shell : v # u => Alone(o, x.tab[v].dialog)
    BY <1>1, <1>4, <1>12, <1>17, <1>18 DEF Reachable, Joins, Alone, SameDisk
  <2> QED BY <1>1, <1>16, <1>17, <1>18, <2>1, <2>2, <2>3 DEF Reachable
<1> QED BY <1>2, <1>12, <1>15, <1>19, Goes DEF x
-----------------------------------------------------------------------------
(* The theorem.                                                            *)

\* The library starts that way.
LEMMA Starting == ASSUME Kept, LibraryInit PROVE Inv
<1>0. 0 \in Repo
  BY DEF Kept, Repo
<1>1. PICK o \in Opened :
        /\ disk = [Disk EXCEPT !.entries = o.entries, !.replicas = o.replicas, !.repos = o.repos, !.past = o.repos,
                         !.auth = o.repos]
        /\ srv = o.srv /\ raced = {}
        /\ tab = [t \in Shell |-> [Picker(o.repos) EXCEPT !.load[0] = Load("stored", Of(o.entries, 0), {}),
                                    !.cat[0].status = "loading"]]
  BY DEF LibraryInit
<1>2. /\ o.entries \subseteq Graph /\ o.replicas \subseteq Graph /\ o.repos \subseteq Repo \ {0} /\ o.srv \subseteq Id
      /\ \A g \in o.replicas : IF g.repo = 0 THEN g \in o.entries ELSE g.repo \in o.repos
  BY DEF Kept
<1>3. /\ disk \in DiskType /\ disk.entries = o.entries /\ disk.replicas = o.replicas /\ disk.repos = o.repos
      /\ disk.past = o.repos
  BY <1>1, <1>2 DEF Disk, DiskType
<1> DEFINE l == Load("stored", Of(o.entries, 0), {})
           n == [NoCatalog EXCEPT !.status = "loading"]
           q == [Picker(o.repos) EXCEPT !.load[0] = l, !.cat[0].status = "loading"]
<1>4. l \in LoadType /\ l.stage = "stored" /\ l.entries = Of(o.entries, 0) /\ l.stored = {}
  <2> DEFINE E == Of(o.entries, 0)
  <2>1. E \in SUBSET Graph
    BY <1>2, OfIs
  <2> HIDE DEF E
  <2>2. LET k == Load("stored", E, {}) IN k \in LoadType /\ k.stage = "stored" /\ k.entries = E /\ k.stored = {}
    BY <2>1, ALoad DEF Word
  <2> QED BY <2>2 DEF E
<1>5. n \in CatalogType /\ n.graphs = {}
  BY DEF NoCatalog, Catalog, CatalogType, Word
<1> HIDE DEF l
<1>6. /\ Picker(o.repos) \in PickerType /\ Picker(o.repos).phase = "picker" /\ Picker(o.repos).selected = 0
      /\ Picker(o.repos).repos = o.repos
      /\ Picker(o.repos).cat = [r \in Repo |-> NoCatalog] /\ Picker(o.repos).load = [r \in Repo |-> NoLoad]
      /\ Picker(o.repos).import = NoStep /\ Picker(o.repos).export = NoStep /\ Picker(o.repos).dialog = NoStep
  BY <1>0, <1>2, NewPicker
<1>7. /\ q \in PickerType /\ q.phase = "picker" /\ q.selected = 0 /\ q.repos = o.repos
      /\ q.load = [[r \in Repo |-> NoLoad] EXCEPT ![0] = l]
      /\ q.cat = [[r \in Repo |-> NoCatalog] EXCEPT ![0] = n]
      /\ q.import = NoStep /\ q.export = NoStep /\ q.dialog = NoStep
  <2> DEFINE w == Picker(o.repos)
             c == [[r \in Repo |-> NoCatalog] EXCEPT ![0] = n]
             k == [[r \in Repo |-> NoLoad] EXCEPT ![0] = l]
  <2>1. c \in [Repo -> CatalogType] /\ k \in [Repo -> LoadType]
    BY <1>0, <1>4, <1>5, Empty
  <2>2. [w.cat EXCEPT ![0].status = "loading"] = c /\ [w.load EXCEPT ![0] = l] = k
    BY <1>0, <1>6
  <2> HIDE DEF w, c, k
  <2>3. q = [w EXCEPT !.load = k, !.cat = c]
    BY <1>6, <2>2 DEF w, PickerType
  <2>4. w \in PickerType /\ w.phase = "picker" /\ w.selected = 0 /\ w.repos = o.repos
        /\ w.import = NoStep /\ w.export = NoStep /\ w.dialog = NoStep
    BY <1>6 DEF w
  <2> HIDE DEF q
  <2> QED BY <2>1, <2>3, <2>4 DEF PickerType, c, k
<1> HIDE DEF n
<1>8. tab = [t \in Shell |-> q]
  BY <1>1 DEF l
<1> HIDE DEF q
<1>9. Lib \in State
  BY <1>1, <1>2, <1>3, <1>7, <1>8 DEF Lib, State
<1>10. Good(q, disk)
  <2>1. Chosen(q, disk)
    BY <1>3, <1>7 DEF Chosen
  <2>2. Steady(q)
    BY <1>7, <1>0, NoStepIs DEF Steady
  <2>3. Sorted(q)
    <3>1. \A r \in Repo : q.load[r] = IF r = 0 THEN l ELSE NoLoad
      BY <1>7
    <3>2. \A r \in Repo : q.cat[r] = IF r = 0 THEN n ELSE NoCatalog
      BY <1>7
    <3>3. Of(o.entries, 0) \subseteq Of(Graph, 0)
      BY <1>2 DEF Of
    <3> QED BY <1>4, <1>5, <3>1, <3>2, <3>3, Empty DEF Sorted
  <2>4. Loading(q, disk)
    BY <1>0, <1>3, <1>4, <1>7 DEF Loading
  <2> QED BY <2>1, <2>2, <2>3, <2>4 DEF Good
<1>11. \A a : Current(q, disk, a)
  BY <1>0, <1>4, <1>7, Empty DEF Current, selected
<1>12. \A t \in Shell : tab[t] = q
  BY <1>8
<1>13. Kin(Lib) \subseteq o.replicas /\ Pending(Lib) = {}
  BY <1>3, <1>7, <1>12, <1>0, NoStepIs, LibIs DEF Kin, Pending
<1>14. Reachable(Lib)
  BY <1>0, <1>2, <1>3, <1>7, <1>12, <1>13, NoStepIs, LibIs DEF Reachable, Joins, Alone
<1> QED BY <1>9, <1>10, <1>11, <1>12, <1>14, LibIs DEF Inv, LibraryInv, Steadies, Currents

\* Every step keeps it that way.
LEMMA Stepping == ASSUME 0 \in Repo, Inv, [LibraryNext]_libraryVars PROVE Inv'
<1>1. CASE UNCHANGED libraryVars
  BY <1>1 DEF libraryVars, Inv, Lib
<1>2. CASE LibraryNext
  BY <1>2, ElsewhereStep, StorageEventStep, LoadRepositoryCatalogStep, LocalGraphExistsStep, SessionOpensStep, OnExitStep,
     OpenStep, ChooseRepositoryStep, RetryStep, SignOutOfStep, RepositoryDialogStep, CreateLocalStep, CreateRemoteStep,
     ImportArchiveStep, OnExportStep, RenameDialogStep, DeleteDialogStep, ForgetRepositoryDialogStep, ReloadsStep
     DEF LibraryNext
<1> QED BY <1>1, <1>2

\* What the invariant says of the pickers and of the stored graphs.
LEMMA Implied == ASSUME 0 \in Repo, Inv PROVE LibraryIsCurrent
<1>1. /\ Reachable(Lib) /\ Lib.disk = disk /\ Lib.tab = tab /\ Lib.raced = raced
      /\ \A u \in Shell : Good(tab[u], disk) /\ Current(tab[u], disk, Apart(Lib))
  BY Was, LibIs
<1>2. Apart(Lib) = raced \cup Unregistered
  BY <1>1 DEF Apart, Pending, Unregistered
<1>3. ReplicaHasItsAccount
  BY <1>1 DEF ReplicaHasItsAccount, Reachable, Kin
<1>4. CatalogIsCurrent
  <2> DEFINE a == raced \cup Unregistered
  <2> SUFFICES ASSUME NEW t \in Shell, OnPicker(tab[t]), selected(tab[t]) = 0, tab[t].load[0] = NoLoad, ~tab[t].told,
                      ~tab[t].missed, Cat(t).status # "failed"
               PROVE  Cat(t).graphs = Of(disk.entries \cup (disk.replicas \ a), 0) \cup (Cat(t).graphs \cap a)
    BY DEF CatalogIsCurrent
  <2>1. Cat(t) = tab[t].cat[0]
    BY DEF Cat
  <2> DEFINE C == tab[t].cat[0].graphs
  <2>2. Of(disk.entries, 0) \subseteq C /\ C \subseteq Of(disk.entries, 0) \cup a
    BY <1>1, <1>2, <2>1 DEF Current
  <2>3. \A g \in disk.replicas \ a : g.repo = 0 => g \in disk.entries
    BY <1>1, <1>2 DEF Reachable, Kin, Apart
  <2> HIDE DEF C, a
  <2>4. Of(disk.entries \cup (disk.replicas \ a), 0) = Of(disk.entries, 0)
    BY <2>3 DEF Of
  <2> QED BY <2>1, <2>2, <2>4 DEF C, a
<1> QED BY <1>3, <1>4 DEF LibraryIsCurrent

\* The types the library declares follow from the invariant.
LEMMA Typed == ASSUME Inv PROVE LibraryTypes
<1>1. /\ Lib \in State /\ Lib.disk = disk /\ Lib.tab = tab /\ Lib.srv = srv /\ Lib.raced = raced
      /\ \A u \in Shell : tab[u] \in PickerType
  BY Was, LibIs
<1>2. /\ disk.entries \subseteq Graph /\ disk.replicas \subseteq Graph /\ disk.auth \subseteq Repo
      /\ srv \subseteq Id /\ raced \subseteq Graph
  BY <1>1, Parts
<1>3. \A g \in Graph : disk.lease[g] \in Shell \cup {0}
  BY <1>1, Parts DEF DiskType
<1>4. ASSUME NEW u \in Shell PROVE tab[u].selected \in Repo /\ \A r \in Repo : tab[u].cat[r].graphs \subseteq Graph
  <2>1. tab[u].selected \in Repo /\ tab[u].cat \in [Repo -> CatalogType]
    BY <1>1, PickerParts
  <2>2. \A r \in Repo : tab[u].cat[r] \in CatalogType
    BY <2>1
  <2> QED BY <2>1, <2>2 DEF CatalogType
<1> QED BY <1>2, <1>3, <1>4 DEF LibraryTypes

\* The library of a browser whose stored graphs have their entries and accounts stays
\* that way, and a picker at rest shows it (GraphPicker.tsx, useRepositoryCatalogs.ts).
THEOREM LibraryCorrect == Kept => (LibrarySpec => []LibraryIsCurrent)
<1> SUFFICES ASSUME Kept PROVE LibrarySpec => []LibraryIsCurrent
  OBVIOUS
<1>1. 0 \in Repo
  BY DEF Kept, Repo
<1>2. LibraryInit => Inv
  BY Starting
<1>3. Inv /\ [LibraryNext]_libraryVars => Inv'
  BY <1>1, Stepping
<1>4. Inv => LibraryIsCurrent
  BY <1>1, Implied
<1> QED BY <1>2, <1>3, <1>4, PTL DEF LibrarySpec

\* The library, the pickers and their steps keep their types.
THEOREM TypesCorrect == Kept => (LibrarySpec => []LibraryTypes)
<1> SUFFICES ASSUME Kept PROVE LibrarySpec => []LibraryTypes
  OBVIOUS
<1>1. 0 \in Repo
  BY DEF Kept, Repo
<1>2. LibraryInit => Inv
  BY Starting
<1>3. Inv /\ [LibraryNext]_libraryVars => Inv'
  BY <1>1, Stepping
<1>4. Inv => LibraryTypes
  BY Typed
<1> QED BY <1>2, <1>3, <1>4, PTL DEF LibrarySpec
=============================================================================
