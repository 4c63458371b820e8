------------------------------- MODULE MCTabs -------------------------------
(* What the tabs of one browser share, one component at a time: the lease and *)
(* the library of graphs.  Tabs are interchangeable.                          *)
EXTENDS LeaseElection, GraphLibrary, TLC

CONSTANTS Third, None

VARIABLE component

\* This browser's own graph, and the graph of an account.
Ref(r) == [repo |-> r, id |-> 1]
LibraryOpened ==
  {[entries |-> {Ref(r)}, replicas |-> {Ref(r)}, repos |-> {r} \ {0}, srv |-> {r} \ {0}, acts |-> 3, fails |-> 1] : r \in {0, 1}}

\* The lease is checked with a third tab.
MCAsks == [l \in BOOLEAN |-> IF l THEN 4 ELSE 3]
Pair == Tab \ {Third}

ASSUME LibraryKept == Kept

Symmetric == Permutations(Pair)

(* The variables of all components, and the values of those a behaviour leaves out. *)
tabsVars == <<component, vars, libraryVars>>

noLease == locks = TRUE /\ tabLeases = <<>> /\ lease = <<>> /\ ask = <<>> /\ messages = {} /\ queue = {}
noLibrary == tab = [t \in Shell |-> Picker({})] /\ disk = Disk /\ srv = {} /\ raced = {} /\ fails = 0 /\ acts = 0

TabsInit ==
    \/ component = "lease" /\ Init /\ noLibrary
    \/ component = "library" /\ LibraryInit /\ noLease

TabsNext ==
    /\ UNCHANGED component
    /\ \/ component = "lease" /\ Next /\ UNCHANGED libraryVars
       \/ component = "library" /\ LibraryNext /\ UNCHANGED vars

TabsSpec == TabsInit /\ [][TabsNext]_tabsVars
=============================================================================
