------------------------------ MODULE Registry ------------------------------
(***************************************************************************)
(* The project registry: which project, by its id, has its store at which  *)
(* folder of this machine, and which project is the default.               *)
(*                                                                         *)
(* A store holds its own id, so that the registry and the stores say the   *)
(* same thing twice.  Every server and every command line writes both, in  *)
(* single statements with no transaction around them, and may die between  *)
(* any two; and the operator moves, copies and deletes folders.            *)
(***************************************************************************)
EXTENDS Naturals, FiniteSets

CONSTANTS
  Paths,      \* folders that may hold a store
  Ids,        \* project ids; a minted UUID is one that was never used
  Calls,      \* processes, each with at most one call under way
  None,
  Choices,    \* whether registrations make their project the default: FALSE, TRUE or both
  MaxChanges  \* bound on what the operator does to folders

ASSUME RegistryAssumption ==
  /\ None \notin Ids /\ None \notin Paths /\ None \notin Calls
  /\ None \notin [path : Paths, active : BOOLEAN]
  /\ Choices \subseteq BOOLEAN /\ MaxChanges \in Nat

VARIABLES
  folder,    \* of each path: no rbook/ in it, rbook/ without a database, or a store
  stored,    \* metadata.project_id of the store at a path
  row,       \* projects, by id: store_path, and whether archived_at is NULL
  default,   \* registry_meta.default_project_id
  confirmed, \* registry_meta.default_project_confirmed
  call,      \* the calls under way
  used,      \* ids that exist or existed
  changes,   \* number of changes by the operator
  touched,   \* history: paths whose store the operator put there or took away
  replaced,  \* history: paths where an init wrote its id over another one
  standing   \* history: the project the operator last chose as default, and the call
             \* that is choosing one and that no other change of it overlapped

stores == <<folder, stored>>
graph  == <<row, default, confirmed>>
world  == <<changes, touched, replaced>>
vars   == <<stores, graph, call, used, world, standing>>

-----------------------------------------------------------------------------
Row == [path : Paths, active : BOOLEAN]

\* settled is a history: the rows that name a live store since before the call began.
IdleCall == [pc |-> "idle", at |-> None, id |-> None, existing |-> None,
             strict |-> FALSE, chosen |-> FALSE, existed |-> FALSE,
             wasDefault |-> FALSE, left |-> {}, settled |-> {}]

Nothing == [id |-> None, by |-> None]

Init ==
  /\ folder \in [Paths -> {"nothing", "store"}] \* stores of a version that knew no ids
  /\ stored = [p \in Paths |-> None]
  /\ row = [i \in Ids |-> None]
  /\ default = None
  /\ confirmed = None
  /\ call = [c \in Calls |-> IdleCall]
  /\ used = {}
  /\ changes = 0
  /\ touched = {}
  /\ replaced = {}
  /\ standing = Nothing

RowsAt(p) == {i \in Ids : row[i] # None /\ row[i].path = p}

\* getByStorePath: the id of some row at this path.
Found(p) == IF RowsAt(p) = {} THEN {None} ELSE RowsAt(p)

\* readStoreIdentity of the store that a row names gives its id.
Live(i) == row[i] # None /\ stored[row[i].path] = i

\* getDefaultStatus: resolution takes an applied default for a call without context.
Applied(i) == row[i] # None /\ default = i /\ confirmed = i

IsIdle(c) == call[c].pc = "idle"

Begin(c, fields) ==
  /\ IsIdle(c)
  /\ call' = [call EXCEPT ![c] = [fields EXCEPT !.settled = {i \in Ids : Live(i)}]]

Goto(c, pc) == call' = [call EXCEPT ![c].pc = pc]
Return(c)   == call' = [call EXCEPT ![c] = IdleCall]

\* c goes on as next after it took the rows of S from where they were.
Unsettle(c, next, S) ==
  call' = [d \in Calls |-> [(IF d = c THEN next ELSE call[d]) EXCEPT !.settled = @ \ S]]

-----------------------------------------------------------------------------
(* registerStore, from register, from the client of every writing call, and *)
(* from init, for which strict is FALSE.                                    *)

Register(c, p, chosen) ==
  /\ folder[p] = "store"
  /\ \E i \in Found(p) :
       Begin(c, [IdleCall EXCEPT !.pc = "seek", !.at = p, !.existing = i,
                                 !.strict = TRUE, !.chosen = chosen])
  /\ UNCHANGED <<stores, graph, used, world, standing>>

\* Mutant: the id of the row, whether or not there is one.
IdentifiedByRow(c, id) ==
  IF call[c].strict /\ call[c].existing \notin {None, id}
  THEN Return(c)
  ELSE call' = [call EXCEPT ![c].pc = "check", ![c].existing = None,
                            ![c].strict = FALSE, ![c].id = call[c].existing]

\* What follows from the id that the store now holds: a strict call is refused
\* when the registry has another id for its folder.
Identified(c, id) ==
  LET existing == call[c].existing IN
  IF call[c].strict /\ existing \notin {None, id}
  THEN Return(c)
  ELSE call' = [call EXCEPT ![c].pc = "check", ![c].existing = None, ![c].strict = FALSE,
                            ![c].id = IF existing # None THEN existing ELSE id]

\* mintProjectId leaves an id as it is.
Seek(c) ==
  LET id == stored[call[c].at] IN
  /\ call[c].pc = "seek"
  /\ IF id # None THEN Identified(c, id) ELSE Goto(c, "mint")
  /\ UNCHANGED <<stores, graph, used, world, standing>>

\* The id of the row that outlived it, or a new one.
Candidates(known) == IF known # None THEN {known} ELSE Ids \ used

\* Mutant: the id is written over what another process has stored by now.
MintOver(c) ==
  LET p == call[c].at IN
  /\ call[c].pc = "mint"
  /\ \E i \in Candidates(call[c].existing) :
       /\ stored' = [stored EXCEPT ![p] = i]
       /\ used' = used \cup {i}
       /\ Identified(c, i)
  /\ UNCHANGED <<folder, graph, world, standing>>

\* The upsert takes effect on a blank id only; what is stored is then read again.
Mint(c) ==
  LET p == call[c].at IN
  /\ call[c].pc = "mint"
  /\ \/ /\ stored[p] # None
        /\ Identified(c, stored[p])
        /\ UNCHANGED <<stored, used>>
     \/ /\ stored[p] = None
        /\ \E i \in Candidates(call[c].existing) :
             /\ stored' = [stored EXCEPT ![p] = i]
             /\ used' = used \cup {i}
             /\ Identified(c, i)
  /\ UNCHANGED <<folder, graph, world, standing>>

\* Mutant: the condition the wrong way round.
HeldUnlessThere(id, p) == row[id] # None /\ row[id].path # p /\ stored[row[id].path] # id

\* A row at another path holds the id if the store there still has it.
HeldElsewhere(id, p) == row[id] # None /\ row[id].path # p /\ stored[row[id].path] = id

Check(c) ==
  /\ call[c].pc = "check"
  /\ IF HeldElsewhere(call[c].id, call[c].at) THEN Return(c) ELSE Goto(c, "upsert")
  /\ UNCHANGED <<stores, graph, used, world, standing>>

Upsert(c) ==
  LET i == call[c].id
      p == call[c].at
      next == IF call[c].chosen THEN [IdleCall EXCEPT !.pc = "choose", !.id = i] ELSE IdleCall IN
  /\ call[c].pc = "upsert"
  /\ row' = [row EXCEPT ![i] = [path |-> p, active |-> TRUE]]
  /\ Unsettle(c, next, IF row[i] # None /\ row[i].path = p THEN {} ELSE {i})
  /\ UNCHANGED <<stores, default, confirmed, used, world, standing>>

\* touchOrRegisterFromStore, when resolution finds a store that has no row.
Adopt(c, p) ==
  /\ stored[p] # None /\ RowsAt(p) = {}
  /\ Begin(c, [IdleCall EXCEPT !.pc = "check", !.at = p, !.id = stored[p]])
  /\ UNCHANGED <<stores, graph, used, world, standing>>

-----------------------------------------------------------------------------
(* The default project. *)

\* Other calls in the middle of a change of the default.
Deciding(c) ==
  {d \in Calls \ {c} : \/ call[d].pc = "confirm"
                       \/ call[d].pc \in {"delete", "clear"} /\ call[d].wasDefault}

\* setDefault, in two statements.
Choose(c) ==
  LET i == call[c].id IN
  /\ call[c].pc = "choose"
  /\ \/ row[i] # None /\ default' = i /\ Goto(c, "confirm")
        /\ standing' = IF Deciding(c) = {} THEN [Nothing EXCEPT !.by = c] ELSE Nothing
     \/ row[i] = None /\ Return(c) /\ UNCHANGED <<default, standing>>
  /\ UNCHANGED <<stores, row, confirmed, used, world>>

Confirm(c) ==
  /\ call[c].pc = "confirm"
  /\ confirmed' = call[c].id
  /\ standing' = IF standing.by = c THEN [Nothing EXCEPT !.id = call[c].id] ELSE Nothing
  /\ Return(c)
  /\ UNCHANGED <<stores, row, default, used, world>>

\* Mutant: whatever is removed counts as the default.
WasSet(i) == default # None

WasDefault(i) == default = i

\* unregisterStore, up to the deletion.
Unregister(c, p) ==
  /\ \E i \in RowsAt(p) :
       Begin(c, [IdleCall EXCEPT !.pc = "delete", !.id = i, !.wasDefault = WasDefault(i)])
  /\ UNCHANGED <<stores, graph, used, world, standing>>

Delete(c) ==
  LET i == call[c].id
      next == IF call[c].wasDefault THEN [IdleCall EXCEPT !.pc = "clear", !.wasDefault = TRUE]
              ELSE IdleCall IN
  /\ call[c].pc = "delete"
  /\ row' = [row EXCEPT ![i] = None]
  /\ Unsettle(c, next, {i})
  /\ standing' = IF standing.id = i \/ (standing.id = None /\ call[c].wasDefault)
                  THEN Nothing ELSE standing
  /\ UNCHANGED <<stores, default, confirmed, used, world>>

Clear(c) ==
  /\ call[c].pc = "clear"
  /\ default' = None
  /\ confirmed' = None
  /\ Return(c)
  /\ UNCHANGED <<stores, row, used, world, standing>>

-----------------------------------------------------------------------------
(* init: the id is settled before anything is written. *)

InitProject(c, p) ==
  LET existed == folder[p] # "nothing" IN
  /\ \E i \in Found(p) :
       Begin(c, [IdleCall EXCEPT !.pc = "create", !.at = p, !.existing = i,
                                 !.existed = existed,
                                 !.id = IF stored[p] # None THEN stored[p]
                                        ELSE IF existed THEN i ELSE None])
  /\ UNCHANGED <<stores, graph, used, world, standing>>

\* The database with its schema and, then, a look at the id in it.
Create(c) ==
  /\ call[c].pc = "create"
  /\ folder' = [folder EXCEPT ![call[c].at] = "store"]
  /\ Goto(c, "read")
  /\ UNCHANGED <<stored, graph, used, world, standing>>

ReadStored(c) ==
  LET id == stored[call[c].at] IN
  /\ call[c].pc = "read"
  /\ IF id # None THEN call' = [call EXCEPT ![c].pc = "drop", ![c].id = id]
                  ELSE Goto(c, "identify")
  /\ UNCHANGED <<stores, graph, used, world, standing>>

\* The write is an INSERT OR REPLACE: it does not mind what was stored since the look.
Identify(c) ==
  LET p == call[c].at IN
  /\ call[c].pc = "identify"
  /\ \E i \in Candidates(call[c].id) :
       /\ stored' = [stored EXCEPT ![p] = i]
       /\ used' = used \cup {i}
       /\ replaced' = IF stored[p] \in {None, i} THEN replaced ELSE replaced \cup {p}
       /\ Unsettle(c, [call[c] EXCEPT !.pc = "drop", !.id = i], {stored[p]} \ {i})
  /\ UNCHANGED <<folder, graph, changes, touched, standing>>

\* A new project drops the row of the one that was at its path.  The default, if
\* it was that project, is left to point at it.
DropStale(c) ==
  LET stale == IF call[c].existed THEN {} ELSE {call[c].existing} \ {None, call[c].id} IN
  /\ call[c].pc = "drop"
  /\ row' = [i \in Ids |-> IF i \in stale THEN None ELSE row[i]]
  /\ Unsettle(c, [call[c] EXCEPT !.pc = "lookup", !.id = None, !.existed = FALSE], stale)
  /\ UNCHANGED <<stores, default, confirmed, used, world, standing>>

\* registerStore, without strictness.
Lookup(c) ==
  /\ call[c].pc = "lookup"
  /\ \E i \in Found(call[c].at) :
       call' = [call EXCEPT ![c].pc = "seek", ![c].existing = i]
  /\ UNCHANGED <<stores, graph, used, world, standing>>

-----------------------------------------------------------------------------
(* Pruning, at the start of a server and by validate. *)

Prune(c) ==
  /\ \E i \in Ids : row[i] # None /\ row[i].active
  /\ Begin(c, [IdleCall EXCEPT !.pc = "prune",
                               !.left = {[id |-> i, path |-> row[i].path] :
                                           i \in {j \in Ids : row[j] # None /\ row[j].active}}])
  /\ UNCHANGED <<stores, graph, used, world, standing>>

\* The listed path decides, and the row is archived by its id.
PruneNext(c) ==
  /\ call[c].pc = "prune"
  /\ \E e \in call[c].left :
       /\ row' = IF folder[e.path] # "store" /\ row[e.id] # None
                 THEN [row EXCEPT ![e.id].active = FALSE] ELSE row
       /\ IF call[c].left = {e} THEN Return(c)
          ELSE call' = [call EXCEPT ![c].left = @ \ {e}]
  /\ UNCHANGED <<stores, default, confirmed, used, world, standing>>

-----------------------------------------------------------------------------
(* The operator, between calls, and the death of a process. *)

Change(ps) ==
  /\ changes < MaxChanges /\ \A c \in Calls : IsIdle(c)
  /\ changes' = changes + 1
  /\ touched' = touched \cup ps
  /\ UNCHANGED <<graph, call, used, replaced, standing>>

\* A folder is moved to a new place, or copied, with the id that its store has.
Transfer(p, q, left) ==
  /\ folder[p] # "nothing" /\ folder[q] = "nothing"
  /\ folder' = [folder EXCEPT ![q] = folder[p], ![p] = left]
  /\ stored' = [stored EXCEPT ![q] = stored[p],
                              ![p] = IF left = "nothing" THEN None ELSE stored[p]]

Move(p, q) == Transfer(p, q, "nothing") /\ Change({p, q})
Copy(p, q) == Transfer(p, q, folder[p]) /\ Change({q})

Remove(p) ==
  /\ folder[p] # "nothing"
  /\ folder' = [folder EXCEPT ![p] = "nothing"]
  /\ stored' = [stored EXCEPT ![p] = None]
  /\ Change({p})

\* The database is deleted, or one without an id is put in its place; the folder stays.
LoseStore(p) ==
  /\ folder[p] = "store"
  /\ folder' \in {folder, [folder EXCEPT ![p] = "layout"]}
  /\ stored' = [stored EXCEPT ![p] = None]
  /\ Change({})

Die(c) ==
  /\ ~IsIdle(c)
  /\ Return(c)
  /\ UNCHANGED <<stores, graph, used, world, standing>>

-----------------------------------------------------------------------------
Registration(c) == Seek(c) \/ Mint(c) \/ Check(c) \/ Upsert(c)
Initialization(c) == Create(c) \/ ReadStored(c) \/ Identify(c) \/ DropStale(c) \/ Lookup(c)
Defaulting(c) == Choose(c) \/ Confirm(c) \/ Delete(c) \/ Clear(c)

CallStep(c) ==
  \/ \E p \in Paths : \/ \E chosen \in Choices : Register(c, p, chosen)
                      \/ Adopt(c, p) \/ Unregister(c, p) \/ InitProject(c, p)
  \/ Registration(c) \/ Initialization(c) \/ Defaulting(c)
  \/ Prune(c) \/ PruneNext(c)

Operator ==
  \/ \E p, q \in Paths : Move(p, q) \/ Copy(p, q)
  \/ \E p \in Paths : Remove(p) \/ LoseStore(p)

Next == Operator \/ \E c \in Calls : CallStep(c) \/ Die(c)

Spec == Init /\ [][Next]_vars

-----------------------------------------------------------------------------
(* Properties. *)

Call == [pc : {"idle", "seek", "mint", "check", "upsert", "choose", "confirm", "delete",
               "clear", "create", "read", "identify", "drop", "lookup", "prune"},
         at : Paths \cup {None}, id : Ids \cup {None}, existing : Ids \cup {None},
         strict : BOOLEAN, chosen : BOOLEAN, existed : BOOLEAN, wasDefault : BOOLEAN,
         left : SUBSET [id : Ids, path : Paths], settled : SUBSET Ids]

\* Type invariant: a store has an id only where there is one, and a call knows its
\* folder, and its id from the step on that settles it.
TypeOK ==
  /\ folder \in [Paths -> {"nothing", "layout", "store"}]
  /\ stored \in [Paths -> Ids \cup {None}]
  /\ row \in [Ids -> Row \cup {None}]
  /\ default \in Ids \cup {None} /\ confirmed \in Ids \cup {None}
  /\ call \in [Calls -> Call]
  /\ used \subseteq Ids /\ changes \in 0..MaxChanges
  /\ touched \subseteq Paths /\ replaced \subseteq Paths
  /\ standing \in [id : Ids \cup {None}, by : Calls \cup {None}]
  /\ \A p \in Paths : folder[p] # "store" => stored[p] = None
  /\ \A c \in Calls : call[c].pc \in {"check", "upsert", "choose", "confirm", "delete"}
                      => call[c].id # None

\* The registry and the stores agree: in a folder that the operator left in its
\* place, no interleaving of first registrations, inits, removals and deaths leaves
\* a row of one id and a store with another, which would refuse every later write,
\* unless an init wrote its id over one that was stored since it looked.
RowsAgree ==
  \A p \in Paths \ (touched \cup replaced) : \A i \in RowsAt(p) : stored[p] \in {i, None}

\* The same for every folder in its place (rbook-project-init.ts:708: "A project keeps
\* its id for life: the project registry and the dashboard know it by that id").
IdIsForLife ==
  \A p \in Paths \ touched : \A i \in RowsAt(p) : stored[p] \in {i, None}

Acts(c) == [call'[c] EXCEPT !.settled = {}] # [call[c] EXCEPT !.settled = {}]

\* A row that named a live store when a call began is not moved to another folder,
\* and not archived, by that call (unless some call removes the row meanwhile):
\* the second of two copies does not take the place of the first, and a prune
\* archives no store that was there all the time.
SettledIsKept ==
  [][\A c \in Calls : \A i \in call[c].settled :
       (Acts(c) /\ call[c].pc # "delete")
         => /\ row'[i] # None /\ row'[i].path = row[i].path
            /\ row[i].active => row'[i].active]_vars

\* A choice of the default stands: once it was made without another one under way,
\* it is what applies as soon as its project is registered, whatever moves, copies,
\* prunes and inits at its old place come, until the operator chooses again or
\* removes the project.
ChoiceStands ==
  \A i \in Ids : standing.id = i /\ row[i] # None => Applied(i)
=============================================================================
