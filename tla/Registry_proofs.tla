--------------------------- MODULE Registry_proofs ---------------------------
(***************************************************************************)
(* Proofs about Registry, for any number of paths, ids, calls and changes. *)
(* Types, the standing of a chosen default, the agreement of rows and      *)
(* stores wherever no init wrote its id over another one, and what becomes *)
(* of the row of a live store hold for every execution.                    *)
(***************************************************************************)
EXTENDS Registry, TLAPS

-----------------------------------------------------------------------------
(* The inductive invariant. *)

\* Where a call has seen or made a store that nobody takes away while it runs.
InFolder == {"seek", "mint", "check", "upsert", "read", "identify", "drop", "lookup"}

CallFits(k) ==
  /\ k.pc = "idle" => k.settled = {}
  /\ k.pc \in InFolder \cup {"create"} => k.at \in Paths
  /\ k.pc \in InFolder => folder[k.at] = "store"

Typed == TypeOK /\ \A c \in Calls : CallFits(call[c])

RemovesDefault(c) == call[c].pc = "delete" /\ call[c].wasDefault

\* A choice that stands is in both entries, and what removes the default is a call
\* that removes what was chosen.
Chosen ==
  /\ standing.id # None => default = standing.id /\ confirmed = standing.id
  /\ \A c \in Calls : call[c].pc = "clear" => call[c].wasDefault /\ standing = Nothing
  /\ \A c \in Calls : RemovesDefault(c) /\ standing.id # None => call[c].id = standing.id
  /\ \A c \in Calls : call[c].pc = "confirm" /\ standing.by = c =>
       /\ default = call[c].id
       /\ \A d \in Calls : RemovesDefault(d) => call[d].id = call[c].id

InitSteps == {"create", "read", "identify", "drop", "lookup"}

\* Folders in their place in which no id was written over another one.
Clean == Paths \ (touched \cup replaced)

\* What a call knows of a clean folder.  As long as there is no id in the store, the
\* rows there are what the call found; afterwards the id stays, and the call has it.
Knows(c) ==
  LET k == call[c]
      p == k.at IN
  /\ k.pc \in {"seek", "mint"} /\ stored[p] = None => RowsAt(p) \subseteq {k.existing}
  /\ k.pc = "seek" /\ ~k.strict => stored[p] # None /\ k.existing \in {None, stored[p]}
  /\ k.pc = "mint" => k.strict
  /\ k.pc \in {"check", "upsert"} => k.id = stored[p]
  /\ k.pc \in {"drop", "lookup"} => stored[p] # None
  /\ k.pc \in {"create", "read", "identify"} /\ stored[p] = None => RowsAt(p) \subseteq {k.id}

\* The rows that a call found with a live store are where they were.
Settled(c) ==
  LET k == call[c] IN
  /\ \A i \in k.settled : Live(i)
  /\ k.pc = "upsert" /\ k.id \in k.settled => row[k.id].path = k.at
  /\ k.pc \in {"create", "read", "identify", "drop"} /\ ~k.existed => k.existing \notin k.settled
  /\ k.pc = "prune" => \A e \in k.left : e.id \in k.settled => e.path = row[e.id].path

Agrees(c) ==
  /\ call[c].pc \in InitSteps => ~call[c].strict
  /\ call[c].at \in Clean => Knows(c)
  /\ Settled(c)

OneRowEach ==
  \A p \in Clean : /\ \A i, j \in RowsAt(p) : i = j
                   /\ folder[p] = "nothing" => RowsAt(p) = {}

Agreement == OneRowEach /\ RowsAgree /\ \A c \in Calls : Agrees(c)

IInv == Typed /\ Chosen /\ Agreement

-----------------------------------------------------------------------------
(* What a step does to the calls. *)

Points == {"idle", "seek", "mint", "check", "upsert", "choose", "confirm", "delete",
           "clear", "create", "read", "identify", "drop", "lookup", "prune"}

LEMMA IdleFacts ==
  /\ IdleCall \in Call
  /\ IdleCall.pc = "idle" /\ IdleCall.settled = {}
BY DEF IdleCall, Call

\* k goes on from l and has lost at most settled rows.
Same(k, l) ==
  /\ k.pc = l.pc /\ k.at = l.at /\ k.id = l.id /\ k.existing = l.existing
  /\ k.strict = l.strict /\ k.chosen = l.chosen /\ k.existed = l.existed
  /\ k.wasDefault = l.wasDefault /\ k.left = l.left /\ k.settled \subseteq l.settled

\* k is at another point than l, perhaps with another id.
SameRest(k, l) ==
  /\ k.at = l.at /\ k.strict = l.strict /\ k.chosen = l.chosen
  /\ k.wasDefault = l.wasDefault /\ k.settled = l.settled

SameData(k, l) ==
  SameRest(k, l) /\ k.id = l.id /\ k.existing = l.existing /\ k.existed = l.existed /\ k.left = l.left

Others(c) == \A d \in Calls \ {c} : Same(call'[d], call[d])

LiveRows == {i \in Ids : Live(i)}

LEMMA CallTyped ==
  ASSUME Typed, NEW c \in Calls
  PROVE  /\ call \in [Calls -> Call] /\ call[c] \in Call /\ CallFits(call[c])
         /\ call[c].pc \in Points /\ call[c].at \in Paths \cup {None}
         /\ call[c].id \in Ids \cup {None} /\ call[c].existing \in Ids \cup {None}
         /\ call[c].strict \in BOOLEAN /\ call[c].chosen \in BOOLEAN
         /\ call[c].existed \in BOOLEAN /\ call[c].wasDefault \in BOOLEAN
         /\ call[c].left \subseteq [id : Ids, path : Paths] /\ call[c].settled \subseteq Ids
<1>1. call \in [Calls -> Call] /\ call[c] \in Call /\ CallFits(call[c])
  BY DEF Typed, TypeOK
<1>2. QED
  BY <1>1 DEF Call, Points

\* The call that a step begins.
LEMMA BeginFacts ==
  ASSUME Typed, NEW c \in Calls, NEW f \in Call, Begin(c, f)
  PROVE  /\ IsIdle(c) /\ call' \in [Calls -> Call] /\ Others(c)
         /\ call'[c] = [f EXCEPT !.settled = LiveRows]
<1>1. call \in [Calls -> Call] /\ LiveRows \in SUBSET Ids
  BY CallTyped DEF LiveRows
<1>2. IsIdle(c) /\ call' = [call EXCEPT ![c] = [f EXCEPT !.settled = LiveRows]]
  BY DEF Begin, LiveRows
<1>3. [f EXCEPT !.settled = LiveRows] \in Call
  BY <1>1 DEF Call
<1>4. QED
  BY <1>1, <1>2, <1>3 DEF Others, Same

LEMMA ReturnFacts ==
  ASSUME Typed, NEW c \in Calls, Return(c)
  PROVE  /\ call' \in [Calls -> Call] /\ Others(c)
         /\ call'[c] = IdleCall /\ call'[c].pc = "idle" /\ call'[c].settled = {}
<1>1. call \in [Calls -> Call]
  BY CallTyped
<1>2. QED
  BY <1>1, IdleFacts DEF Return, Others, Same

LEMMA GotoFacts ==
  ASSUME Typed, NEW c \in Calls, NEW pc \in Points, Goto(c, pc)
  PROVE  /\ call' \in [Calls -> Call] /\ Others(c)
         /\ call'[c].pc = pc /\ SameData(call'[c], call[c])
<1>1. call \in [Calls -> Call] /\ call[c] \in Call
  BY CallTyped
<1>2. call' = [call EXCEPT ![c] = [call[c] EXCEPT !.pc = pc]]
  BY DEF Goto
<1>3. \A l \in Call : LET k == [l EXCEPT !.pc = pc]
                      IN k \in Call /\ k.pc = pc /\ SameData(k, l)
  BY DEF Call, Points, SameData, SameRest
<1>4. QED
  BY <1>1, <1>2, <1>3 DEF Others, Same

LEMMA UnsettleFacts ==
  ASSUME Typed, NEW c \in Calls, NEW k \in Call, NEW S, Unsettle(c, k, S)
  PROVE  /\ call' \in [Calls -> Call] /\ Others(c)
         /\ call'[c] = [k EXCEPT !.settled = k.settled \ S]
         /\ \A d \in Calls \ {c} : call'[d].settled = call[d].settled \ S
<1>1. call \in [Calls -> Call]
  BY CallTyped
<1>2. \A l \in Call : [l EXCEPT !.settled = l.settled \ S] \in Call
  BY DEF Call
<1>3. \A d \in Calls : call'[d] = LET l == IF d = c THEN k ELSE call[d]
                                  IN [l EXCEPT !.settled = l.settled \ S]
  BY DEF Unsettle
<1>4. call'[c] = [k EXCEPT !.settled = k.settled \ S] /\ call'[c] \in Call
  BY <1>2, <1>3
<1>5. \A d \in Calls \ {c} : /\ call'[d] = [call[d] EXCEPT !.settled = call[d].settled \ S]
                             /\ call[d] \in Call /\ call'[d] \in Call
  BY <1>1, <1>2, <1>3
<1>6. call' \in [Calls -> Call]
  <2>1. call' = [d \in Calls |-> call'[d]]
    BY DEF Unsettle
  <2>2. QED
    BY <2>1, <1>4, <1>5
<1>7. ASSUME NEW d \in Calls \ {c}
      PROVE  Same(call'[d], call[d]) /\ call'[d].settled = call[d].settled \ S
  <2>1. call'[d] = [call[d] EXCEPT !.settled = call[d].settled \ S] /\ call[d] \in Call
    BY <1>5
  <2>2. \A l \in Call : LET m == [l EXCEPT !.settled = l.settled \ S]
                        IN Same(m, l) /\ m.settled = l.settled \ S
    BY DEF Same, Call
  <2>3. QED
    BY <2>1, <2>2
<1>8. QED
  BY <1>4, <1>6, <1>7 DEF Others

LEMMA FoundTyped ==
  ASSUME NEW p
  PROVE  /\ RowsAt(p) \subseteq Ids /\ Found(p) \subseteq Ids \cup {None}
         /\ \A i \in Found(p) : i \in RowsAt(p) \/ (i = None /\ RowsAt(p) = {})
BY DEF RowsAt, Found

\* The calls that begin.
LEMMA RegisterFacts ==
  ASSUME Typed, NEW c \in Calls, NEW p \in Paths, NEW chosen \in Choices, Register(c, p, chosen)
  PROVE  /\ IsIdle(c) /\ call' \in [Calls -> Call] /\ Others(c)
         /\ call'[c].pc = "seek" /\ call'[c].at = p /\ call'[c].existing \in Found(p)
         /\ call'[c].strict /\ call'[c].settled = LiveRows
<1>1. PICK i \in Found(p) :
        Begin(c, [IdleCall EXCEPT !.pc = "seek", !.at = p, !.existing = i,
                                  !.strict = TRUE, !.chosen = chosen])
  BY DEF Register
<1> DEFINE f == [IdleCall EXCEPT !.pc = "seek", !.at = p, !.existing = i,
                                 !.strict = TRUE, !.chosen = chosen]
<1>2. i \in Ids \cup {None}
  BY FoundTyped
<1>3. /\ f \in Call /\ f.pc = "seek" /\ f.at = p /\ f.existing = i /\ f.strict
  BY <1>2, RegistryAssumption DEF IdleCall, Call
<1>4. /\ IsIdle(c) /\ call' \in [Calls -> Call] /\ Others(c)
      /\ call'[c] = [f EXCEPT !.settled = LiveRows]
  BY <1>1, <1>3, BeginFacts
<1> HIDE DEF f
<1>5. QED
  BY <1>3, <1>4 DEF Call

LEMMA AdoptFacts ==
  ASSUME Typed, NEW c \in Calls, NEW p \in Paths, Adopt(c, p)
  PROVE  /\ IsIdle(c) /\ call' \in [Calls -> Call] /\ Others(c)
         /\ call'[c].pc = "check" /\ call'[c].at = p /\ call'[c].id = stored[p]
         /\ call'[c].settled = LiveRows
<1> DEFINE f == [IdleCall EXCEPT !.pc = "check", !.at = p, !.id = stored[p]]
<1>1. stored[p] \in Ids
  BY DEF Adopt, Typed, TypeOK
<1>2. /\ f \in Call /\ f.pc = "check" /\ f.at = p /\ f.id = stored[p]
  BY <1>1 DEF IdleCall, Call
<1>3. Begin(c, f)
  BY DEF Adopt
<1>4. /\ IsIdle(c) /\ call' \in [Calls -> Call] /\ Others(c)
      /\ call'[c] = [f EXCEPT !.settled = LiveRows]
  BY <1>2, <1>3, BeginFacts
<1> HIDE DEF f
<1>5. QED
  BY <1>2, <1>4 DEF Call

LEMMA UnregisterFacts ==
  ASSUME Typed, NEW c \in Calls, NEW p \in Paths, Unregister(c, p)
  PROVE  /\ IsIdle(c) /\ call' \in [Calls -> Call] /\ Others(c)
         /\ call'[c].pc = "delete" /\ call'[c].id \in RowsAt(p)
         /\ call'[c].settled = LiveRows
         /\ call'[c].wasDefault => default = call'[c].id
<1>1. PICK i \in RowsAt(p) :
        Begin(c, [IdleCall EXCEPT !.pc = "delete", !.id = i, !.wasDefault = WasDefault(i)])
  BY DEF Unregister
<1> DEFINE f == [IdleCall EXCEPT !.pc = "delete", !.id = i, !.wasDefault = WasDefault(i)]
<1>2. i \in Ids /\ WasDefault(i) \in BOOLEAN
  BY DEF RowsAt, WasDefault
<1>3. f \in Call /\ f.pc = "delete" /\ f.id = i /\ f.wasDefault = WasDefault(i)
  BY <1>2 DEF IdleCall, Call
<1>4. /\ IsIdle(c) /\ call' \in [Calls -> Call] /\ Others(c)
      /\ call'[c] = [f EXCEPT !.settled = LiveRows]
  BY <1>1, <1>3, BeginFacts
<1> HIDE DEF f
<1>5. /\ call'[c].pc = "delete" /\ call'[c].id = i /\ call'[c].settled = LiveRows
      /\ call'[c].wasDefault = WasDefault(i)
  BY <1>3, <1>4 DEF Call
<1>6. QED
  BY <1>4, <1>5 DEF WasDefault

LEMMA InitProjectFacts ==
  ASSUME Typed, NEW c \in Calls, NEW p \in Paths, InitProject(c, p)
  PROVE  /\ IsIdle(c) /\ call' \in [Calls -> Call] /\ Others(c)
         /\ call'[c].pc = "create" /\ call'[c].at = p /\ call'[c].existing \in Found(p)
         /\ ~call'[c].strict /\ call'[c].settled = LiveRows
         /\ call'[c].existed = (folder[p] # "nothing")
         /\ call'[c].id = IF stored[p] # None THEN stored[p]
                          ELSE IF folder[p] # "nothing" THEN call'[c].existing ELSE None
<1> DEFINE existed == folder[p] # "nothing"
           Id(i) == IF stored[p] # None THEN stored[p] ELSE IF existed THEN i ELSE None
           f(i) == [IdleCall EXCEPT !.pc = "create", !.at = p, !.existing = i,
                                    !.existed = existed, !.id = Id(i)]
<1>1. PICK i \in Found(p) : Begin(c, f(i))
  BY DEF InitProject
<1>2. i \in Ids \cup {None} /\ stored[p] \in Ids \cup {None}
  BY FoundTyped DEF Typed, TypeOK
<1>3. Id(i) \in Ids \cup {None} /\ existed \in BOOLEAN
  BY <1>2
<1>4. Id(i) = IF stored[p] # None THEN stored[p] ELSE IF folder[p] # "nothing" THEN i ELSE None
  OBVIOUS
<1> HIDE DEF Id
<1>5. /\ f(i) \in Call /\ f(i).pc = "create" /\ f(i).at = p /\ f(i).existing = i
      /\ ~f(i).strict /\ f(i).id = Id(i)
  BY <1>2, <1>3 DEF IdleCall, Call
<1>6. f(i).existed = (folder[p] # "nothing")
  BY DEF IdleCall
<1>7. /\ IsIdle(c) /\ call' \in [Calls -> Call] /\ Others(c)
      /\ call'[c] = [f(i) EXCEPT !.settled = LiveRows]
  BY <1>1, <1>5, BeginFacts
<1> HIDE DEF f
<1>8. /\ call'[c].pc = "create" /\ call'[c].at = p /\ call'[c].existing = i
      /\ ~call'[c].strict /\ call'[c].settled = LiveRows /\ call'[c].id = Id(i)
      /\ call'[c].existed = f(i).existed
  BY <1>5, <1>7 DEF Call
<1>9. QED
  BY <1>4, <1>6, <1>7, <1>8

LEMMA PruneFacts ==
  ASSUME Typed, NEW c \in Calls, Prune(c)
  PROVE  /\ IsIdle(c) /\ call' \in [Calls -> Call] /\ Others(c)
         /\ call'[c].pc = "prune" /\ call'[c].settled = LiveRows
         /\ \A e \in call'[c].left : e.id \in Ids /\ row[e.id] # None /\ e.path = row[e.id].path
<1> DEFINE listed == {[id |-> i, path |-> row[i].path] : i \in {j \in Ids : row[j] # None /\ row[j].active}}
           f == [IdleCall EXCEPT !.pc = "prune", !.left = listed]
<1>1. listed \subseteq [id : Ids, path : Paths]
  BY DEF Typed, TypeOK, Row
<1>2. \A e \in listed : e.id \in Ids /\ row[e.id] # None /\ e.path = row[e.id].path
  OBVIOUS
<1>3. Begin(c, f)
  BY DEF Prune
<1> HIDE DEF listed
<1>4. f \in Call /\ f.pc = "prune" /\ f.left = listed
  BY <1>1 DEF IdleCall, Call
<1>5. /\ IsIdle(c) /\ call' \in [Calls -> Call] /\ Others(c)
      /\ call'[c] = [f EXCEPT !.settled = LiveRows]
  BY <1>3, <1>4, BeginFacts
<1> HIDE DEF f
<1>6. call'[c].pc = "prune" /\ call'[c].settled = LiveRows /\ call'[c].left = listed
  BY <1>4, <1>5 DEF Call
<1>7. QED
  BY <1>2, <1>5, <1>6

\* The steps of a registration.
LEMMA IdentifiedFacts ==
  ASSUME Typed, NEW c \in Calls, NEW id \in Ids, Identified(c, id)
  PROVE  /\ call' \in [Calls -> Call] /\ Others(c)
         /\ \/ call'[c].pc = "idle" /\ call'[c].settled = {}
            \/ /\ call'[c].pc = "check" /\ call'[c].at = call[c].at
               /\ call'[c].settled = call[c].settled
               /\ call'[c].id = IF call[c].existing # None THEN call[c].existing ELSE id
               /\ call[c].strict => call[c].existing \in {None, id}
<1>1. CASE Return(c)
  BY <1>1, ReturnFacts
<1>2. CASE ~Return(c)
  <2> DEFINE next == IF call[c].existing # None THEN call[c].existing ELSE id
             moved(l) == [l EXCEPT !.pc = "check", !.existing = None, !.strict = FALSE, !.id = next]
  <2>1. /\ call[c].strict => call[c].existing \in {None, id}
        /\ call' = [call EXCEPT ![c].pc = "check", ![c].existing = None, ![c].strict = FALSE,
                                ![c].id = next]
    BY <1>2 DEF Identified
  <2>2. call \in [Calls -> Call] /\ next \in Ids \cup {None}
    BY CallTyped
  <2> HIDE DEF next
  <2>3. call' = [call EXCEPT ![c] = moved(call[c])]
    BY <2>1, <2>2
  <2>4. \A l \in Call : /\ moved(l) \in Call /\ moved(l).pc = "check" /\ moved(l).id = next
                        /\ moved(l).at = l.at /\ moved(l).settled = l.settled
    <3> SUFFICES ASSUME NEW l \in Call
                 PROVE  /\ moved(l) \in Call /\ moved(l).pc = "check" /\ moved(l).id = next
                        /\ moved(l).at = l.at /\ moved(l).settled = l.settled
      OBVIOUS
    <3>1. moved(l) \in Call
      BY <2>2 DEF Call
    <3>2. /\ moved(l).pc = "check" /\ moved(l).id = next
          /\ moved(l).at = l.at /\ moved(l).settled = l.settled
      BY DEF Call
    <3>3. QED
      BY <3>1, <3>2
  <2> HIDE DEF moved
  <2>5. /\ call' \in [Calls -> Call] /\ Others(c)
        /\ call'[c].pc = "check" /\ call'[c].id = next
        /\ call'[c].at = call[c].at /\ call'[c].settled = call[c].settled
    BY <2>2, <2>3, <2>4 DEF Others, Same
  <2>6. QED
    BY <2>1, <2>5 DEF next
<1>3. QED
  BY <1>1, <1>2

LEMMA CandidatesTyped == \A i \in Ids \cup {None} : Candidates(i) \subseteq Ids
BY RegistryAssumption DEF Candidates

LEMMA UpsertFacts ==
  ASSUME Typed, NEW c \in Calls, Upsert(c)
  PROVE  /\ call' \in [Calls -> Call] /\ Others(c)
         /\ call'[c].pc \in {"idle", "choose"} /\ call'[c].settled = {}
         /\ call'[c].pc = "choose" => call'[c].id = call[c].id
         /\ \A d \in Calls : call'[d].settled \subseteq call[d].settled
         /\ ~(row[call[c].id] # None /\ row[call[c].id].path = call[c].at) =>
              \A d \in Calls : call[c].id \notin call'[d].settled
<1> DEFINE next == IF call[c].chosen THEN [IdleCall EXCEPT !.pc = "choose", !.id = call[c].id]
                   ELSE IdleCall
           S == IF row[call[c].id] # None /\ row[call[c].id].path = call[c].at THEN {} ELSE {call[c].id}
<1>1. Unsettle(c, next, S)
  BY DEF Upsert
<1>2. /\ next \in Call /\ next.pc \in {"idle", "choose"} /\ next.settled = {}
      /\ next.pc = "choose" => next.id = call[c].id
  BY CallTyped DEF IdleCall, Call
<1> HIDE DEF next
<1>3. /\ call' \in [Calls -> Call] /\ Others(c)
      /\ call'[c] = [next EXCEPT !.settled = next.settled \ S]
      /\ \A d \in Calls \ {c} : call'[d].settled = call[d].settled \ S
  BY <1>1, <1>2, UnsettleFacts
<1>4. call'[c].pc = next.pc /\ call'[c].id = next.id /\ call'[c].settled = {}
  BY <1>2, <1>3 DEF Call
<1>5. \A d \in Calls : call'[d].settled \subseteq call[d].settled \ S
  BY <1>3, <1>4
<1>6. QED
  BY <1>2, <1>3, <1>4, <1>5

LEMMA DeleteFacts ==
  ASSUME Typed, NEW c \in Calls, Delete(c)
  PROVE  /\ call' \in [Calls -> Call] /\ Others(c)
         /\ call'[c].pc = (IF call[c].wasDefault THEN "clear" ELSE "idle")
         /\ call'[c].pc = "clear" => call'[c].wasDefault
         /\ call'[c].settled = {}
         /\ \A d \in Calls : /\ call'[d].settled \subseteq call[d].settled
                             /\ call[c].id \notin call'[d].settled
<1> DEFINE next == IF call[c].wasDefault THEN [IdleCall EXCEPT !.pc = "clear", !.wasDefault = TRUE]
                   ELSE IdleCall
<1>1. Unsettle(c, next, {call[c].id})
  BY DEF Delete
<1>2. /\ next \in Call /\ next.pc = (IF call[c].wasDefault THEN "clear" ELSE "idle")
      /\ next.pc = "clear" => next.wasDefault
      /\ next.settled = {}
  BY DEF IdleCall, Call
<1> HIDE DEF next
<1>3. /\ call' \in [Calls -> Call] /\ Others(c)
      /\ call'[c] = [next EXCEPT !.settled = next.settled \ {call[c].id}]
      /\ \A d \in Calls \ {c} : call'[d].settled = call[d].settled \ {call[c].id}
  BY <1>1, <1>2, UnsettleFacts
<1>4. call'[c].pc = next.pc /\ call'[c].wasDefault = next.wasDefault /\ call'[c].settled = {}
  BY <1>2, <1>3 DEF Call
<1>5. \A d \in Calls : call'[d].settled \subseteq call[d].settled \ {call[c].id}
  BY <1>3, <1>4
<1>6. QED
  BY <1>2, <1>3, <1>4, <1>5

\* The steps of an init.
LEMMA ReadStoredFacts ==
  ASSUME Typed, NEW c \in Calls, ReadStored(c)
  PROVE  /\ call' \in [Calls -> Call] /\ Others(c) /\ SameRest(call'[c], call[c])
         /\ call'[c].existed = call[c].existed /\ call'[c].existing = call[c].existing
         /\ \/ call'[c].pc = "drop" /\ stored[call[c].at] # None
            \/ call'[c].pc = "identify" /\ stored[call[c].at] = None /\ call'[c].id = call[c].id
<1>1. call \in [Calls -> Call] /\ call[c].at \in Paths
  BY CallTyped DEF ReadStored, CallFits, InFolder
<1>2. CASE stored[call[c].at] # None
  <2> DEFINE id == stored[call[c].at]
  <2>1. call' = [call EXCEPT ![c] = [call[c] EXCEPT !.pc = "drop", !.id = id]]
    BY <1>1, <1>2 DEF ReadStored
  <2>2. id \in Ids
    BY <1>1, <1>2 DEF Typed, TypeOK
  <2> HIDE DEF id
  <2>3. \A l \in Call : LET k == [l EXCEPT !.pc = "drop", !.id = id]
                        IN /\ k \in Call /\ k.pc = "drop" /\ SameRest(k, l)
                           /\ k.existed = l.existed /\ k.existing = l.existing
    BY <2>2 DEF Call, SameRest
  <2>4. QED
    BY <1>1, <1>2, <2>1, <2>3 DEF Others, Same
<1>3. CASE stored[call[c].at] = None
  <2>1. Goto(c, "identify")
    BY <1>3 DEF ReadStored
  <2>2. QED
    BY <1>3, <2>1, GotoFacts DEF Points, SameData
<1>4. QED
  BY <1>2, <1>3

LEMMA IdentifyFacts ==
  ASSUME Typed, NEW c \in Calls, Identify(c)
  PROVE  /\ call' \in [Calls -> Call] /\ Others(c)
         /\ call'[c].at = call[c].at /\ call'[c].strict = call[c].strict
         /\ call'[c].existed = call[c].existed /\ call'[c].existing = call[c].existing
         /\ call'[c].pc = "drop"
         /\ \E i \in Ids :
              /\ i \in Candidates(call[c].id)
              /\ stored' = [stored EXCEPT ![call[c].at] = i] /\ used' = used \cup {i}
              /\ replaced' = IF stored[call[c].at] \in {None, i} THEN replaced
                             ELSE replaced \cup {call[c].at}
              /\ \A d \in Calls : call'[d].settled = call[d].settled \ ({stored[call[c].at]} \ {i})
<1>1. call \in [Calls -> Call] /\ call[c] \in Call /\ call[c].id \in Ids \cup {None}
  BY CallTyped
<1> DEFINE next(i) == [call[c] EXCEPT !.pc = "drop", !.id = i]
           S(i) == {stored[call[c].at]} \ {i}
<1>2. PICK i \in Candidates(call[c].id) :
        /\ stored' = [stored EXCEPT ![call[c].at] = i]
        /\ used' = used \cup {i}
        /\ replaced' = IF stored[call[c].at] \in {None, i} THEN replaced
                       ELSE replaced \cup {call[c].at}
        /\ Unsettle(c, next(i), S(i))
  BY DEF Identify
<1>3. i \in Ids
  BY <1>1, CandidatesTyped
<1>4. /\ next(i) \in Call /\ next(i).pc = "drop" /\ next(i).settled = call[c].settled
      /\ next(i).at = call[c].at /\ next(i).strict = call[c].strict
      /\ next(i).existed = call[c].existed /\ next(i).existing = call[c].existing
  BY <1>1, <1>3 DEF Call
<1> HIDE DEF next
<1>5. /\ call' \in [Calls -> Call] /\ Others(c)
      /\ call'[c] = [next(i) EXCEPT !.settled = next(i).settled \ S(i)]
      /\ \A d \in Calls \ {c} : call'[d].settled = call[d].settled \ S(i)
  BY <1>2, <1>4, UnsettleFacts
<1>6. /\ call'[c].pc = "drop" /\ call'[c].settled = call[c].settled \ S(i)
      /\ call'[c].at = call[c].at /\ call'[c].strict = call[c].strict
      /\ call'[c].existed = call[c].existed /\ call'[c].existing = call[c].existing
  BY <1>4, <1>5 DEF Call
<1>7. QED
  BY <1>2, <1>3, <1>5, <1>6

Stale(c) == IF call[c].existed THEN {} ELSE {call[c].existing} \ {None, call[c].id}

LEMMA DropStaleFacts ==
  ASSUME Typed, NEW c \in Calls, DropStale(c)
  PROVE  /\ call' \in [Calls -> Call] /\ Others(c)
         /\ call'[c].pc = "lookup" /\ call'[c].at = call[c].at /\ call'[c].strict = call[c].strict
         /\ row' = [i \in Ids |-> IF i \in Stale(c) THEN None ELSE row[i]]
         /\ \A d \in Calls : call'[d].settled = call[d].settled \ Stale(c)
<1> DEFINE next == [call[c] EXCEPT !.pc = "lookup", !.id = None, !.existed = FALSE]
<1>1. Unsettle(c, next, Stale(c)) /\ row' = [i \in Ids |-> IF i \in Stale(c) THEN None ELSE row[i]]
  BY DEF DropStale, Stale
<1>2. call[c] \in Call
  BY CallTyped
<1>3. /\ next \in Call /\ next.pc = "lookup" /\ next.strict = call[c].strict /\ next.at = call[c].at
      /\ next.settled = call[c].settled
  BY <1>2 DEF Call
<1> HIDE DEF next
<1>4. /\ call' \in [Calls -> Call] /\ Others(c)
      /\ call'[c] = [next EXCEPT !.settled = next.settled \ Stale(c)]
      /\ \A d \in Calls \ {c} : call'[d].settled = call[d].settled \ Stale(c)
  BY <1>1, <1>3, UnsettleFacts
<1>5. /\ call'[c].pc = next.pc /\ call'[c].strict = next.strict
      /\ call'[c].at = next.at /\ call'[c].settled = next.settled \ Stale(c)
  BY <1>3, <1>4 DEF Call
<1>6. QED
  BY <1>1, <1>3, <1>4, <1>5

LEMMA LookupFacts ==
  ASSUME Typed, NEW c \in Calls, Lookup(c)
  PROVE  /\ call' \in [Calls -> Call] /\ Others(c) /\ SameRest(call'[c], call[c])
         /\ call'[c].pc = "seek" /\ call'[c].existing \in Found(call[c].at)
<1>1. call \in [Calls -> Call]
  BY CallTyped
<1>2. PICK i \in Found(call[c].at) : call' = [call EXCEPT ![c].pc = "seek", ![c].existing = i]
  BY DEF Lookup
<1>3. i \in Ids \cup {None}
  BY FoundTyped
<1>4. call' = [call EXCEPT ![c] = [call[c] EXCEPT !.pc = "seek", !.existing = i]]
  BY <1>1, <1>2
<1>5. \A l \in Call : LET k == [l EXCEPT !.pc = "seek", !.existing = i]
                      IN k \in Call /\ k.pc = "seek" /\ k.existing = i /\ SameRest(k, l)
  BY <1>3 DEF Call, SameRest
<1>6. /\ call' \in [Calls -> Call] /\ SameRest(call'[c], call[c]) /\ call'[c].pc = "seek"
      /\ call'[c].existing = i /\ \A d \in Calls \ {c} : call'[d] = call[d]
  BY <1>1, <1>4, <1>5
<1>7. QED
  BY <1>2, <1>6 DEF Others, Same

LEMMA PruneNextFacts ==
  ASSUME Typed, NEW c \in Calls, PruneNext(c)
  PROVE  /\ call' \in [Calls -> Call] /\ Others(c)
         /\ \E e \in call[c].left :
              row' = IF folder[e.path] # "store" /\ row[e.id] # None
                     THEN [row EXCEPT ![e.id].active = FALSE] ELSE row
         /\ \/ call'[c].pc = "idle" /\ call'[c].settled = {}
            \/ /\ call'[c].pc = "prune" /\ call'[c].left \subseteq call[c].left
               /\ SameRest(call'[c], call[c])
<1>1. call \in [Calls -> Call] /\ call[c].pc = "prune"
  BY CallTyped DEF PruneNext
<1>2. PICK e \in call[c].left :
        /\ row' = IF folder[e.path] # "store" /\ row[e.id] # None
                  THEN [row EXCEPT ![e.id].active = FALSE] ELSE row
        /\ \/ Return(c)
           \/ call' = [call EXCEPT ![c].left = @ \ {e}]
  BY DEF PruneNext
<1>3. CASE Return(c)
  BY <1>2, <1>3, ReturnFacts
<1>4. CASE call' = [call EXCEPT ![c].left = @ \ {e}]
  <2>1. call' = [call EXCEPT ![c] = [call[c] EXCEPT !.left = call[c].left \ {e}]]
    BY <1>1, <1>4
  <2>2. \A l \in Call : LET k == [l EXCEPT !.left = l.left \ {e}]
                        IN k \in Call /\ k.pc = l.pc /\ k.left \subseteq l.left /\ SameRest(k, l)
    BY DEF Call, SameRest
  <2>3. QED
    BY <1>1, <1>2, <2>1, <2>2 DEF Others, Same
<1>5. QED
  BY <1>2, <1>3, <1>4

-----------------------------------------------------------------------------
(* Types. *)

StandingType == [id : Ids \cup {None}, by : Calls \cup {None}]

\* The variables without the calls.
WorldTyped ==
  /\ folder \in [Paths -> {"nothing", "layout", "store"}]
  /\ stored \in [Paths -> Ids \cup {None}]
  /\ row \in [Ids -> Row \cup {None}]
  /\ default \in Ids \cup {None} /\ confirmed \in Ids \cup {None}
  /\ used \subseteq Ids /\ changes \in 0..MaxChanges
  /\ touched \subseteq Paths /\ replaced \subseteq Paths
  /\ standing \in StandingType
  /\ \A p \in Paths : folder[p] # "store" => stored[p] = None

LEMMA WorldOfTyped == Typed => WorldTyped
BY DEF Typed, TypeOK, WorldTyped, StandingType

Kept == \A p \in Paths : folder[p] = "store" => folder'[p] = "store"

HasId == {"check", "upsert", "choose", "confirm", "delete"}

\* One call moves on, the others lose settled rows, and the stores stay.
LEMMA TypedStep ==
  ASSUME Typed, NEW c \in Calls, call' \in [Calls -> Call], Others(c), WorldTyped', Kept,
         call'[c].pc = "idle" => call'[c].settled = {},
         call'[c].pc \in InFolder \cup {"create"} => call'[c].at \in Paths,
         call'[c].pc \in InFolder => folder'[call'[c].at] = "store",
         call'[c].pc \in HasId => call'[c].id # None
  PROVE  Typed'
<1>1. ASSUME NEW d \in Calls, d # c
      PROVE  /\ call'[d].pc = "idle" => call'[d].settled = {}
             /\ call'[d].pc \in InFolder \cup {"create"} => call'[d].at \in Paths
             /\ call'[d].pc \in InFolder => folder'[call'[d].at] = "store"
             /\ call'[d].pc \in HasId => call'[d].id # None
  <2>1. Same(call'[d], call[d]) /\ CallFits(call[d])
    BY <1>1, CallTyped DEF Others
  <2>2. call[d].pc \in HasId => call[d].id # None
    BY DEF Typed, TypeOK, HasId
  <2>3. QED
    BY <2>1, <2>2 DEF Same, CallFits, Kept, InFolder
<1>2. \A d \in Calls :
        /\ call'[d].pc = "idle" => call'[d].settled = {}
        /\ call'[d].pc \in InFolder \cup {"create"} => call'[d].at \in Paths
        /\ call'[d].pc \in InFolder => folder'[call'[d].at] = "store"
        /\ call'[d].pc \in HasId => call'[d].id # None
  BY <1>1
<1>3. TypeOK'
  BY <1>2 DEF WorldTyped, TypeOK, StandingType, HasId
<1>4. QED
  BY <1>2, <1>3 DEF Typed, CallFits

LEMMA TypedInit == Init => Typed
<1> SUFFICES ASSUME Init PROVE Typed
  OBVIOUS
<1>1. WorldTyped
  BY RegistryAssumption DEF Init, WorldTyped, StandingType, Nothing
<1>2. \A c \in Calls : call[c] = IdleCall
  BY DEF Init
<1>3. call \in [Calls -> Call]
  BY IdleFacts DEF Init
<1>4. QED
  BY <1>1, <1>2, <1>3, IdleFacts DEF Typed, TypeOK, WorldTyped, StandingType, CallFits, InFolder

\* Steps that leave all but the calls alone.
LEMMA WorldStays ==
  ASSUME Typed, UNCHANGED <<stores, graph, used, world, standing>>
  PROVE  WorldTyped' /\ Kept
<1>1. WorldTyped
  BY WorldOfTyped
<1>2. QED
  BY <1>1 DEF WorldTyped, stores, graph, world, Kept

LEMMA RegistrationTyped ==
  ASSUME Typed, NEW c \in Calls, Registration(c)
  PROVE  Typed'
<1>1. ASSUME NEW id \in Ids, Identified(c, id), WorldTyped', Kept, call[c].pc \in InFolder
      PROVE  Typed'
  <2>1. CallFits(call[c])
    BY CallTyped
  <2>2. /\ call' \in [Calls -> Call] /\ Others(c)
        /\ \/ call'[c].pc = "idle" /\ call'[c].settled = {}
           \/ /\ call'[c].pc = "check" /\ call'[c].at = call[c].at
              /\ call'[c].id # None
    BY <1>1, IdentifiedFacts, RegistryAssumption
  <2>3. call'[c].pc = "check" => call'[c].at \in Paths /\ folder'[call'[c].at] = "store"
    BY <1>1, <2>1, <2>2 DEF CallFits, Kept
  <2>4. QED
    BY <1>1, <2>2, <2>3, TypedStep DEF HasId, InFolder
<1>2. CASE Seek(c)
  <2>1. WorldTyped' /\ Kept /\ call[c].pc = "seek" /\ call[c].at \in Paths /\ folder[call[c].at] = "store"
    BY <1>2, WorldStays, CallTyped DEF Seek, CallFits, InFolder
  <2>2. CASE stored[call[c].at] # None
    BY <1>1, <1>2, <2>1, <2>2, WorldOfTyped DEF Seek, WorldTyped, InFolder
  <2>3. CASE stored[call[c].at] = None
    <3>1. Goto(c, "mint")
      BY <1>2, <2>3 DEF Seek
    <3>2. call' \in [Calls -> Call] /\ Others(c) /\ call'[c].pc = "mint" /\ call'[c].at = call[c].at
      BY <3>1, GotoFacts DEF Points, SameData, SameRest
    <3>3. QED
      BY <2>1, <3>2, TypedStep DEF Kept, HasId, InFolder
  <2>4. QED
    BY <2>2, <2>3
<1>3. CASE Mint(c)
  <2>1. WorldTyped /\ call[c].pc = "mint" /\ call[c].at \in Paths /\ folder[call[c].at] = "store"
    BY <1>3, WorldOfTyped, CallTyped DEF Mint, CallFits, InFolder
  <2>2. CASE stored[call[c].at] # None
    <3>1. UNCHANGED <<stores, graph, used, world, standing>> /\ Identified(c, stored[call[c].at])
      BY <1>3, <2>2 DEF Mint, stores
    <3>2. QED
      BY <1>1, <2>1, <2>2, <3>1, WorldStays DEF WorldTyped, InFolder
  <2>3. CASE stored[call[c].at] = None
    <3>1. PICK i \in Candidates(call[c].existing) :
            /\ stored' = [stored EXCEPT ![call[c].at] = i]
            /\ used' = used \cup {i}
            /\ Identified(c, i)
      BY <1>3, <2>3 DEF Mint
    <3>2. i \in Ids
      BY CandidatesTyped, CallTyped
    <3>3. WorldTyped' /\ Kept
      BY <1>3, <2>1, <3>1, <3>2 DEF Mint, WorldTyped, Kept, graph, world
    <3>4. QED
      BY <1>1, <2>1, <3>1, <3>2, <3>3 DEF InFolder
  <2>4. QED
    BY <2>2, <2>3
<1>4. CASE Check(c)
  <2>1. WorldTyped' /\ Kept /\ call[c].pc = "check" /\ call[c].at \in Paths /\ folder[call[c].at] = "store"
        /\ call[c].id # None
    BY <1>4, WorldStays, CallTyped DEF Check, CallFits, InFolder, Typed, TypeOK
  <2>2. CASE Return(c)
    BY <2>1, <2>2, ReturnFacts, TypedStep DEF HasId, InFolder
  <2>3. CASE Goto(c, "upsert")
    <3>1. call' \in [Calls -> Call] /\ Others(c) /\ call'[c].pc = "upsert" /\ call'[c].at = call[c].at
          /\ call'[c].id = call[c].id
      BY <2>3, GotoFacts DEF Points, SameData, SameRest
    <3>2. QED
      BY <2>1, <3>1, TypedStep DEF Kept, HasId, InFolder
  <2>4. QED
    BY <1>4, <2>2, <2>3 DEF Check
<1>5. CASE Upsert(c)
  <2>1. WorldTyped /\ call[c].pc = "upsert" /\ call[c].at \in Paths /\ call[c].id \in Ids /\ call[c].id # None
    <3>1. call[c].pc = "upsert"
      BY <1>5 DEF Upsert
    <3>2. call[c].id # None
      BY <3>1 DEF Typed, TypeOK
    <3>3. QED
      BY <3>1, <3>2, WorldOfTyped, CallTyped DEF CallFits, InFolder
  <2>2. [path |-> call[c].at, active |-> TRUE] \in Row
    BY <2>1 DEF Row
  <2>3. WorldTyped' /\ Kept
    BY <1>5, <2>1, <2>2 DEF Upsert, WorldTyped, Kept, stores, world
  <2>4. QED
    BY <1>5, <2>1, <2>3, UpsertFacts, TypedStep DEF HasId, InFolder
<1>6. QED
  BY <1>2, <1>3, <1>4, <1>5 DEF Registration

LEMMA InitializationTyped ==
  ASSUME Typed, NEW c \in Calls, Initialization(c)
  PROVE  Typed'
<1>1. CASE Create(c)
  <2>1. WorldTyped /\ call[c].pc = "create" /\ call[c].at \in Paths /\ Goto(c, "read")
    BY <1>1, WorldOfTyped, CallTyped DEF Create, CallFits
  <2>2. WorldTyped' /\ Kept /\ folder'[call[c].at] = "store"
    BY <1>1, <2>1 DEF Create, WorldTyped, Kept, graph, world
  <2>3. call' \in [Calls -> Call] /\ Others(c) /\ call'[c].pc = "read" /\ call'[c].at = call[c].at
    BY <2>1, GotoFacts DEF Points, SameData, SameRest
  <2>4. QED
    BY <2>1, <2>2, <2>3, TypedStep DEF HasId, InFolder
<1>2. CASE ReadStored(c)
  <2>1. WorldTyped' /\ Kept /\ call[c].at \in Paths /\ folder[call[c].at] = "store"
    BY <1>2, WorldStays, CallTyped DEF ReadStored, CallFits, InFolder
  <2>2. call' \in [Calls -> Call] /\ Others(c) /\ call'[c].pc \in {"drop", "identify"}
        /\ call'[c].at = call[c].at
    BY <1>2, ReadStoredFacts DEF SameRest
  <2>3. QED
    BY <2>1, <2>2, TypedStep DEF Kept, HasId, InFolder
<1>3. CASE Identify(c)
  <2>1. WorldTyped /\ call[c].at \in Paths /\ folder[call[c].at] = "store"
    BY <1>3, WorldOfTyped, CallTyped DEF Identify, CallFits, InFolder
  <2>2. PICK i \in Ids : stored' = [stored EXCEPT ![call[c].at] = i] /\ used' = used \cup {i}
    BY <1>3, IdentifyFacts
  <2>3. replaced' \subseteq Paths
    BY <1>3, <2>1, IdentifyFacts DEF WorldTyped
  <2>4. WorldTyped' /\ Kept
    BY <1>3, <2>1, <2>2, <2>3 DEF Identify, WorldTyped, Kept, graph
  <2>5. call' \in [Calls -> Call] /\ Others(c) /\ call'[c].pc = "drop" /\ call'[c].at = call[c].at
    BY <1>3, IdentifyFacts
  <2>6. QED
    BY <2>1, <2>4, <2>5, TypedStep DEF Kept, HasId, InFolder
<1>4. CASE DropStale(c)
  <2>1. WorldTyped /\ call[c].at \in Paths /\ folder[call[c].at] = "store"
    BY <1>4, WorldOfTyped, CallTyped DEF DropStale, CallFits, InFolder
  <2>2. /\ call' \in [Calls -> Call] /\ Others(c) /\ call'[c].pc = "lookup" /\ call'[c].at = call[c].at
        /\ row' = [i \in Ids |-> IF i \in Stale(c) THEN None ELSE row[i]]
    BY <1>4, DropStaleFacts
  <2>3. WorldTyped' /\ Kept
    BY <1>4, <2>1, <2>2 DEF DropStale, WorldTyped, Kept, stores, world
  <2>4. QED
    BY <2>1, <2>2, <2>3, TypedStep DEF Kept, HasId, InFolder
<1>5. CASE Lookup(c)
  <2>1. WorldTyped' /\ Kept /\ call[c].at \in Paths /\ folder[call[c].at] = "store"
    BY <1>5, WorldStays, CallTyped DEF Lookup, CallFits, InFolder
  <2>2. call' \in [Calls -> Call] /\ Others(c) /\ call'[c].pc = "seek" /\ call'[c].at = call[c].at
    BY <1>5, LookupFacts DEF SameRest
  <2>3. QED
    BY <2>1, <2>2, TypedStep DEF Kept, HasId, InFolder
<1>6. QED
  BY <1>1, <1>2, <1>3, <1>4, <1>5 DEF Initialization

LEMMA DefaultingTyped ==
  ASSUME Typed, NEW c \in Calls, Defaulting(c)
  PROVE  Typed'
<1>1. WorldTyped /\ (call[c].pc \in HasId => call[c].id \in Ids)
  BY WorldOfTyped, CallTyped DEF HasId, Typed, TypeOK
<1>2. CASE Choose(c)
  <2>1. call[c].id \in Ids
    BY <1>1, <1>2 DEF Choose, HasId
  <2>2. WorldTyped' /\ Kept
    BY <1>1, <1>2, <2>1 DEF Choose, WorldTyped, Kept, stores, world, StandingType, Nothing
  <2>3. CASE Goto(c, "confirm")
    <3>1. call' \in [Calls -> Call] /\ Others(c) /\ call'[c].pc = "confirm" /\ call'[c].id = call[c].id
      BY <2>3, GotoFacts DEF Points, SameData
    <3>2. QED
      BY <2>1, <2>2, <3>1, RegistryAssumption, TypedStep DEF HasId, InFolder
  <2>4. CASE Return(c)
    BY <2>2, <2>4, ReturnFacts, TypedStep DEF HasId, InFolder
  <2>5. QED
    BY <1>2, <2>3, <2>4 DEF Choose
<1>3. CASE Confirm(c)
  <2>1. call[c].id \in Ids /\ Return(c)
    BY <1>1, <1>3 DEF Confirm, HasId
  <2>2. WorldTyped' /\ Kept
    BY <1>1, <1>3, <2>1 DEF Confirm, WorldTyped, Kept, stores, world, StandingType, Nothing
  <2>3. QED
    BY <2>1, <2>2, ReturnFacts, TypedStep DEF HasId, InFolder
<1>4. CASE Delete(c)
  <2>1. WorldTyped' /\ Kept
    BY <1>1, <1>4 DEF Delete, WorldTyped, Kept, stores, world, StandingType, Nothing
  <2>2. QED
    BY <1>4, <2>1, DeleteFacts, TypedStep DEF HasId, InFolder
<1>5. CASE Clear(c)
  <2>1. WorldTyped' /\ Kept /\ Return(c)
    BY <1>1, <1>5 DEF Clear, WorldTyped, Kept, stores, world
  <2>2. QED
    BY <2>1, ReturnFacts, TypedStep DEF HasId, InFolder
<1>6. QED
  BY <1>2, <1>3, <1>4, <1>5 DEF Defaulting

LEMMA BeginningTyped ==
  ASSUME Typed, NEW c \in Calls, NEW p \in Paths,
         \/ \E chosen \in Choices : Register(c, p, chosen)
         \/ Adopt(c, p) \/ Unregister(c, p) \/ InitProject(c, p)
  PROVE  Typed'
<1>1. WorldTyped /\ WorldTyped' /\ Kept
  BY WorldOfTyped, WorldStays DEF Register, Adopt, Unregister, InitProject
<1>2. CASE \E chosen \in Choices : Register(c, p, chosen)
  <2>1. folder[p] = "store"
    BY <1>2 DEF Register
  <2>2. call' \in [Calls -> Call] /\ Others(c) /\ call'[c].pc = "seek" /\ call'[c].at = p
    BY <1>2, RegisterFacts
  <2>3. QED
    BY <1>1, <2>1, <2>2, TypedStep DEF Kept, HasId, InFolder
<1>3. CASE Adopt(c, p)
  <2>1. stored[p] # None /\ folder[p] = "store"
    BY <1>1, <1>3 DEF Adopt, WorldTyped
  <2>2. QED
    BY <1>1, <1>3, <2>1, AdoptFacts, TypedStep DEF Kept, HasId, InFolder
<1>4. CASE Unregister(c, p)
  <2>1. /\ call' \in [Calls -> Call] /\ Others(c) /\ call'[c].pc = "delete" /\ call'[c].id # None
    BY <1>4, UnregisterFacts, FoundTyped, RegistryAssumption
  <2>2. QED
    BY <1>1, <2>1, TypedStep DEF HasId, InFolder
<1>5. CASE InitProject(c, p)
  <2>1. call' \in [Calls -> Call] /\ Others(c) /\ call'[c].pc = "create" /\ call'[c].at = p
    BY <1>5, InitProjectFacts
  <2>2. QED
    BY <1>1, <2>1, TypedStep DEF HasId, InFolder
<1>6. QED
  BY <1>2, <1>3, <1>4, <1>5

LEMMA PruneTyped ==
  ASSUME Typed, NEW c \in Calls, Prune(c)
  PROVE  Typed'
<1>1. WorldTyped' /\ Kept
  BY WorldStays DEF Prune
<1>2. call' \in [Calls -> Call] /\ Others(c) /\ call'[c].pc = "prune"
  BY PruneFacts
<1>3. QED
  BY <1>1, <1>2, TypedStep DEF HasId, InFolder

LEMMA PruneNextTyped ==
  ASSUME Typed, NEW c \in Calls, PruneNext(c)
  PROVE  Typed'
<1>1. WorldTyped /\ call[c].left \subseteq [id : Ids, path : Paths]
  BY WorldOfTyped, CallTyped
<1>2. PICK e \in call[c].left :
        row' = IF folder[e.path] # "store" /\ row[e.id] # None
               THEN [row EXCEPT ![e.id].active = FALSE] ELSE row
  BY PruneNextFacts
<1>3. e.id \in Ids
  BY <1>1, <1>2
<1>4. row' \in [Ids -> Row \cup {None}]
  <2>1. CASE row' = row
    BY <1>1, <2>1 DEF WorldTyped
  <2>2. CASE row[e.id] # None /\ row' = [row EXCEPT ![e.id].active = FALSE]
    <3>1. row[e.id] \in Row /\ row \in [Ids -> Row \cup {None}]
      BY <1>1, <1>3, <2>2 DEF WorldTyped
    <3>2. row' = [row EXCEPT ![e.id] = [row[e.id] EXCEPT !.active = FALSE]]
      BY <2>2
    <3>3. [row[e.id] EXCEPT !.active = FALSE] \in Row
      BY <3>1 DEF Row
    <3>4. QED
      BY <3>1, <3>2, <3>3
  <2>3. QED
    BY <1>2, <2>1, <2>2
<1>5. WorldTyped' /\ Kept
  BY <1>1, <1>4 DEF PruneNext, WorldTyped, Kept, stores, world
<1>6. QED
  BY <1>5, PruneNextFacts, TypedStep DEF HasId, InFolder

\* The operator works while no call is under way.
LEMMA OperatorFacts ==
  ASSUME Typed, Operator
  PROVE  /\ \A c \in Calls : IsIdle(c)
         /\ UNCHANGED <<graph, call, used, replaced, standing>>
         /\ WorldTyped' /\ touched \subseteq touched'
         /\ \A p \in Paths \ touched' :
              \/ folder'[p] = folder[p] /\ stored'[p] = stored[p]
              \/ folder[p] = "store" /\ folder'[p] # "nothing" /\ stored'[p] = None
<1>1. WorldTyped
  BY WorldOfTyped
<1>2. ASSUME NEW ps \in SUBSET Paths, Change(ps)
      PROVE  /\ \A c \in Calls : IsIdle(c)
             /\ UNCHANGED <<graph, call, used, replaced, standing>>
             /\ changes' \in 0..MaxChanges /\ touched' = touched \cup ps
  <2>1. changes + 1 \in 0..MaxChanges
    BY <1>1, <1>2, RegistryAssumption DEF Change, WorldTyped
  <2>2. QED
    BY <1>2, <2>1 DEF Change
<1>3. ASSUME NEW p \in Paths, NEW q \in Paths, NEW left \in {"nothing", folder[p]}, Transfer(p, q, left)
      PROVE  /\ folder' \in [Paths -> {"nothing", "layout", "store"}]
             /\ stored' \in [Paths -> Ids \cup {None}]
             /\ \A r \in Paths : folder'[r] # "store" => stored'[r] = None
             /\ \A r \in Paths \ {q} : r # p \/ left = folder[p] =>
                  folder'[r] = folder[r] /\ stored'[r] = stored[r]
  <2>1. p # q /\ folder[p] # "nothing"
    BY <1>3 DEF Transfer
  <2>2. /\ folder' = [folder EXCEPT ![q] = folder[p], ![p] = left]
        /\ stored' = [stored EXCEPT ![q] = stored[p], ![p] = IF left = "nothing" THEN None ELSE stored[p]]
    BY <1>3 DEF Transfer
  <2>3. left \in {"nothing", "layout", "store"}
    BY <1>1 DEF WorldTyped
  <2>4. /\ folder' \in [Paths -> {"nothing", "layout", "store"}]
        /\ stored' \in [Paths -> Ids \cup {None}]
    BY <1>1, <2>2, <2>3 DEF WorldTyped
  <2>5. \A r \in Paths : /\ folder'[r] = IF r = p THEN left ELSE IF r = q THEN folder[p] ELSE folder[r]
                         /\ stored'[r] = IF r = p THEN IF left = "nothing" THEN None ELSE stored[p]
                                         ELSE IF r = q THEN stored[p] ELSE stored[r]
    BY <1>1, <2>1, <2>2 DEF WorldTyped
  <2>6. QED
    BY <1>1, <2>1, <2>4, <2>5 DEF WorldTyped
<1>4. ASSUME NEW p \in Paths, NEW q \in Paths, Move(p, q) \/ Copy(p, q)
      PROVE  /\ \A c \in Calls : IsIdle(c)
             /\ UNCHANGED <<graph, call, used, replaced, standing>>
             /\ WorldTyped' /\ touched \subseteq touched'
             /\ \A r \in Paths \ touched' : folder'[r] = folder[r] /\ stored'[r] = stored[r]
  <2>1. CASE Move(p, q)
    <3>1. Transfer(p, q, "nothing") /\ Change({p, q})
      BY <2>1 DEF Move
    <3>2. /\ \A c \in Calls : IsIdle(c)
          /\ UNCHANGED <<graph, call, used, replaced, standing>>
          /\ changes' \in 0..MaxChanges /\ touched' = touched \cup {p, q}
      BY <3>1, <1>2
    <3>3. QED
      BY <1>1, <1>3, <3>1, <3>2 DEF WorldTyped, graph
  <2>2. CASE Copy(p, q)
    <3>1. Transfer(p, q, folder[p]) /\ Change({q})
      BY <2>2 DEF Copy
    <3>2. /\ \A c \in Calls : IsIdle(c)
          /\ UNCHANGED <<graph, call, used, replaced, standing>>
          /\ changes' \in 0..MaxChanges /\ touched' = touched \cup {q}
      BY <3>1, <1>2
    <3>3. QED
      BY <1>1, <1>3, <3>1, <3>2 DEF WorldTyped, graph
  <2>3. QED
    BY <1>4, <2>1, <2>2
<1>5. ASSUME NEW p \in Paths, Remove(p)
      PROVE  /\ \A c \in Calls : IsIdle(c)
             /\ UNCHANGED <<graph, call, used, replaced, standing>>
             /\ WorldTyped' /\ touched \subseteq touched'
             /\ \A r \in Paths \ touched' : folder'[r] = folder[r] /\ stored'[r] = stored[r]
  <2>1. /\ \A c \in Calls : IsIdle(c)
        /\ UNCHANGED <<graph, call, used, replaced, standing>>
        /\ changes' \in 0..MaxChanges /\ touched' = touched \cup {p}
    BY <1>2, <1>5 DEF Remove
  <2>2. QED
    BY <1>1, <1>5, <2>1 DEF Remove, WorldTyped, graph
<1>6. ASSUME NEW p \in Paths, LoseStore(p)
      PROVE  /\ \A c \in Calls : IsIdle(c)
             /\ UNCHANGED <<graph, call, used, replaced, standing>>
             /\ WorldTyped' /\ touched \subseteq touched'
             /\ \A r \in Paths :
                  \/ folder'[r] = folder[r] /\ stored'[r] = stored[r]
                  \/ folder[r] = "store" /\ folder'[r] # "nothing" /\ stored'[r] = None
  <2>1. /\ \A c \in Calls : IsIdle(c)
        /\ UNCHANGED <<graph, call, used, replaced, standing>>
        /\ changes' \in 0..MaxChanges /\ touched' = touched \cup {}
    BY <1>2, <1>6 DEF LoseStore
  <2>2. QED
    BY <1>1, <1>6, <2>1 DEF LoseStore, WorldTyped, graph
<1>7. QED
  BY <1>4, <1>5, <1>6 DEF Operator

LEMMA TypedNext ==
  ASSUME Typed, [Next]_vars
  PROVE  Typed'
<1>1. CASE UNCHANGED vars
  BY <1>1 DEF vars, stores, graph, world, Typed, TypeOK, CallFits, InFolder
<1>2. CASE Operator
  <2>1. /\ \A c \in Calls : IsIdle(c)
        /\ UNCHANGED call /\ WorldTyped'
    BY <1>2, OperatorFacts
  <2>2. QED
    BY <2>1 DEF Typed, TypeOK, WorldTyped, StandingType, CallFits, InFolder, IsIdle
<1>3. ASSUME NEW c \in Calls, CallStep(c)
      PROVE  Typed'
  <2>1. CASE \E p \in Paths : \/ \E chosen \in Choices : Register(c, p, chosen)
                              \/ Adopt(c, p) \/ Unregister(c, p) \/ InitProject(c, p)
    BY <2>1, BeginningTyped
  <2>2. CASE Registration(c) \/ Initialization(c) \/ Defaulting(c)
    BY <2>2, RegistrationTyped, InitializationTyped, DefaultingTyped
  <2>3. CASE Prune(c) \/ PruneNext(c)
    BY <2>3, PruneTyped, PruneNextTyped
  <2>4. QED
    BY <1>3, <2>1, <2>2, <2>3 DEF CallStep
<1>4. ASSUME NEW c \in Calls, Die(c)
      PROVE  Typed'
  <2>1. WorldTyped' /\ Kept /\ Return(c)
    BY <1>4, WorldStays DEF Die
  <2>2. QED
    BY <2>1, ReturnFacts, TypedStep DEF HasId, InFolder
<1>5. QED
  BY <1>1, <1>2, <1>3, <1>4 DEF Next

LEMMA AlwaysTyped == Spec => []Typed
BY TypedInit, TypedNext, PTL DEF Spec

\* All variables keep their types, a store alone has an id, and a call knows its own.
THEOREM TypeCorrect == Spec => []TypeOK
<1>1. Typed => TypeOK
  BY DEF Typed
<1>2. QED
  BY <1>1, AlwaysTyped, PTL

-----------------------------------------------------------------------------
(* The default. *)

\* Only these steps touch the default, or the calls that decide on it.
Undecided(c) ==
  /\ UNCHANGED <<default, confirmed, standing>>
  /\ call' \in [Calls -> Call] /\ Others(c)
  /\ call'[c].pc \notin {"clear", "confirm", "delete"}

LEMMA UndecidedSteps ==
  ASSUME Typed, NEW c \in Calls,
         \/ \E p \in Paths : \/ \E chosen \in Choices : Register(c, p, chosen)
                             \/ Adopt(c, p) \/ InitProject(c, p)
         \/ Registration(c) \/ Initialization(c) \/ Prune(c) \/ PruneNext(c) \/ Die(c)
  PROVE  Undecided(c)
<1>1. ASSUME NEW p \in Paths, NEW chosen \in Choices, Register(c, p, chosen) PROVE Undecided(c)
  BY <1>1, RegisterFacts DEF Register, Undecided, graph
<1>2. ASSUME NEW p \in Paths, Adopt(c, p) PROVE Undecided(c)
  BY <1>2, AdoptFacts DEF Adopt, Undecided, graph
<1>3. ASSUME NEW p \in Paths, InitProject(c, p) PROVE Undecided(c)
  BY <1>3, InitProjectFacts DEF InitProject, Undecided, graph
<1>4. CASE Registration(c)
  <2>1. ASSUME NEW id \in Ids, Identified(c, id), UNCHANGED <<default, confirmed, standing>>
        PROVE  Undecided(c)
    BY <2>1, IdentifiedFacts DEF Undecided
  <2>2. CASE Seek(c)
    <3>1. UNCHANGED <<default, confirmed, standing>> /\ call[c].at \in Paths
      BY <2>2, CallTyped DEF Seek, graph, CallFits, InFolder
    <3>2. stored[call[c].at] # None => stored[call[c].at] \in Ids
      BY <3>1, WorldOfTyped DEF WorldTyped
    <3>3. CASE Goto(c, "mint")
      BY <3>1, <3>3, GotoFacts DEF Points, Undecided
    <3>4. QED
      BY <2>1, <2>2, <3>1, <3>2, <3>3 DEF Seek
  <2>3. CASE Mint(c)
    <3>1. UNCHANGED <<default, confirmed, standing>> /\ call[c].at \in Paths
      BY <2>3, CallTyped DEF Mint, graph, CallFits, InFolder
    <3>2. stored[call[c].at] # None => stored[call[c].at] \in Ids
      BY <3>1, WorldOfTyped DEF WorldTyped
    <3>3. Candidates(call[c].existing) \subseteq Ids
      BY CallTyped, CandidatesTyped
    <3>4. QED
      BY <2>1, <2>3, <3>1, <3>2, <3>3 DEF Mint
  <2>4. CASE Check(c)
    <3>1. UNCHANGED <<default, confirmed, standing>> /\ (Return(c) \/ Goto(c, "upsert"))
      BY <2>4 DEF Check, graph
    <3>2. QED
      BY <3>1, ReturnFacts, GotoFacts DEF Points, Undecided
  <2>5. CASE Upsert(c)
    BY <2>5, UpsertFacts DEF Upsert, Undecided
  <2>6. QED
    BY <1>4, <2>2, <2>3, <2>4, <2>5 DEF Registration
<1>5. CASE Initialization(c)
  <2>1. CASE Create(c)
    <3>1. UNCHANGED <<default, confirmed, standing>> /\ Goto(c, "read")
      BY <2>1 DEF Create, graph
    <3>2. QED
      BY <3>1, GotoFacts DEF Points, Undecided
  <2>2. CASE ReadStored(c)
    BY <2>2, ReadStoredFacts DEF ReadStored, graph, Undecided
  <2>3. CASE Identify(c)
    BY <2>3, IdentifyFacts DEF Identify, graph, Undecided
  <2>4. CASE DropStale(c)
    BY <2>4, DropStaleFacts DEF DropStale, Undecided
  <2>5. CASE Lookup(c)
    BY <2>5, LookupFacts DEF Lookup, graph, Undecided
  <2>6. QED
    BY <1>5, <2>1, <2>2, <2>3, <2>4, <2>5 DEF Initialization
<1>6. CASE Prune(c)
  BY <1>6, PruneFacts DEF Prune, graph, Undecided
<1>7. CASE PruneNext(c)
  BY <1>7, PruneNextFacts DEF PruneNext, Undecided
<1>8. CASE Die(c)
  BY <1>8, ReturnFacts DEF Die, graph, Undecided
<1>9. QED
  BY <1>1, <1>2, <1>3, <1>4, <1>5, <1>6, <1>7, <1>8

LEMMA UndecidedKeepsChosen ==
  ASSUME Typed, Chosen, NEW c \in Calls, Undecided(c)
  PROVE  Chosen'
<1>1. \A d \in Calls : call'[d].pc \in {"clear", "confirm", "delete"} =>
        /\ call'[d].pc = call[d].pc /\ call'[d].id = call[d].id
        /\ call'[d].wasDefault = call[d].wasDefault
  BY DEF Undecided, Others, Same
<1>2. \A d \in Calls : RemovesDefault(d)' => RemovesDefault(d) /\ call'[d].id = call[d].id
  BY <1>1 DEF RemovesDefault
<1>3. QED
  BY <1>1, <1>2 DEF Chosen, Undecided

LEMMA UnregisterKeepsChosen ==
  ASSUME Typed, Chosen, NEW c \in Calls, NEW p \in Paths, Unregister(c, p)
  PROVE  Chosen'
<1>1. /\ call'[c].pc = "delete"
      /\ call'[c].wasDefault => default = call'[c].id
      /\ UNCHANGED <<default, confirmed, standing>> /\ Others(c)
  BY UnregisterFacts DEF Unregister, graph
<1>2. ASSUME NEW d \in Calls, call'[d].pc \in {"clear", "confirm"}
      PROVE  /\ call'[d].pc = call[d].pc /\ call'[d].id = call[d].id
             /\ call'[d].wasDefault = call[d].wasDefault
  <2>1. d # c
    BY <1>1, <1>2
  <2>2. QED
    BY <1>1, <2>1 DEF Others, Same
<1>3. \A d \in Calls : RemovesDefault(d)' =>
        \/ RemovesDefault(d) /\ call'[d].id = call[d].id
        \/ call'[d].id = default
  BY <1>1 DEF RemovesDefault, Others, Same
<1>4. QED
  BY <1>1, <1>2, <1>3 DEF Chosen

LEMMA DefaultingKeepsChosen ==
  ASSUME Typed, Chosen, NEW c \in Calls, Defaulting(c)
  PROVE  Chosen'
<1>1. ASSUME NEW d \in Calls \ {c}, Others(c)
      PROVE  /\ call'[d].pc = call[d].pc /\ call'[d].id = call[d].id
             /\ call'[d].wasDefault = call[d].wasDefault
             /\ RemovesDefault(d)' <=> RemovesDefault(d)
  BY <1>1 DEF Others, Same, RemovesDefault
<1>2. CASE Choose(c)
  <2>1. CASE Return(c) /\ UNCHANGED <<default, standing>>
    <3>1. Undecided(c)
      BY <1>2, <2>1, ReturnFacts DEF Choose, Undecided
    <3>2. QED
      BY <3>1, UndecidedKeepsChosen
  <2>2. CASE /\ default' = call[c].id /\ Goto(c, "confirm")
             /\ standing' = IF Deciding(c) = {} THEN [Nothing EXCEPT !.by = c] ELSE Nothing
    <3>1. /\ Others(c) /\ call'[c].pc = "confirm" /\ call'[c].id = call[c].id
      BY <2>2, GotoFacts DEF Points, SameData
    <3>2. standing'.id = None /\ (standing'.by # None => standing'.by = c /\ Deciding(c) = {})
      BY <2>2 DEF Nothing
    <3>3. ASSUME NEW d \in Calls, call'[d].pc = "clear"
          PROVE  call'[d].wasDefault /\ standing' = Nothing
      <4>1. d # c /\ call[d].pc = "clear" /\ call[d].wasDefault /\ call'[d].wasDefault
        BY <3>1, <3>3, <1>1 DEF Chosen
      <4>2. d \in Deciding(c)
        BY <4>1 DEF Deciding
      <4>3. QED
        BY <2>2, <4>1, <4>2
    <3>4. ASSUME NEW e \in Calls, call'[e].pc = "confirm", standing'.by = e
          PROVE  /\ default' = call'[e].id
                 /\ \A d \in Calls : RemovesDefault(d)' => call'[d].id = call'[e].id
      <4>1. e = c /\ Deciding(c) = {}
        BY <3>2, <3>4, RegistryAssumption
      <4>2. ASSUME NEW d \in Calls, RemovesDefault(d)' PROVE FALSE
        <5>1. d # c
          BY <3>1, <4>2 DEF RemovesDefault
        <5>2. d \in Deciding(c)
          BY <1>1, <3>1, <4>2, <5>1 DEF RemovesDefault, Deciding
        <5>3. QED
          BY <4>1, <5>2
      <4>3. QED
        BY <2>2, <3>1, <4>1, <4>2
    <3>5. QED
      BY <3>2, <3>3, <3>4 DEF Chosen
  <2>3. QED
    BY <1>2, <2>1, <2>2 DEF Choose
<1>3. CASE Confirm(c)
  <2>1. /\ call[c].pc = "confirm" /\ confirmed' = call[c].id /\ default' = default
        /\ standing' = IF standing.by = c THEN [Nothing EXCEPT !.id = call[c].id] ELSE Nothing
        /\ Others(c) /\ call'[c].pc = "idle"
    BY <1>3, ReturnFacts DEF Confirm
  <2>2. ASSUME NEW d \in Calls, call'[d].pc \in {"clear", "confirm"} \/ RemovesDefault(d)'
        PROVE  d # c
    BY <2>1, <2>2 DEF RemovesDefault
  <2>3. CASE standing.by = c
    <3>1. default = call[c].id /\ \A d \in Calls : RemovesDefault(d) => call[d].id = call[c].id
      BY <2>1, <2>3 DEF Chosen
    <3>2. standing'.id = call[c].id /\ standing'.by = None
      BY <2>1, <2>3 DEF Nothing
    <3>3. \A d \in Calls : call[d].pc # "clear"
      BY <2>3, RegistryAssumption DEF Chosen, Nothing
    <3>4. \A d \in Calls : call'[d].pc # "clear"
      BY <1>1, <2>1, <2>2, <3>3
    <3>5. \A d \in Calls : RemovesDefault(d)' => call'[d].id = call[c].id
      BY <1>1, <2>1, <2>2, <3>1
    <3>6. QED
      BY <2>1, <3>1, <3>2, <3>4, <3>5, RegistryAssumption DEF Chosen
  <2>4. CASE standing.by # c
    <3>1. standing' = Nothing /\ standing'.id = None /\ standing'.by = None
      BY <2>1, <2>4 DEF Nothing
    <3>2. \A d \in Calls : call'[d].pc = "clear" => call'[d].wasDefault
      BY <1>1, <2>1, <2>2 DEF Chosen
    <3>3. QED
      BY <3>1, <3>2, RegistryAssumption DEF Chosen
  <2>5. QED
    BY <2>3, <2>4
<1>4. CASE Delete(c)
  <2>1. /\ call[c].pc = "delete" /\ UNCHANGED <<default, confirmed>>
        /\ standing' = IF standing.id = call[c].id \/ (standing.id = None /\ call[c].wasDefault)
                       THEN Nothing ELSE standing
        /\ Others(c) /\ call'[c].pc = (IF call[c].wasDefault THEN "clear" ELSE "idle")
        /\ call'[c].pc = "clear" => call'[c].wasDefault
    BY <1>4, DeleteFacts DEF Delete
  <2>2. /\ ~RemovesDefault(c)' /\ call'[c].pc # "confirm"
    BY <2>1 DEF RemovesDefault
  <2>3. standing' \in {Nothing, standing} /\ Nothing.id = None /\ Nothing.by = None
    BY <2>1 DEF Nothing
  <2>4. standing'.id # None => default' = standing'.id /\ confirmed' = standing'.id
    BY <2>1, <2>3 DEF Chosen
  <2>5. ASSUME NEW d \in Calls, call'[d].pc = "clear"
        PROVE  call'[d].wasDefault /\ standing' = Nothing
    <3>1. CASE d = c
      <4>1. RemovesDefault(c) /\ call'[c].wasDefault
        BY <2>1, <2>5, <3>1 DEF RemovesDefault
      <4>2. standing.id # None => call[c].id = standing.id
        BY <4>1 DEF Chosen
      <4>3. QED
        BY <2>1, <3>1, <4>1, <4>2 DEF RemovesDefault
    <3>2. CASE d # c
      <4>1. call[d].pc = "clear" /\ call'[d].wasDefault = call[d].wasDefault
        BY <1>1, <2>1, <2>5, <3>2
      <4>2. call[d].wasDefault /\ standing = Nothing
        BY <4>1 DEF Chosen
      <4>3. QED
        BY <2>3, <4>1, <4>2
    <3>3. QED
      BY <3>1, <3>2
  <2>6. \A d \in Calls : RemovesDefault(d)' => RemovesDefault(d) /\ call'[d].id = call[d].id
    BY <1>1, <2>1, <2>2
  <2>7. \A d \in Calls : call'[d].pc = "confirm" => call[d].pc = "confirm" /\ call'[d].id = call[d].id
    BY <1>1, <2>1, <2>2
  <2>8. \A d \in Calls : RemovesDefault(d)' /\ standing'.id # None => call'[d].id = standing'.id
    BY <2>3, <2>6 DEF Chosen
  <2>9. \A e \in Calls : call'[e].pc = "confirm" /\ standing'.by = e =>
          /\ default' = call'[e].id
          /\ \A d \in Calls : RemovesDefault(d)' => call'[d].id = call'[e].id
    BY <2>1, <2>3, <2>6, <2>7, RegistryAssumption DEF Chosen
  <2>10. QED
    BY <2>4, <2>5, <2>8, <2>9 DEF Chosen
<1>5. CASE Clear(c)
  <2>1. call[c].pc = "clear" /\ standing' = standing /\ Others(c) /\ call'[c].pc = "idle"
    BY <1>5, ReturnFacts DEF Clear
  <2>2. standing' = Nothing /\ standing'.id = None /\ standing'.by = None
    BY <2>1 DEF Chosen, Nothing
  <2>3. \A d \in Calls : call'[d].pc = "clear" => call'[d].wasDefault
    BY <1>1, <2>1 DEF Chosen
  <2>4. QED
    BY <2>2, <2>3, RegistryAssumption DEF Chosen
<1>6. QED
  BY <1>2, <1>3, <1>4, <1>5 DEF Defaulting

LEMMA ChosenNext ==
  ASSUME Typed, Chosen, [Next]_vars
  PROVE  Chosen'
<1>1. CASE UNCHANGED vars
  BY <1>1 DEF vars, graph, Chosen, RemovesDefault
<1>2. CASE Operator
  <2>1. UNCHANGED <<graph, call, standing>>
    BY <1>2, OperatorFacts
  <2>2. QED
    BY <2>1 DEF graph, Chosen, RemovesDefault
<1>3. ASSUME NEW c \in Calls, CallStep(c)
      PROVE  Chosen'
  <2>1. CASE Defaulting(c)
    BY <2>1, DefaultingKeepsChosen
  <2>2. CASE \E p \in Paths : Unregister(c, p)
    BY <2>2, UnregisterKeepsChosen
  <2>3. CASE ~Defaulting(c) /\ ~ \E p \in Paths : Unregister(c, p)
    <3>1. Undecided(c)
      BY <1>3, <2>3, UndecidedSteps DEF CallStep
    <3>2. QED
      BY <3>1, UndecidedKeepsChosen
  <2>4. QED
    BY <2>1, <2>2, <2>3
<1>4. ASSUME NEW c \in Calls, Die(c)
      PROVE  Chosen'
  BY <1>4, UndecidedSteps, UndecidedKeepsChosen
<1>5. QED
  BY <1>1, <1>2, <1>3, <1>4 DEF Next

\* A choice that no other change of the default overlapped stays what applies, until
\* the operator chooses again or removes the project.
THEOREM TheChoiceStands == Spec => []ChoiceStands
<1>1. Init => Chosen
  <2>1. Init => \A c \in Calls : call[c].pc = "idle"
    BY IdleFacts DEF Init
  <2>2. QED
    BY <2>1 DEF Init, Chosen, Nothing, RemovesDefault
<1>2. Typed /\ Chosen /\ [Next]_vars => Chosen'
  BY ChosenNext
<1>3. Chosen => ChoiceStands
  BY RegistryAssumption DEF Chosen, ChoiceStands, Applied
<1>4. QED
  BY <1>1, <1>2, <1>3, AlwaysTyped, PTL DEF Spec

-----------------------------------------------------------------------------
(* Rows and stores. *)

\* A row that a call counts on keeps its path and its live store.
Stays(i) ==
  row'[i] # None /\ row'[i].path = row[i].path /\ stored'[row[i].path] = stored[row[i].path]

\* What a step of c has to leave to another call d.
Spares(d) ==
  /\ call[d].pc \in InFolder \cup {"create"} =>
       \A p \in Clean' : p = call[d].at =>
         /\ stored'[p] = stored[p] \/ stored[p] = None
         /\ \/ RowsAt(p)' \subseteq RowsAt(p)
            \/ stored[p] # None /\ stored'[p] = stored[p]
  /\ \A i \in call'[d].settled : Stays(i)

\* A folder does not become clean again.
CleanShrinks == touched \subseteq touched' /\ replaced \subseteq replaced'

LEMMA SparedAgrees ==
  ASSUME Typed, NEW d \in Calls, Agrees(d), Same(call'[d], call[d]), CleanShrinks, Spares(d)
  PROVE  Agrees(d)'
<1>1. /\ CallFits(call[d]) /\ call[d].pc \in Points
      /\ call[d].pc \in HasId => call[d].id # None
  BY CallTyped DEF Typed, TypeOK, HasId
<1>2. call'[d].pc \in InitSteps => ~call'[d].strict
  BY DEF Agrees, Same
<1>3. ASSUME call'[d].at \in Clean'
      PROVE  Knows(d)'
  <2>1. Knows(d) /\ call'[d].at = call[d].at /\ call[d].at \in Clean
    BY <1>3 DEF Agrees, Same, Clean, CleanShrinks
  <2>2. CASE call[d].pc \notin InFolder \cup {"create"}
    BY <2>1, <2>2 DEF Knows, Same, InFolder
  <2>3. CASE call[d].pc \in InFolder \cup {"create"}
    <3>1. PICK p : p = call[d].at /\ p = call'[d].at
      BY <2>1
    <3>2. /\ stored'[p] = stored[p] \/ stored[p] = None
          /\ \/ RowsAt(p)' \subseteq RowsAt(p)
             \/ stored[p] # None /\ stored'[p] = stored[p]
      BY <1>3, <2>3, <3>1 DEF Spares
    <3>3. stored'[p] = None => stored[p] = None /\ RowsAt(p)' \subseteq RowsAt(p)
      BY <3>2
    <3>4. stored[p] # None => stored'[p] = stored[p]
      BY <3>2
    <3>5. CASE call[d].pc \in {"seek", "mint"}
      BY <2>1, <3>1, <3>3, <3>4, <3>5 DEF Knows, Same
    <3>6. CASE call[d].pc \in {"check", "upsert"}
      <4>1. stored'[p] = stored[p] /\ call[d].id = stored[p]
        BY <1>1, <2>1, <3>1, <3>4, <3>6 DEF Knows, HasId
      <4>2. QED
        BY <3>1, <3>6, <4>1 DEF Knows, Same
    <3>7. CASE call[d].pc \in {"create", "read", "identify"}
      BY <2>1, <3>1, <3>3, <3>7 DEF Knows, Same
    <3>8. CASE call[d].pc \in {"drop", "lookup"}
      BY <2>1, <3>1, <3>4, <3>8 DEF Knows, Same
    <3>9. QED
      BY <2>3, <3>5, <3>6, <3>7, <3>8 DEF InFolder
  <2>4. QED
    BY <2>2, <2>3
<1>4. Settled(d)'
  <2>1. Settled(d) /\ \A i \in call'[d].settled : i \in call[d].settled /\ Stays(i)
    BY DEF Agrees, Same, Spares
  <2>2. \A i \in call'[d].settled : Live(i)'
    BY <2>1 DEF Settled, Live, Stays
  <2>3. call'[d].pc = "upsert" /\ call'[d].id \in call'[d].settled => row'[call'[d].id].path = call'[d].at
    BY <2>1 DEF Settled, Stays, Same
  <2>4. call'[d].pc \in {"create", "read", "identify", "drop"} /\ ~call'[d].existed
          => call'[d].existing \notin call'[d].settled
    BY <2>1 DEF Settled, Same
  <2>5. call'[d].pc = "prune" => \A e \in call'[d].left : e.id \in call'[d].settled => e.path = row'[e.id].path
    BY <2>1 DEF Settled, Stays, Same
  <2>6. QED
    BY <2>2, <2>3, <2>4, <2>5 DEF Settled
<1>5. QED
  BY <1>2, <1>3, <1>4 DEF Agrees

\* A step of c that changes no id in a store, adds no row, and moves none that counts.
LEMMA GentleAgreement ==
  ASSUME Typed, Agreement, NEW c \in Calls, Others(c), UNCHANGED <<stored, touched, replaced>>,
         \A p \in Paths : folder'[p] = "nothing" => folder[p] = "nothing",
         \A p : RowsAt(p)' \subseteq RowsAt(p),
         \A d \in Calls \ {c} : \A i \in call'[d].settled : Stays(i),
         Agrees(c)'
  PROVE  Agreement'
<1>1. OneRowEach' /\ RowsAgree'
  BY DEF Agreement, OneRowEach, RowsAgree, Clean
<1>2. ASSUME NEW d \in Calls \ {c} PROVE Agrees(d)'
  <2>1. Same(call'[d], call[d]) /\ Agrees(d)
    BY DEF Others, Agreement
  <2>2. Spares(d) /\ CleanShrinks
    BY DEF Spares, CleanShrinks
  <2>3. QED
    BY <2>1, <2>2, SparedAgrees
<1>3. QED
  BY <1>1, <1>2 DEF Agreement

\* A step of c that changes no row and no id.
LEMMA QuietAgreement ==
  ASSUME Typed, Agreement, NEW c \in Calls, Others(c), UNCHANGED <<stored, row, touched, replaced>>,
         \A p \in Paths : folder'[p] = "nothing" => folder[p] = "nothing",
         Agrees(c)'
  PROVE  Agreement'
<1>1. \A p : RowsAt(p)' \subseteq RowsAt(p)
  BY DEF RowsAt
<1>2. ASSUME NEW d \in Calls \ {c}, NEW i \in call'[d].settled PROVE Stays(i)
  BY DEF Others, Same, Agreement, Agrees, Settled, Live, Stays
<1>3. QED
  BY <1>1, <1>2, GentleAgreement

\* A call at a point where it knows nothing of its folder.
LEMMA IdleAgrees ==
  ASSUME NEW c \in Calls, call'[c].pc \in {"idle", "choose", "clear"}, call'[c].settled = {}
  PROVE  Agrees(c)'
BY DEF Agrees, Knows, Settled, InitSteps

LEMMA EndAgreement ==
  ASSUME Typed, Agreement, NEW c \in Calls, Return(c), UNCHANGED <<stores, row, touched, replaced>>
  PROVE  Agreement'
<1>1. Others(c) /\ call'[c].pc = "idle" /\ call'[c].settled = {}
  BY ReturnFacts
<1>2. \A p \in Paths : folder'[p] = "nothing" => folder[p] = "nothing"
  BY DEF stores
<1>3. QED
  BY <1>1, <1>2, IdleAgrees, QuietAgreement DEF stores

LEMMA FreshSettled ==
  ASSUME Typed, NEW c \in Calls, call'[c].settled = LiveRows, UNCHANGED <<stored, row>>
  PROVE  \A i \in call'[c].settled : Live(i)'
BY DEF LiveRows, Live

LEMMA BeginningAgreement ==
  ASSUME Typed, Agreement, NEW c \in Calls, NEW p \in Paths,
         \/ \E chosen \in Choices : Register(c, p, chosen)
         \/ Adopt(c, p) \/ Unregister(c, p) \/ InitProject(c, p)
  PROVE  Agreement'
<1>1. /\ UNCHANGED <<folder, stored, row, touched, replaced>> /\ Clean' = Clean
      /\ \A q \in Paths : folder'[q] = "nothing" => folder[q] = "nothing"
      /\ RowsAt(p)' = RowsAt(p)
  BY DEF Register, Adopt, Unregister, InitProject, stores, graph, world, RowsAt, Clean
<1>2. WorldTyped
  BY WorldOfTyped
<1>3. CASE \E chosen \in Choices : Register(c, p, chosen)
  <2>1. /\ Others(c) /\ call'[c].pc = "seek" /\ call'[c].at = p /\ call'[c].existing \in Found(p)
        /\ call'[c].strict /\ call'[c].settled = LiveRows
    BY <1>3, RegisterFacts
  <2>2. p \in Clean => RowsAt(p) \subseteq {call'[c].existing}
    BY <2>1 DEF Agreement, OneRowEach, Found
  <2>3. Agrees(c)'
    BY <1>1, <2>1, <2>2, FreshSettled DEF Agrees, Knows, Settled, InitSteps
  <2>4. QED
    BY <1>1, <2>1, <2>3, QuietAgreement
<1>4. CASE Adopt(c, p)
  <2>1. /\ Others(c) /\ call'[c].pc = "check" /\ call'[c].at = p /\ call'[c].id = stored[p]
        /\ call'[c].settled = LiveRows
    BY <1>4, AdoptFacts
  <2>2. Agrees(c)'
    BY <1>1, <2>1, FreshSettled DEF Agrees, Knows, Settled, InitSteps
  <2>3. QED
    BY <1>1, <2>1, <2>2, QuietAgreement
<1>5. CASE Unregister(c, p)
  <2>1. Others(c) /\ call'[c].pc = "delete" /\ call'[c].settled = LiveRows
    BY <1>5, UnregisterFacts
  <2>2. Agrees(c)'
    BY <1>1, <2>1, FreshSettled DEF Agrees, Knows, Settled, InitSteps
  <2>3. QED
    BY <1>1, <2>1, <2>2, QuietAgreement
<1>6. CASE InitProject(c, p)
  <2>1. /\ Others(c) /\ call'[c].pc = "create" /\ call'[c].at = p /\ call'[c].existing \in Found(p)
        /\ ~call'[c].strict /\ call'[c].settled = LiveRows
        /\ call'[c].existed = (folder[p] # "nothing")
        /\ call'[c].id = IF stored[p] # None THEN stored[p]
                         ELSE IF folder[p] # "nothing" THEN call'[c].existing ELSE None
    BY <1>6, InitProjectFacts
  <2>2. p \in Clean /\ stored[p] = None => RowsAt(p) \subseteq {call'[c].id}
    BY <2>1 DEF Agreement, OneRowEach, Found
  <2>3. ~call'[c].existed => call'[c].existing \notin LiveRows
    <3>1. ~call'[c].existed => stored[p] = None
      BY <1>2, <2>1 DEF WorldTyped
    <3>2. \A i \in Ids : i \in RowsAt(p) /\ Live(i) => stored[p] = i
      BY DEF RowsAt, Live
    <3>3. call'[c].existing \in RowsAt(p) \cup {None}
      BY <2>1 DEF Found
    <3>4. QED
      BY <3>1, <3>2, <3>3, RegistryAssumption DEF LiveRows
  <2>4. Agrees(c)'
    BY <1>1, <2>1, <2>2, <2>3, FreshSettled DEF Agrees, Knows, Settled, InitSteps
  <2>5. QED
    BY <1>1, <2>1, <2>4, QuietAgreement
<1>7. QED
  BY <1>3, <1>4, <1>5, <1>6

LEMMA PruneAgreement ==
  ASSUME Typed, Agreement, NEW c \in Calls, Prune(c)
  PROVE  Agreement'
<1>1. UNCHANGED <<folder, stored, row, touched, replaced>>
  BY DEF Prune, stores, graph, world
<1>2. /\ Others(c) /\ call'[c].pc = "prune" /\ call'[c].settled = LiveRows
      /\ \A e \in call'[c].left : e.path = row[e.id].path
  BY PruneFacts
<1>3. Agrees(c)'
  BY <1>1, <1>2, FreshSettled DEF Agrees, Knows, Settled, InitSteps
<1>4. QED
  BY <1>1, <1>2, <1>3, QuietAgreement

\* The steps of a registration that change no row.
LEMMA IdentifiedAgrees ==
  ASSUME Typed, NEW c \in Calls, Agrees(c), NEW id \in Ids, Identified(c, id),
         UNCHANGED <<row, touched, replaced>>, stored'[call[c].at] = id,
         call[c].pc \in {"seek", "mint"},
         call[c].pc = "seek" => stored[call[c].at] = id,
         \A i \in call[c].settled : Stays(i)
  PROVE  Others(c) /\ Agrees(c)'
<1>1. /\ Others(c)
      /\ \/ call'[c].pc = "idle" /\ call'[c].settled = {}
         \/ /\ call'[c].pc = "check" /\ call'[c].at = call[c].at
            /\ call'[c].settled = call[c].settled
            /\ call'[c].id = IF call[c].existing # None THEN call[c].existing ELSE id
            /\ call[c].strict => call[c].existing \in {None, id}
  BY IdentifiedFacts
<1>2. CASE call'[c].pc = "idle" /\ call'[c].settled = {}
  BY <1>1, <1>2, IdleAgrees
<1>3. CASE /\ call'[c].pc = "check" /\ call'[c].at = call[c].at
           /\ call'[c].settled = call[c].settled
           /\ call'[c].id = IF call[c].existing # None THEN call[c].existing ELSE id
           /\ call[c].strict => call[c].existing \in {None, id}
  <2>1. call[c].at \in Clean => call[c].existing \in {None, id}
    BY <1>3 DEF Agrees, Knows
  <2>2. \A i \in call'[c].settled : Live(i)'
    BY <1>3 DEF Agrees, Settled, Live, Stays
  <2>3. Clean' = Clean
    BY DEF Clean
  <2>4. Agrees(c)'
    BY <1>3, <2>1, <2>2, <2>3 DEF Agrees, Knows, Settled, InitSteps
  <2>5. QED
    BY <1>1, <2>4
<1>4. QED
  BY <1>1, <1>2, <1>3

LEMMA SeekAgreement ==
  ASSUME Typed, Agreement, NEW c \in Calls, Seek(c)
  PROVE  Agreement'
<1>1. /\ UNCHANGED <<folder, stored, row, touched, replaced>> /\ call[c].pc = "seek"
      /\ call[c].at \in Paths /\ Agrees(c) /\ Clean' = Clean
  BY CallTyped DEF Seek, stores, graph, world, CallFits, InFolder, Agreement, Clean
<1>2. \A i \in call[c].settled : Stays(i)
  BY <1>1 DEF Agrees, Settled, Live, Stays
<1>3. Others(c) /\ Agrees(c)'
  <2>1. CASE stored[call[c].at] # None
    <3>1. stored[call[c].at] \in Ids /\ Identified(c, stored[call[c].at])
      BY <1>1, <2>1, WorldOfTyped DEF Seek, WorldTyped
    <3>2. QED
      BY <1>1, <1>2, <3>1, IdentifiedAgrees
  <2>2. CASE stored[call[c].at] = None
    <3>1. Goto(c, "mint")
      BY <2>2 DEF Seek
    <3>2. Others(c) /\ call'[c].pc = "mint" /\ SameData(call'[c], call[c])
      BY <3>1, GotoFacts DEF Points
    <3>3. \A i \in call'[c].settled : Live(i)'
      BY <1>1, <1>2, <3>2 DEF Agrees, Settled, Live, Stays, SameData, SameRest
    <3>4. \A p : RowsAt(p)' = RowsAt(p)
      BY <1>1 DEF RowsAt
    <3>5. call'[c].at \in Clean' => Knows(c)'
      <4>1. SUFFICES ASSUME call'[c].at \in Clean' PROVE Knows(c)'
        OBVIOUS
      <4>2. PICK p : p = call[c].at /\ p = call'[c].at
        BY <3>2 DEF SameData, SameRest
      <4>3. call[c].strict /\ RowsAt(p) \subseteq {call[c].existing}
        BY <1>1, <2>2, <4>1, <4>2 DEF Agrees, Knows
      <4>4. QED
        BY <3>2, <3>4, <4>2, <4>3 DEF Knows, SameData, SameRest
    <3>6. Agrees(c)'
      BY <3>2, <3>3, <3>5 DEF Agrees, Settled, InitSteps
    <3>7. QED
      BY <3>2, <3>6
  <2>3. QED
    BY <2>1, <2>2
<1>4. QED
  BY <1>1, <1>3, QuietAgreement

LEMMA MintAgreement ==
  ASSUME Typed, Agreement, NEW c \in Calls, Mint(c)
  PROVE  Agreement'
<1>1. PICK p \in Paths : p = call[c].at
  BY CallTyped DEF Mint, CallFits, InFolder
<1>2. /\ UNCHANGED <<folder, row, touched, replaced>> /\ call[c].pc = "mint" /\ Agrees(c)
      /\ stored \in [Paths -> Ids \cup {None}] /\ Clean' = Clean /\ CleanShrinks
  BY WorldOfTyped DEF Mint, graph, world, Agreement, WorldTyped, Clean, CleanShrinks
<1>3. CASE stored[p] # None
  <2>1. stored' = stored /\ Identified(c, stored[p]) /\ stored[p] \in Ids
    BY <1>1, <1>2, <1>3 DEF Mint
  <2>2. \A i \in call[c].settled : Stays(i)
    BY <1>2, <2>1 DEF Agrees, Settled, Live, Stays
  <2>3. Others(c) /\ Agrees(c)'
    BY <1>1, <1>2, <2>1, <2>2, IdentifiedAgrees
  <2>4. QED
    BY <1>2, <2>1, <2>3, QuietAgreement
<1>4. CASE stored[p] = None
  <2>1. PICK i \in Candidates(call[c].existing) :
          stored' = [stored EXCEPT ![p] = i] /\ Identified(c, i)
    BY <1>1, <1>4 DEF Mint
  <2>2. i \in Ids /\ stored'[p] = i /\ \A q \in Paths \ {p} : stored'[q] = stored[q]
    BY <1>2, <2>1, CandidatesTyped, CallTyped
  <2>3. \A j \in Ids : Live(j) => Stays(j)
    <3>1. \A j \in Ids : Live(j) => row[j].path \in Paths
      BY WorldOfTyped DEF Live, WorldTyped, Row
    <3>2. QED
      BY <1>2, <1>4, <2>2, <3>1, RegistryAssumption DEF Live, Stays
  <2>4. \A d \in Calls : \A j \in call[d].settled : j \in Ids /\ Live(j)
    BY CallTyped DEF Agreement, Agrees, Settled
  <2>5. Others(c) /\ Agrees(c)'
    BY <1>1, <1>2, <2>1, <2>2, <2>3, <2>4, IdentifiedAgrees
  <2>6. \A q : RowsAt(q)' = RowsAt(q)
    BY <1>2 DEF RowsAt
  <2>7. OneRowEach'
    BY <1>2, <2>6 DEF Agreement, OneRowEach
  <2>8. RowsAgree'
    <3>1. p \in Clean => RowsAt(p) \subseteq {i}
      <4>1. p \in Clean => RowsAt(p) \subseteq {call[c].existing}
        BY <1>1, <1>2, <1>4 DEF Agrees, Knows
      <4>2. call[c].existing # None => i = call[c].existing
        BY <2>1 DEF Candidates
      <4>3. QED
        BY <4>1, <4>2, FoundTyped, RegistryAssumption
    <3>2. QED
      BY <1>2, <2>2, <2>6, <3>1 DEF Agreement, RowsAgree, Clean
  <2>9. ASSUME NEW d \in Calls \ {c} PROVE Agrees(d)'
    <3>1. Same(call'[d], call[d]) /\ Agrees(d)
      BY <2>5 DEF Others, Agreement
    <3>2. call[d].pc \in InFolder \cup {"create"} => call[d].at \in Paths
      BY CallTyped DEF CallFits
    <3>3. \A j \in call'[d].settled : Stays(j)
      BY <2>3, <2>4, <3>1 DEF Same
    <3>4. Spares(d)
      BY <1>4, <2>2, <2>6, <3>2, <3>3 DEF Spares
    <3>5. QED
      BY <1>2, <3>1, <3>4, SparedAgrees
  <2>10. QED
    BY <2>5, <2>7, <2>8, <2>9 DEF Agreement
<1>5. QED
  BY <1>3, <1>4

LEMMA CheckAgreement ==
  ASSUME Typed, Agreement, NEW c \in Calls, Check(c)
  PROVE  Agreement'
<1>1. /\ UNCHANGED <<folder, stored, row, touched, replaced, stores>> /\ call[c].pc = "check"
      /\ Agrees(c) /\ Clean' = Clean
  BY DEF Check, stores, graph, world, Agreement, Clean
<1>2. CASE Return(c)
  BY <1>1, <1>2, EndAgreement
<1>3. CASE ~HeldElsewhere(call[c].id, call[c].at) /\ Goto(c, "upsert")
  <2>1. Others(c) /\ call'[c].pc = "upsert" /\ SameData(call'[c], call[c])
    BY <1>3, GotoFacts DEF Points
  <2>2. \A i \in call'[c].settled : Live(i)'
    BY <1>1, <2>1 DEF Agrees, Settled, Live, SameData, SameRest
  <2>3. call'[c].id \in call'[c].settled => row'[call'[c].id].path = call'[c].at
    BY <1>1, <1>3, <2>1 DEF Agrees, Settled, Live, HeldElsewhere, SameData, SameRest
  <2>4. Agrees(c)'
    BY <1>1, <2>1, <2>2, <2>3 DEF Agrees, Knows, Settled, InitSteps, SameData, SameRest
  <2>5. QED
    BY <1>1, <2>1, <2>4, QuietAgreement
<1>4. QED
  BY <1>2, <1>3 DEF Check

LEMMA UpsertAgreement ==
  ASSUME Typed, Agreement, NEW c \in Calls, Upsert(c)
  PROVE  Agreement'
<1>1. PICK p \in Paths, i \in Ids : p = call[c].at /\ i = call[c].id
  <2>1. call[c].pc = "upsert"
    BY DEF Upsert
  <2>2. call[c].id # None
    BY <2>1 DEF Typed, TypeOK
  <2>3. QED
    BY <2>1, <2>2, CallTyped DEF CallFits, InFolder
<1>2. /\ UNCHANGED <<folder, stored, touched, replaced>> /\ call[c].pc = "upsert" /\ Agrees(c)
      /\ row' = [row EXCEPT ![i] = [path |-> p, active |-> TRUE]]
      /\ row \in [Ids -> Row \cup {None}] /\ folder[p] = "store"
  BY <1>1, WorldOfTyped, CallTyped DEF Upsert, stores, world, Agreement, WorldTyped, CallFits, InFolder
<1>3. /\ Others(c) /\ call'[c].pc \in {"idle", "choose"} /\ call'[c].settled = {}
      /\ \A d \in Calls : call'[d].settled \subseteq call[d].settled
      /\ ~(row[i] # None /\ row[i].path = p) => \A d \in Calls : i \notin call'[d].settled
  BY <1>1, UpsertFacts
<1>4. row'[i].path = p /\ row'[i] # None /\ \A j \in Ids \ {i} : row'[j] = row[j]
  <2>1. [path |-> p, active |-> TRUE] \in [path : Paths, active : BOOLEAN]
    OBVIOUS
  <2>2. QED
    BY <1>2, <2>1, RegistryAssumption
<1>5. \A j \in Ids : Live(j) /\ (j = i => row[i] # None /\ row[i].path = p) => Stays(j)
  BY <1>2, <1>4 DEF Live, Stays
<1>6. ASSUME NEW d \in Calls, NEW j \in call'[d].settled PROVE Stays(j) /\ Live(j)
  <2>1. j \in call[d].settled /\ j \in Ids /\ Live(j)
    BY <1>3, CallTyped DEF Agreement, Agrees, Settled
  <2>2. j = i => row[i] # None /\ row[i].path = p
    BY <1>3
  <2>3. QED
    BY <1>5, <2>1, <2>2
<1>7. /\ \A q \in Paths \ {p} : RowsAt(q)' \subseteq RowsAt(q)
      /\ RowsAt(p)' \subseteq RowsAt(p) \cup {i}
  BY <1>4 DEF RowsAt
<1>8. Clean' = Clean /\ CleanShrinks
  BY <1>2 DEF Clean, CleanShrinks
<1>9. p \in Clean => stored[p] = i /\ i # None /\ RowsAt(p)' \subseteq {i}
  <2>1. SUFFICES ASSUME p \in Clean PROVE stored[p] = i /\ i # None /\ RowsAt(p)' \subseteq {i}
    OBVIOUS
  <2>2. stored[p] = i /\ i # None
    BY <1>1, <1>2, <2>1, RegistryAssumption DEF Agrees, Knows
  <2>3. RowsAt(p) \subseteq {i}
    BY <2>1, <2>2 DEF Agreement, RowsAgree, Clean
  <2>4. QED
    BY <1>7, <2>2, <2>3
<1>10. OneRowEach'
  BY <1>2, <1>7, <1>8, <1>9 DEF Agreement, OneRowEach, Clean
<1>11. RowsAgree'
  BY <1>2, <1>7, <1>9 DEF Agreement, RowsAgree, Clean
<1>12. ASSUME NEW d \in Calls \ {c} PROVE Agrees(d)'
  <2>1. Same(call'[d], call[d]) /\ Agrees(d)
    BY <1>3 DEF Others, Agreement
  <2>2. ASSUME NEW q \in Clean
        PROVE  \/ RowsAt(q)' \subseteq RowsAt(q)
               \/ stored[q] # None /\ stored'[q] = stored[q]
    <3>1. CASE q # p
      BY <1>7, <2>2, <3>1 DEF Clean
    <3>2. CASE q = p
      BY <1>2, <1>9, <2>2, <3>2
    <3>3. QED
      BY <3>1, <3>2
  <2>3. Spares(d)
    BY <1>2, <1>6, <1>8, <2>2 DEF Spares
  <2>4. QED
    BY <1>8, <2>1, <2>3, SparedAgrees
<1>13. Agrees(c)'
  BY <1>3, IdleAgrees
<1>14. QED
  BY <1>10, <1>11, <1>12, <1>13 DEF Agreement

\* The steps of an init.
LEMMA InitializationFacts ==
  ASSUME Typed, Agreement, NEW c \in Calls, Initialization(c)
  PROVE  /\ touched' = touched /\ Agrees(c) /\ ~call[c].strict /\ call[c].at \in Paths
         /\ \A q \in Paths : folder'[q] = "nothing" => folder[q] = "nothing"
         /\ \A i \in call[c].settled : i \in Ids /\ Live(i)
<1>1. call[c].pc \in InitSteps /\ call[c].at \in Paths
  BY CallTyped DEF Initialization, Create, ReadStored, Identify, DropStale, Lookup, InitSteps, CallFits, InFolder
<1>2. folder \in [Paths -> {"nothing", "layout", "store"}]
  BY WorldOfTyped DEF WorldTyped
<1>3. /\ touched' = touched
      /\ folder' = folder \/ folder' = [folder EXCEPT ![call[c].at] = "store"]
  BY DEF Initialization, Create, ReadStored, Identify, DropStale, Lookup, world, stores
<1>4. Agrees(c) /\ ~call[c].strict
  BY <1>1 DEF Agreement, Agrees
<1>5. \A i \in call[c].settled : i \in Ids /\ Live(i)
  BY <1>4, CallTyped DEF Agrees, Settled
<1>6. QED
  BY <1>1, <1>2, <1>3, <1>4, <1>5

LEMMA IdentifyAgreement ==
  ASSUME Typed, Agreement, NEW c \in Calls, Identify(c)
  PROVE  Agreement'
<1>1. /\ touched' = touched /\ Agrees(c) /\ ~call[c].strict
      /\ \A q \in Paths : folder'[q] = "nothing" => folder[q] = "nothing"
      /\ \A i \in call[c].settled : i \in Ids /\ Live(i)
  BY InitializationFacts DEF Initialization
<1>2. PICK p \in Paths : p = call[c].at
  BY InitializationFacts DEF Initialization
<1>3. PICK i \in Ids :
        /\ i \in Candidates(call[c].id)
        /\ stored' = [stored EXCEPT ![p] = i]
        /\ replaced' = IF stored[p] \in {None, i} THEN replaced ELSE replaced \cup {p}
        /\ \A d \in Calls : call'[d].settled = call[d].settled \ ({stored[p]} \ {i})
  BY <1>2, IdentifyFacts
<1>4. /\ row' = row /\ folder' = folder /\ call[c].pc = "identify"
      /\ Others(c) /\ call'[c].at = p /\ ~call'[c].strict /\ call'[c].pc = "drop"
      /\ call'[c].existed = call[c].existed /\ call'[c].existing = call[c].existing
  BY <1>1, <1>2, IdentifyFacts DEF Identify, graph
<1>5. /\ stored'[p] = i /\ i # None /\ \A q \in Paths \ {p} : stored'[q] = stored[q]
      /\ \A j \in Ids : Live(j) => row[j].path \in Paths
  BY <1>3, WorldOfTyped, RegistryAssumption DEF WorldTyped, Live, Row
<1>6. CleanShrinks /\ Clean' \subseteq Clean /\ (p \in Clean' => stored[p] \in {None, i})
  BY <1>1, <1>3 DEF CleanShrinks, Clean
<1>7. ASSUME NEW d \in Calls, NEW j \in call'[d].settled PROVE Stays(j) /\ Live(j)
  <2>1. j \in Ids /\ Live(j) /\ j \notin {stored[p]} \ {i}
    BY <1>3, CallTyped DEF Agreement, Agrees, Settled
  <2>2. CASE row[j].path # p
    BY <1>4, <1>5, <2>1, <2>2 DEF Live, Stays
  <2>3. CASE row[j].path = p
    BY <1>4, <1>5, <2>1, <2>3 DEF Live, Stays
  <2>4. QED
    BY <2>2, <2>3
<1>8. \A q : RowsAt(q)' = RowsAt(q)
  BY <1>4 DEF RowsAt
<1>9. p \in Clean' => RowsAt(p) \subseteq {i}
  <2>1. CASE stored[p] = None
    <3>1. p \in Clean => RowsAt(p) \subseteq {call[c].id}
      BY <1>1, <1>2, <1>4, <2>1 DEF Agrees, Knows
    <3>2. call[c].id # None => i = call[c].id
      BY <1>3 DEF Candidates
    <3>3. QED
      BY <1>6, <3>1, <3>2, FoundTyped, RegistryAssumption
  <2>2. CASE stored[p] = i
    <3>1. p \in Clean => \A j \in RowsAt(p) : stored[p] \in {j, None}
      BY DEF Agreement, RowsAgree, Clean
    <3>2. QED
      BY <1>5, <1>6, <2>2, <3>1
  <2>3. QED
    BY <1>6, <2>1, <2>2
<1>10. OneRowEach'
  BY <1>4, <1>6, <1>8 DEF Agreement, OneRowEach
<1>11. RowsAgree'
  <2>1. SUFFICES ASSUME NEW q \in Clean', NEW j \in RowsAt(q) PROVE stored'[q] \in {j, None}
    BY <1>8 DEF RowsAgree, Clean
  <2>2. CASE q = p
    BY <1>5, <1>9, <2>2
  <2>3. CASE q # p
    BY <1>5, <1>6, <2>3 DEF Agreement, RowsAgree, Clean
  <2>4. QED
    BY <2>2, <2>3
<1>12. Agrees(c)'
  <2>1. Knows(c)'
    BY <1>4, <1>5 DEF Knows
  <2>2. \A j \in call'[c].settled : Live(j)'
    BY <1>7 DEF Live, Stays
  <2>3. ~call[c].existed => call[c].existing \notin call[c].settled
    BY <1>1, <1>4 DEF Agrees, Settled
  <2>4. ~call'[c].existed => call'[c].existing \notin call'[c].settled
    BY <1>3, <1>4, <2>3
  <2>5. Settled(c)'
    BY <1>4, <2>2, <2>4 DEF Settled
  <2>6. QED
    BY <1>4, <2>1, <2>5 DEF Agrees
<1>13. ASSUME NEW d \in Calls \ {c} PROVE Agrees(d)'
  <2>1. Same(call'[d], call[d]) /\ Agrees(d)
    BY <1>4 DEF Others, Agreement
  <2>2. \A q \in Clean' : stored'[q] = stored[q] \/ stored[q] = None
    BY <1>5, <1>6 DEF Clean
  <2>3. Spares(d)
    BY <1>7, <1>8, <2>2 DEF Spares
  <2>4. QED
    BY <1>6, <2>1, <2>3, SparedAgrees
<1>14. QED
  BY <1>10, <1>11, <1>12, <1>13 DEF Agreement

LEMMA InitializationAgreement ==
  ASSUME Typed, Agreement, NEW c \in Calls, Initialization(c)
  PROVE  Agreement'
<1>1. PICK p \in Paths : p = call[c].at
  BY InitializationFacts
<1>2. /\ touched' = touched /\ Agrees(c) /\ ~call[c].strict
      /\ \A q \in Paths : folder'[q] = "nothing" => folder[q] = "nothing"
      /\ \A i \in call[c].settled : i \in Ids /\ Live(i)
  BY InitializationFacts
<1>3. CASE Create(c)
  <2>1. /\ UNCHANGED <<stored, row, replaced>> /\ call[c].pc = "create"
        /\ Others(c) /\ call'[c].pc = "read" /\ SameData(call'[c], call[c])
    BY <1>3, GotoFacts DEF Create, graph, world, Points
  <2>2. Clean' = Clean /\ \A q : RowsAt(q)' = RowsAt(q)
    BY <1>2, <2>1 DEF RowsAt, Clean
  <2>3. p \in Clean /\ stored[p] = None => RowsAt(p) \subseteq {call[c].id}
    BY <1>1, <1>2, <2>1 DEF Agrees, Knows
  <2>4. Agrees(c)'
    <3>1. call'[c].at \in Clean' => Knows(c)'
      BY <1>1, <2>1, <2>2, <2>3 DEF Knows, SameData, SameRest
    <3>2. Settled(c)'
      BY <1>2, <2>1 DEF Agrees, Settled, Live, SameData, SameRest
    <3>3. QED
      BY <1>2, <2>1, <3>1, <3>2 DEF Agrees, SameData, SameRest
  <2>5. QED
    BY <1>2, <2>1, <2>4, QuietAgreement
<1>4. CASE ReadStored(c)
  <2>1. /\ UNCHANGED <<stored, row, replaced>> /\ call[c].pc = "read"
        /\ Others(c) /\ SameRest(call'[c], call[c])
        /\ call'[c].existed = call[c].existed /\ call'[c].existing = call[c].existing
        /\ \/ call'[c].pc = "drop" /\ stored[p] # None
           \/ call'[c].pc = "identify" /\ stored[p] = None /\ call'[c].id = call[c].id
    BY <1>1, <1>4, ReadStoredFacts DEF ReadStored, stores, graph, world
  <2>2. Clean' = Clean /\ \A q : RowsAt(q)' = RowsAt(q)
    BY <1>2, <2>1 DEF RowsAt, Clean
  <2>3. p \in Clean /\ stored[p] = None => RowsAt(p) \subseteq {call[c].id}
    BY <1>1, <1>2, <2>1 DEF Agrees, Knows
  <2>4. Agrees(c)'
    <3>1. call'[c].at \in Clean' => Knows(c)'
      BY <1>1, <2>1, <2>2, <2>3 DEF Knows, SameRest
    <3>2. Settled(c)'
      BY <1>2, <2>1 DEF Agrees, Settled, Live, SameRest
    <3>3. QED
      BY <1>1, <1>2, <2>1, <3>1, <3>2 DEF Agrees, SameRest
  <2>5. QED
    BY <1>2, <2>1, <2>4, QuietAgreement
<1>5. CASE Identify(c)
  BY <1>5, IdentifyAgreement
<1>6. CASE DropStale(c)
  <2>1. /\ UNCHANGED <<folder, stored, replaced>> /\ call[c].pc = "drop"
        /\ Others(c) /\ call'[c].pc = "lookup" /\ call'[c].at = call[c].at /\ call'[c].strict = call[c].strict
        /\ row' = [j \in Ids |-> IF j \in Stale(c) THEN None ELSE row[j]]
        /\ \A d \in Calls : call'[d].settled = call[d].settled \ Stale(c)
    BY <1>6, DropStaleFacts DEF DropStale, stores, world
  <2>2. ASSUME NEW d \in Calls, NEW j \in call'[d].settled PROVE Stays(j) /\ Live(j)
    <3>1. j \in Ids /\ j \notin Stale(c) /\ Live(j)
      BY <2>1, CallTyped DEF Agreement, Agrees, Settled
    <3>2. QED
      BY <2>1, <3>1 DEF Stays, Live
  <2>3. \A q : RowsAt(q)' \subseteq RowsAt(q)
    BY <2>1 DEF RowsAt
  <2>4. Agrees(c)'
    <3>1. Settled(c)'
      BY <2>1, <2>2 DEF Settled, Live, Stays
    <3>2. Clean' = Clean
      BY <1>2, <2>1 DEF Clean
    <3>3. QED
      BY <1>2, <2>1, <3>1, <3>2 DEF Agrees, Knows
  <2>5. QED
    BY <1>2, <2>1, <2>2, <2>3, <2>4, GentleAgreement
<1>7. CASE Lookup(c)
  <2>1. /\ UNCHANGED <<folder, stored, row, replaced>> /\ call[c].pc = "lookup"
        /\ Others(c) /\ SameRest(call'[c], call[c])
        /\ call'[c].pc = "seek" /\ call'[c].existing \in Found(p)
    BY <1>1, <1>7, LookupFacts DEF Lookup, stores, graph, world
  <2>2. Clean' = Clean
    BY <1>2, <2>1 DEF Clean
  <2>3. p \in Clean => stored[p] # None /\ call'[c].existing \in {None, stored[p]}
    <3>1. p \in Clean => stored[p] # None
      BY <1>1, <1>2, <2>1 DEF Agrees, Knows
    <3>2. p \in Clean => \A j \in RowsAt(p) : stored[p] \in {j, None}
      BY DEF Agreement, RowsAgree, Clean
    <3>3. QED
      BY <2>1, <3>1, <3>2, FoundTyped
  <2>4. Agrees(c)'
    <3>1. call'[c].at \in Clean' => Knows(c)'
      BY <1>1, <1>2, <2>1, <2>2, <2>3 DEF Knows, SameRest
    <3>2. Settled(c)'
      BY <1>2, <2>1 DEF Settled, Live, SameRest
    <3>3. QED
      BY <2>1, <3>1, <3>2 DEF Agrees, InitSteps
  <2>5. QED
    BY <1>2, <2>1, <2>4, QuietAgreement
<1>8. QED
  BY <1>3, <1>4, <1>5, <1>6, <1>7 DEF Initialization

\* The steps about the default: only a deletion changes a row.
LEMMA DefaultingAgreement ==
  ASSUME Typed, Agreement, NEW c \in Calls, Defaulting(c)
  PROVE  Agreement'
<1>1. CASE Choose(c)
  <2>1. /\ UNCHANGED <<stores, folder, stored, row, touched, replaced>>
        /\ call[c].pc = "choose" /\ Agrees(c)
    BY <1>1 DEF Choose, stores, world, Agreement
  <2>2. CASE Return(c)
    BY <2>1, <2>2, EndAgreement
  <2>3. CASE Goto(c, "confirm")
    <3>1. Others(c) /\ call'[c].pc = "confirm" /\ SameData(call'[c], call[c])
      BY <2>3, GotoFacts DEF Points
    <3>2. Agrees(c)'
      BY <2>1, <3>1 DEF Agrees, Knows, Settled, Live, InitSteps, SameData, SameRest
    <3>3. QED
      BY <2>1, <3>1, <3>2, QuietAgreement
  <2>4. QED
    BY <1>1, <2>2, <2>3 DEF Choose
<1>2. CASE Confirm(c)
  BY <1>2, EndAgreement DEF Confirm, world
<1>3. CASE Delete(c)
  <2>1. /\ UNCHANGED <<folder, stored, touched, replaced>>
        /\ row' = [row EXCEPT ![call[c].id] = None]
        /\ Others(c) /\ call'[c].pc \in {"idle", "clear"} /\ call'[c].settled = {}
        /\ \A d \in Calls : call'[d].settled \subseteq call[d].settled \ {call[c].id}
    <3>1. /\ UNCHANGED <<folder, stored, touched, replaced>>
          /\ row' = [row EXCEPT ![call[c].id] = None]
      BY <1>3 DEF Delete, stores, world
    <3>2. /\ Others(c) /\ call'[c].settled = {}
          /\ call'[c].pc = (IF call[c].wasDefault THEN "clear" ELSE "idle")
      BY <1>3, DeleteFacts
    <3>3. \A d \in Calls : /\ call'[d].settled \subseteq call[d].settled
                            /\ call[c].id \notin call'[d].settled
      BY <1>3, DeleteFacts
    <3>4. QED
      BY <3>1, <3>2, <3>3
  <2>2. row \in [Ids -> Row \cup {None}]
    BY WorldOfTyped DEF WorldTyped
  <2>3. ASSUME NEW d \in Calls, NEW j \in call'[d].settled PROVE Stays(j) /\ Live(j)
    <3>1. j \in Ids /\ j # call[c].id /\ Live(j)
      BY <2>1, CallTyped DEF Agreement, Agrees, Settled
    <3>2. QED
      BY <2>1, <2>2, <3>1 DEF Stays, Live
  <2>4. \A q : RowsAt(q)' \subseteq RowsAt(q)
    BY <2>1, <2>2 DEF RowsAt
  <2>5. Agrees(c)'
    BY <2>1, IdleAgrees
  <2>6. QED
    BY <2>1, <2>3, <2>4, <2>5, GentleAgreement
<1>4. CASE Clear(c)
  BY <1>4, EndAgreement DEF Clear, world
<1>5. QED
  BY <1>1, <1>2, <1>3, <1>4 DEF Defaulting

\* What an archival leaves of the rows.
LEMMA ArchivalFacts ==
  ASSUME Typed, NEW c \in Calls, PruneNext(c)
  PROVE  \A j \in Ids : /\ row'[j] = None <=> row[j] = None
                        /\ row[j] # None => row'[j].path = row[j].path
                        /\ \/ row'[j] = row[j]
                           \/ \E e \in call[c].left : e.id = j /\ folder[e.path] # "store"
<1>1. row \in [Ids -> Row \cup {None}] /\ None \notin Row /\ call[c].left \subseteq [id : Ids, path : Paths]
  BY WorldOfTyped, CallTyped, RegistryAssumption DEF WorldTyped, Row
<1>2. PICK e \in call[c].left :
        row' = IF folder[e.path] # "store" /\ row[e.id] # None
               THEN [row EXCEPT ![e.id].active = FALSE] ELSE row
  BY PruneNextFacts
<1>3. CASE row' = row
  BY <1>3
<1>4. CASE /\ folder[e.path] # "store" /\ row[e.id] # None
           /\ row' = [row EXCEPT ![e.id].active = FALSE]
  <2>1. e.id \in Ids /\ row[e.id] \in Row
    BY <1>1, <1>4
  <2>2. row' = [row EXCEPT ![e.id] = [row[e.id] EXCEPT !.active = FALSE]]
    BY <1>4
  <2>3. \A r \in Row : LET s == [r EXCEPT !.active = FALSE] IN s \in Row /\ s.path = r.path
    BY DEF Row
  <2>4. row'[e.id] # None /\ row'[e.id].path = row[e.id].path /\ \A j \in Ids \ {e.id} : row'[j] = row[j]
    BY <1>1, <2>1, <2>2, <2>3
  <2>5. QED
    BY <1>4, <2>4
<1>5. QED
  BY <1>2, <1>3, <1>4

LEMMA PruneNextAgreement ==
  ASSUME Typed, Agreement, NEW c \in Calls, PruneNext(c)
  PROVE  Agreement'
<1>1. UNCHANGED <<folder, stored, touched, replaced>> /\ call[c].pc = "prune" /\ Agrees(c)
  BY DEF PruneNext, stores, world, Agreement
<1>2. /\ Others(c)
      /\ \/ call'[c].pc = "idle" /\ call'[c].settled = {}
         \/ /\ call'[c].pc = "prune" /\ call'[c].left \subseteq call[c].left
            /\ SameRest(call'[c], call[c])
  BY PruneNextFacts
<1>3. \A q : RowsAt(q)' \subseteq RowsAt(q)
  BY ArchivalFacts DEF RowsAt
<1>4. \A d \in Calls : call'[d].settled \subseteq call[d].settled
  BY <1>2 DEF Others, Same, SameRest
<1>5. ASSUME NEW d \in Calls, NEW j \in call'[d].settled PROVE Stays(j) /\ Live(j)
  <2>1. j \in Ids /\ Live(j)
    BY <1>4, CallTyped DEF Agreement, Agrees, Settled
  <2>2. QED
    BY <1>1, <2>1, ArchivalFacts DEF Stays, Live
<1>6. Agrees(c)'
  <2>1. \A j \in call'[c].settled : Live(j)'
    BY <1>1, <1>5 DEF Live, Stays
  <2>2. call'[c].pc = "prune" => \A e \in call'[c].left : e.id \in call'[c].settled => e.path = row'[e.id].path
    BY <1>1, <1>2, <1>4, <1>5 DEF Agrees, Settled, Stays
  <2>3. QED
    BY <1>2, <2>1, <2>2 DEF Agrees, Knows, Settled, InitSteps
<1>7. QED
  BY <1>1, <1>2, <1>3, <1>5, <1>6, GentleAgreement

LEMMA OperatorAgreement ==
  ASSUME Typed, Agreement, Operator
  PROVE  Agreement'
<1>1. /\ \A c \in Calls : IsIdle(c)
      /\ UNCHANGED <<row, call, replaced>> /\ touched \subseteq touched'
      /\ \A p \in Paths \ touched' :
           \/ folder'[p] = folder[p] /\ stored'[p] = stored[p]
           \/ folder[p] = "store" /\ folder'[p] # "nothing" /\ stored'[p] = None
  BY OperatorFacts DEF graph
<1>2. \A q : RowsAt(q)' = RowsAt(q)
  BY <1>1 DEF RowsAt
<1>3. OneRowEach'
  BY <1>1, <1>2 DEF Agreement, OneRowEach, Clean
<1>4. RowsAgree'
  BY <1>1, <1>2 DEF Agreement, RowsAgree
<1>5. \A c \in Calls : call'[c].pc = "idle" /\ call'[c].settled = {}
  BY <1>1, CallTyped DEF IsIdle, CallFits
<1>6. QED
  BY <1>3, <1>4, <1>5, IdleAgrees DEF Agreement

LEMMA AgreementNext ==
  ASSUME Typed, Agreement, [Next]_vars
  PROVE  Agreement'
<1>1. CASE UNCHANGED vars
  BY <1>1 DEF vars, stores, graph, world, Agreement, OneRowEach, RowsAgree, RowsAt, Clean,
              Agrees, Knows, Settled, Live
<1>2. CASE Operator
  BY <1>2, OperatorAgreement
<1>3. ASSUME NEW c \in Calls, CallStep(c)
      PROVE  Agreement'
  <2>1. CASE \E p \in Paths : \/ \E chosen \in Choices : Register(c, p, chosen)
                              \/ Adopt(c, p) \/ Unregister(c, p) \/ InitProject(c, p)
    BY <2>1, BeginningAgreement
  <2>2. CASE Registration(c)
    BY <2>2, SeekAgreement, MintAgreement, CheckAgreement, UpsertAgreement DEF Registration
  <2>3. CASE Initialization(c) \/ Defaulting(c) \/ Prune(c) \/ PruneNext(c)
    BY <2>3, InitializationAgreement, DefaultingAgreement, PruneAgreement, PruneNextAgreement
  <2>4. QED
    BY <1>3, <2>1, <2>2, <2>3 DEF CallStep
<1>4. ASSUME NEW c \in Calls, Die(c)
      PROVE  Agreement'
  BY <1>4, EndAgreement DEF Die, graph, world
<1>5. QED
  BY <1>1, <1>2, <1>3, <1>4 DEF Next

LEMMA AgreementInit == Init => Agreement
<1> SUFFICES ASSUME Init PROVE Agreement
  OBVIOUS
<1>1. /\ \A c \in Calls : call[c].pc = "idle" /\ call[c].settled = {}
      /\ \A p : RowsAt(p) = {}
  BY IdleFacts DEF Init, RowsAt
<1>2. QED
  BY <1>1 DEF Agreement, OneRowEach, RowsAgree, Agrees, Knows, Settled, InitSteps

LEMMA AlwaysAgreement == Spec => []Agreement
<1>1. Typed /\ Agreement /\ [Next]_vars => Agreement'
  BY AgreementNext
<1>2. QED
  BY <1>1, AgreementInit, AlwaysTyped, PTL DEF Spec

\* Whatever registrations, inits, removals and deaths come between each other, a folder
\* that the operator left in its place has a row of one id and a store with another
\* only if an init wrote its id over one that was stored since it looked.
THEOREM RowsAgreeWithStores == Spec => []RowsAgree
<1>1. Agreement => RowsAgree
  BY DEF Agreement
<1>2. QED
  BY <1>1, AlwaysAgreement, PTL

\* Only the call of a step is seen to act.
LEMMA OthersDoNotAct ==
  ASSUME Typed, Typed', NEW c \in Calls, Others(c), NEW d \in Calls \ {c}
  PROVE  ~Acts(d)
<1>1. call'[d] \in Call /\ call[d] \in Call /\ Same(call'[d], call[d])
  BY DEF Typed, TypeOK, Others
<1>2. \A k, l \in Call : Same(k, l) => [k EXCEPT !.settled = {}] = [l EXCEPT !.settled = {}]
  BY DEF Same, Call
<1>3. QED
  BY <1>1, <1>2 DEF Acts

\* A call leaves the rows that were settled for it, unless it removes a project.
LEMMA CallKeepsSettled ==
  ASSUME Typed, Agreement, NEW c \in Calls, CallStep(c) \/ Die(c), call[c].pc # "delete",
         NEW i \in call[c].settled
  PROVE  row'[i] # None /\ row'[i].path = row[i].path /\ (row[i].active => row'[i].active)
<1>1. i \in Ids /\ Live(i) /\ row[i] # None /\ Settled(c)
  BY CallTyped DEF Agreement, Agrees, Settled, Live
<1>2. row \in [Ids -> Row \cup {None}] /\ row[i].path \in Paths
  BY <1>1, WorldOfTyped DEF WorldTyped, Row
<1>3. CASE row' = row
  BY <1>1, <1>3
<1>4. CASE Upsert(c)
  <2>1. /\ call[c].pc = "upsert" /\ call[c].id \in Ids \cup {None}
        /\ row' = [row EXCEPT ![call[c].id] = [path |-> call[c].at, active |-> TRUE]]
    BY <1>4, CallTyped DEF Upsert
  <2>2. CASE call[c].id # i
    BY <1>1, <1>2, <2>1, <2>2
  <2>3. CASE call[c].id = i
    <3>1. row[i].path = call[c].at
      BY <1>1, <2>1, <2>3 DEF Settled
    <3>2. row'[i] = [path |-> call[c].at, active |-> TRUE]
      BY <1>1, <1>2, <2>1, <2>3
    <3>3. row'[i] \in [path : Paths, active : BOOLEAN]
      BY <1>2, <3>1, <3>2
    <3>4. row'[i] # None
      BY <3>3, RegistryAssumption
    <3>5. row'[i].path = row[i].path /\ row'[i].active
      BY <3>1, <3>2
    <3>6. QED
      BY <3>4, <3>5
  <2>4. QED
    BY <2>2, <2>3
<1>5. CASE DropStale(c)
  <2>1. call[c].pc = "drop" /\ row' = [j \in Ids |-> IF j \in Stale(c) THEN None ELSE row[j]]
    BY <1>5, DropStaleFacts DEF DropStale
  <2>2. i \notin Stale(c)
    BY <1>1, <2>1 DEF Stale, Settled
  <2>3. QED
    BY <1>1, <2>1, <2>2
<1>6. CASE PruneNext(c)
  <2>1. /\ row'[i] # None /\ row'[i].path = row[i].path
        /\ row'[i] = row[i] \/ \E e \in call[c].left : e.id = i /\ folder[e.path] # "store"
    BY <1>1, <1>6, ArchivalFacts
  <2>2. folder[row[i].path] = "store"
    BY <1>1, <1>2, WorldOfTyped, RegistryAssumption DEF Live, WorldTyped
  <2>3. \A e \in call[c].left : e.id = i => e.path = row[i].path
    BY <1>1, <1>6 DEF PruneNext, Settled
  <2>4. QED
    BY <2>1, <2>2, <2>3
<1>7. CASE row' # row
  <2>1. Upsert(c) \/ DropStale(c) \/ PruneNext(c)
    BY <1>7 DEF CallStep, Die, Register, Adopt, Unregister, InitProject, Registration, Seek, Mint, Check,
       Initialization, Create, ReadStored, Identify, Lookup, Defaulting, Choose, Confirm, Delete, Clear,
       Prune, graph
  <2>2. QED
    BY <2>1, <1>4, <1>5, <1>6
<1>8. QED
  BY <1>3, <1>7

LEMMA CallMoves ==
  ASSUME Typed, NEW c \in Calls, CallStep(c) \/ Die(c)
  PROVE  Others(c)
<1>1. CASE \E p \in Paths : Unregister(c, p)
  BY <1>1, UnregisterFacts
<1>2. CASE Defaulting(c)
  <2>1. CASE Choose(c)
    BY <2>1, ReturnFacts, GotoFacts DEF Choose, Points
  <2>2. CASE Confirm(c) \/ Clear(c)
    BY <2>2, ReturnFacts DEF Confirm, Clear
  <2>3. CASE Delete(c)
    BY <2>3, DeleteFacts
  <2>4. QED
    BY <1>2, <2>1, <2>2, <2>3 DEF Defaulting
<1>3. CASE ~Defaulting(c) /\ ~ \E p \in Paths : Unregister(c, p)
  BY <1>3, UndecidedSteps DEF CallStep, Undecided
<1>4. QED
  BY <1>1, <1>2, <1>3

\* The row of a store that is there since before a call began is neither moved nor
\* archived by that call, however many others are under way.
THEOREM SettledRowsAreKept == Spec => SettledIsKept
<1> DEFINE A == \A c \in Calls : \A i \in call[c].settled :
       (Acts(c) /\ call[c].pc # "delete")
         => /\ row'[i] # None /\ row'[i].path = row[i].path
            /\ row[i].active => row'[i].active
<1>1. Typed /\ Agreement /\ [Next]_vars => [A]_vars
  <2> SUFFICES ASSUME Typed, Agreement, Next, NEW c \in Calls, NEW i \in call[c].settled,
                      Acts(c), call[c].pc # "delete"
               PROVE  /\ row'[i] # None /\ row'[i].path = row[i].path
                      /\ row[i].active => row'[i].active
    OBVIOUS
  <2>1. Typed'
    BY TypedNext
  <2>2. CASE Operator
    BY <2>2, OperatorFacts DEF Acts
  <2>3. ASSUME NEW d \in Calls, CallStep(d) \/ Die(d)
        PROVE  /\ row'[i] # None /\ row'[i].path = row[i].path
               /\ row[i].active => row'[i].active
    <3>1. c = d
      BY <2>1, <2>3, CallMoves, OthersDoNotAct
    <3>2. QED
      BY <2>3, <3>1, CallKeepsSettled
  <2>4. QED
    BY <2>2, <2>3 DEF Next
<1>2. QED
  BY <1>1, AlwaysTyped, AlwaysAgreement, PTL DEF Spec, SettledIsKept

=============================================================================
