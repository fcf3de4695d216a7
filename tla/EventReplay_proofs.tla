------------------------- MODULE EventReplay_proofs -------------------------
(***************************************************************************)
(* Proofs about EventReplay, for any number of stores, calls in flight,    *)
(* records and events.  That nothing is skipped, and that stores that are  *)
(* through agree, is proved for machines whose clocks agree and tick from  *)
(* one record to the next.                                                 *)
(***************************************************************************)
EXTENDS EventReplay, SequenceTheorems, WellFoundedInduction, TLAPS

-----------------------------------------------------------------------------
(* Least and greatest numbers. *)

LEMMA LeastOf ==
  ASSUME NEW S \in SUBSET Nat, S # {}
  PROVE  \E m \in S : \A k \in S : m <= k
<1>1. PICK m \in S : \A k \in S : ~(<<k, m>> \in OpToRel(<, Nat))
  BY NatLessThanWellFounded, WFMin
<1>2. \A k \in S : ~(k < m)
  BY <1>1 DEF OpToRel
<1>3. QED
  BY <1>2

LEMMA GreatestOf ==
  ASSUME NEW S \in SUBSET Nat, S # {}, NEW b \in Nat, \A k \in S : k <= b
  PROVE  \E m \in S : \A k \in S : k <= m
<1> DEFINE T == {b - k : k \in S}
<1>1. T \in SUBSET Nat /\ T # {}
  <2>1. \A k \in S : b - k \in Nat
    OBVIOUS
  <2>2. QED
    BY <2>1
<1>2. PICK t \in T : \A u \in T : t <= u
  BY <1>1, LeastOf
<1>3. PICK m \in S : t = b - m
  OBVIOUS
<1>4. \A k \in S : b - m <= b - k
  BY <1>2, <1>3
<1>5. \A k \in S : k <= m
  BY <1>4
<1>6. QED
  BY <1>5

LEMMA MaxOf ==
  ASSUME NEW S \in SUBSET Nat, S # {}, NEW b \in Nat, \A k \in S : k <= b
  PROVE  Max(S) \in S /\ \A k \in S : k <= Max(S)
<1>1. PICK m \in S : \A k \in S : m >= k
  BY GreatestOf
<1>2. QED
  BY <1>1 DEF Max

-----------------------------------------------------------------------------
(* Types. *)

Ids == [of : Stores \cup {None}, n : Nat]

LEMMA RecordIds == \A r \in Record : r.id \in Ids /\ r.id.n \in Nat /\ r.at \in Nat /\ r.text \in Texts
BY DEF Record, Ids

Places == {"idle", "push", "merge", "cursor", "state", "seed"}

CallRecord == [pc : Places, since : Nat, todo : SUBSET Record, plans : SUBSET Nat, done : Nat,
               failed : SUBSET Record, from : Nat, to : Nat, more : BOOLEAN, gap : BOOLEAN]

CallTyped(c) ==
  /\ call[c] \in CallRecord
  /\ call[c].todo \cup call[c].failed \subseteq rows[StoreOf(c)]
  /\ call[c].from <= Len(log) /\ call[c].to <= Len(log)
  /\ call[c].pc = "idle" => call[c] = IdleCall
  /\ call[c].pc = "state" => call[c].from = 0 /\ call[c].gap = FALSE

\* The records that are anywhere.
Everything == (UNION {rows[s] : s \in Stores}) \cup {log[i] : i \in 1..Len(log)}

Unique(S) == \A q, r \in S : q.id = r.id => q = r

Typed ==
  /\ rows \in [Stores -> SUBSET Record] /\ \A s \in Stores : Unique(rows[s])
  /\ planned \in [Stores -> SUBSET Nat]
  /\ behind \in [Stores -> SUBSET Record]
  /\ pushed \in [Stores -> Nat]
  /\ pulled \in [Stores -> Nat] /\ \A s \in Stores : pulled[s] <= Len(log)
  /\ log \in Seq(Record)
  /\ call \in [Calls -> CallRecord]
  /\ \A c \in Calls : CallTyped(c)
  /\ now \in Nat
  /\ failures \in [Stores -> SUBSET Texts]
  /\ gaps \subseteq Stores
  /\ \E b \in Nat : \A r \in Everything : r.id.n <= b

LEMMA TypedIsTypeOK == Typed => TypeOK
BY DEF Typed, TypeOK, CallTyped, CallRecord, Places, Unique

LEMMA InEverything ==
  ASSUME NEW r
  PROVE  r \in Everything <=> (\E s \in Stores : r \in rows[s]) \/ (\E i \in 1..Len(log) : r = log[i])
BY DEF Everything

LEMMA EverythingIsRecords == Typed => Everything \subseteq Record
<1> SUFFICES ASSUME Typed, NEW r \in Everything PROVE r \in Record
  OBVIOUS
<1>1. CASE \E s \in Stores : r \in rows[s]
  BY <1>1 DEF Typed
<1>2. CASE \E i \in 1..Len(log) : r = log[i]
  <2>1. log \in Seq(Record)
    BY DEF Typed
  <2>2. QED
    BY <1>2, <2>1
<1>3. QED
  BY <1>1, <1>2, InEverything

LEMMA StoreIsAStore == \A c \in Calls : StoreOf(c) \in Stores
BY EventReplayAssumption DEF StoreOf

LEMMA IdleIsACall ==
  /\ IdleCall \in CallRecord /\ IdleCall.pc = "idle" /\ IdleCall.todo = {} /\ IdleCall.failed = {}
  /\ IdleCall.plans = {} /\ IdleCall.since = 0
  /\ IdleCall.from = 0 /\ IdleCall.to = 0 /\ IdleCall.done = 0 /\ IdleCall.gap = FALSE
BY DEF IdleCall, CallRecord, Places

LEMMA TypedInit == Init => Typed
<1> SUFFICES ASSUME Init PROVE Typed
  OBVIOUS
<1>1. Everything = {}
  BY DEF Init, Everything
<1>2. \A c \in Calls : CallTyped(c)
  BY IdleIsACall, StoreIsAStore DEF Init, CallTyped
<1>3. QED
  BY <1>1, <1>2, IdleIsACall DEF Init, Typed, Unique, CallRecord

\* The next id of a store is none that is in it.
LEMMA NextIdIsFresh ==
  ASSUME Typed, NEW s \in Stores
  PROVE  NextId(s) \in Ids /\ \A r \in rows[s] : r.id # NextId(s)
<1> DEFINE of == IF Numbered THEN None ELSE s
           ids == {x \in IdsIn(rows[s]) : x.of = of}
           S == {0} \cup {id.n : id \in ids}
<1>1. rows[s] \in SUBSET Record /\ rows[s] \subseteq Everything
  BY DEF Typed, Everything
<1>2. PICK b \in Nat : \A r \in Everything : r.id.n <= b
  BY DEF Typed
<1>3. \A id \in ids : id \in Ids /\ id.n <= b
  BY <1>1, <1>2, RecordIds DEF IdsIn
<1>4. S \in SUBSET Nat /\ S # {} /\ \A k \in S : k <= b
  BY <1>3 DEF Ids
<1>5. Max(S) \in S /\ \A k \in S : k <= Max(S)
  BY <1>4, MaxOf
<1>6. NextId(s) = [of |-> of, n |-> 1 + Max(S)]
  BY DEF NextId
<1>7. NextId(s) \in Ids
  BY <1>4, <1>5, <1>6, EventReplayAssumption DEF Ids
<1>8. ASSUME NEW r \in rows[s], r.id = NextId(s)
      PROVE  FALSE
  <2>1. r.id.of = of /\ r.id.n = 1 + Max(S)
    BY <1>6, <1>8
  <2>2. r.id \in ids
    BY <2>1 DEF IdsIn
  <2>3. 1 + Max(S) \in S
    BY <2>1, <2>2
  <2>4. QED
    BY <1>4, <1>5, <2>3
<1>9. QED
  BY <1>7, <1>8

\* What a page, or the mirror, has for a table.
LEMMA IncomingIsFromTheLog ==
  ASSUME Typed, NEW c \in Calls, call[c].pc \in {"merge", "state"}
  PROVE  /\ \A r \in Incoming(c) : \E i \in 1..Len(log) : r = log[i]
         /\ Unique(Incoming(c))
         /\ \A i \in (call[c].from + 1)..call[c].to : \E r \in Incoming(c) : r.id = log[i].id
<1> DEFINE page == (call[c].from + 1)..call[c].to
           Stays(i, j) == IF call[c].pc = "merge" THEN i <= j ELSE j <= i
           Kept == {x \in page : \A j \in page : log[j].id = log[x].id => Stays(x, j)}
<1>1. call[c].from \in Nat /\ call[c].to \in Nat /\ call[c].to <= Len(log) /\ Len(log) \in Nat
  BY DEF Typed, CallTyped, CallRecord
<1>2. page \subseteq 1..Len(log) /\ page \subseteq Nat
  BY <1>1
<1>3. Incoming(c) = {log[i] : i \in Kept}
  BY DEF Incoming
<1>4. ASSUME NEW i \in page
      PROVE  \E x \in Kept : log[x].id = log[i].id
  <2> DEFINE same == {x \in page : log[x].id = log[i].id}
  <2>1. same \in SUBSET Nat /\ i \in same /\ \A k \in same : k <= Len(log)
    BY <1>1, <1>2
  <2>2. \E x \in same : \A k \in same : Stays(x, k)
    <3>1. CASE call[c].pc = "merge"
      <4>1. PICK x \in same : \A k \in same : x <= k
        BY <2>1, LeastOf
      <4>2. QED
        BY <3>1, <4>1
    <3>2. CASE call[c].pc # "merge"
      <4>1. PICK x \in same : \A k \in same : k <= x
        BY <1>1, <2>1, GreatestOf
      <4>2. QED
        BY <3>2, <4>1
    <3>3. QED
      BY <3>1, <3>2
  <2>3. PICK x \in same : \A k \in same : Stays(x, k)
    BY <2>2
  <2>4. x \in Kept
    BY <2>3
  <2>5. QED
    BY <2>3, <2>4
<1>5. ASSUME NEW x \in Kept, NEW y \in Kept, log[x].id = log[y].id
      PROVE  x = y
  <2>1. x \in Nat /\ y \in Nat /\ Stays(x, y) /\ Stays(y, x)
    BY <1>2, <1>5
  <2>2. QED
    BY <2>1
<1> HIDE DEF Kept
<1>6. Kept \subseteq 1..Len(log)
  BY <1>2 DEF Kept
<1>7. QED
  BY <1>3, <1>4, <1>5, <1>6 DEF Unique

\* What stays as it is in a step of another call.
LEMMA CallStays ==
  ASSUME Typed, NEW e \in Calls, call'[e] = call[e], rows[StoreOf(e)] \subseteq rows'[StoreOf(e)],
         Len(log) <= Len(log)', Len(log)' \in Nat
  PROVE  CallTyped(e)'
<1>1. CallTyped(e) /\ Len(log) \in Nat
  BY DEF Typed
<1>2. QED
  BY <1>1 DEF CallTyped, CallRecord

\* Steps of a call that leave tables and log alone.
LEMMA QuietTyped ==
  ASSUME Typed, NEW c \in Calls, NEW k, call' = [call EXCEPT ![c] = k], rows' = rows, log' = log,
         CallTyped(c)'
  PROVE  /\ rows' \in [Stores -> SUBSET Record] /\ \A s \in Stores : Unique(rows'[s])
         /\ log' \in Seq(Record)
         /\ call' \in [Calls -> CallRecord]
         /\ \A e \in Calls : CallTyped(e)'
         /\ \E b \in Nat : \A r \in Everything' : r.id.n <= b
<1>1. call' \in [Calls -> CallRecord]
  BY DEF Typed, CallTyped
<1>2. Everything' = Everything
  BY DEF Everything
<1>3. ASSUME NEW e \in Calls, e # c
      PROVE  CallTyped(e)'
  <2>1. call'[e] = call[e] /\ Len(log) \in Nat
    BY <1>3 DEF Typed
  <2>2. QED
    BY <2>1, CallStays
<1>4. QED
  BY <1>1, <1>2, <1>3 DEF Typed

\* Steps that leave every variable but the calls.
LEMMA CallOnlyTyped ==
  ASSUME Typed, NEW c \in Calls, NEW k, call' = [call EXCEPT ![c] = k], CallTyped(c)',
         UNCHANGED <<rows, planned, pushed, pulled, log, now, failures, gaps, behind>>
  PROVE  Typed'
BY QuietTyped DEF Typed

LEMMA CreateTyped ==
  ASSUME Typed, NEW s \in Stores, NEW text \in Texts, NEW tick \in Ticks, Create(s, text, tick)
  PROVE  Typed'
<1> DEFINE new == [id |-> NextId(s), by |-> s, at |-> Date(s), text |-> text]
<1>1. Date(s) \in Nat /\ now' \in Nat
  <2>1. now \in Nat /\ now' = now + tick
    BY DEF Typed, Create
  <2>2. tick \in Nat /\ Ahead[s] \in Nat
    BY EventReplayAssumption
  <2>3. QED
    BY <2>1, <2>2 DEF Date
<1>2. new \in Record /\ \A r \in rows[s] : r.id # new.id
  BY <1>1, NextIdIsFresh DEF Record, Ids
<1>3. rows' = [rows EXCEPT ![s] = rows[s] \cup {new}]
  BY DEF Create
<1>4. new.id.n \in Nat
  BY <1>2, RecordIds
<1> HIDE DEF new
<1>5. rows' \in [Stores -> SUBSET Record] /\ \A t \in Stores : Unique(rows'[t])
  BY <1>2, <1>3 DEF Typed, Unique
<1>6. Everything' \subseteq Everything \cup {new}
  <2>1. \A t \in Stores : rows'[t] \subseteq rows[t] \cup {new}
    BY <1>3 DEF Typed
  <2>2. log' = log
    BY DEF Create
  <2>3. QED
    BY <2>1, <2>2 DEF Everything
<1>7. \E b \in Nat : \A r \in Everything' : r.id.n <= b
  <2>1. PICK b \in Nat : \A r \in Everything : r.id.n <= b
    BY DEF Typed
  <2>2. \A r \in Everything : r.id.n \in Nat
    BY RecordIds, EverythingIsRecords
  <2>3. \A r \in Everything' : r.id.n <= b + new.id.n
    BY <1>4, <1>6, <2>1, <2>2
  <2>4. b + new.id.n \in Nat
    BY <1>4
  <2>5. QED
    BY <2>3, <2>4
<1>8. \A c \in Calls : CallTyped(c)'
  <2>1. /\ \A t \in Stores : rows[t] \subseteq rows'[t]
        /\ call' = call /\ log' = log /\ Len(log) \in Nat
    BY <1>3 DEF Typed, Create
  <2>2. QED
    BY <2>1, StoreIsAStore, CallStays
<1>9. behind' \in [Stores -> SUBSET Record]
  <2>1. behind' \in {behind, [behind EXCEPT ![s] = @ \cup {new}]}
    BY DEF Create, new
  <2>2. QED
    BY <1>2, <2>1 DEF Typed
<1>10. UNCHANGED <<planned, pushed, pulled, log, call, failures, gaps>>
  BY DEF Create
<1>11. QED
  BY <1>1, <1>5, <1>7, <1>8, <1>9, <1>10 DEF Typed

LEMMA PlanTyped ==
  ASSUME Typed, NEW s \in Stores, NEW lead \in Leads[s], Plan(s, lead)
  PROVE  Typed'
<1>1. Date(s) + lead \in Nat
  BY EventReplayAssumption DEF Typed, Date
<1>2. planned' = [planned EXCEPT ![s] = @ \cup {Date(s) + lead}]
  BY DEF Plan
<1>3. planned' \in [Stores -> SUBSET Nat]
  BY <1>1, <1>2 DEF Typed
<1>4. UNCHANGED <<rows, pushed, pulled, log, call, now, failures, gaps, behind>>
  BY DEF Plan
<1>5. \A c \in Calls : CallTyped(c)'
  BY <1>4 DEF Typed, CallTyped
<1>6. Everything' = Everything
  BY <1>4 DEF Everything
<1>7. QED
  BY <1>3, <1>4, <1>5, <1>6 DEF Typed

LEMMA ReplayTyped ==
  ASSUME Typed, NEW c \in Calls, Replay(c)
  PROVE  Typed'
<1> DEFINE s == StoreOf(c)
           plans == {p \in planned[s] : p > pushed[s]}
           k == [call[c] EXCEPT !.pc = "push", !.since = pushed[s], !.todo = Deduplicated(Since(s)),
                                !.plans = plans]
<1>1. call[c] = IdleCall /\ call[c] \in CallRecord /\ s \in Stores
  BY StoreIsAStore DEF Replay, Typed, CallTyped
<1>2. call' = [call EXCEPT ![c] = k]
  BY DEF Replay, Typed
<1>3. Deduplicated(Since(s)) \subseteq rows[s] /\ rows[s] \subseteq Record /\ plans \in SUBSET Nat
  BY <1>1 DEF Deduplicated, Since, Typed
<1>4. k \in CallRecord /\ k.pc = "push" /\ k.todo \cup k.failed \subseteq rows[s] /\ k.from = 0 /\ k.to = 0
  BY <1>1, <1>3, IdleIsACall DEF CallRecord, Places, Typed
<1> HIDE DEF k, plans
<1>5. call'[c] = k /\ Len(log) \in Nat
  BY <1>2 DEF Typed
<1>6. CallTyped(c)'
  <2>1. rows' = rows /\ log' = log
    BY DEF Replay
  <2>2. QED
    BY <1>4, <1>5, <2>1 DEF CallTyped
<1>7. QED
  BY <1>2, <1>6, CallOnlyTyped DEF Replay

\* The log after a push, and what is anywhere then.
LEMMA PushedEvents ==
  ASSUME Typed, NEW c \in Calls, NEW r \in call[c].todo, log' \in {log, Append(log, r)}, rows' = rows
  PROVE  /\ log' \in Seq(Record) /\ Len(log)' \in Nat /\ Len(log) <= Len(log)'
         /\ \A i \in 1..Len(log)' : (i \in 1..Len(log) /\ log'[i] = log[i]) \/ log'[i] = r
         /\ Everything' \subseteq Everything
<1>1. log \in Seq(Record) /\ Len(log) \in Nat
  BY DEF Typed
<1>2. r \in Record /\ r \in Everything
  BY StoreIsAStore DEF Typed, CallTyped, CallRecord, Everything
<1>3. /\ log' \in Seq(Record) /\ Len(log)' \in Nat /\ Len(log) <= Len(log)'
      /\ \A i \in 1..Len(log)' : (i \in 1..Len(log) /\ log'[i] = log[i]) \/ log'[i] = r
  <2>1. CASE log' = log
    BY <1>1, <2>1
  <2>2. CASE log' = Append(log, r)
    <3>1. /\ Append(log, r) \in Seq(Record) /\ Len(Append(log, r)) = Len(log) + 1
          /\ \A i \in 1..Len(log) : Append(log, r)[i] = log[i]
          /\ Append(log, r)[Len(log) + 1] = r
      BY <1>1, <1>2, AppendProperties
    <3>2. QED
      BY <1>1, <2>2, <3>1
  <2>3. QED
    BY <2>1, <2>2
<1>4. QED
  BY <1>2, <1>3 DEF Everything

\* A call after the event of a sprint.
LEMMA PushedSprint ==
  ASSUME Typed, NEW c \in Calls, PushSprint(c)
  PROVE  \E p \in call[c].plans, k \in CallRecord :
           /\ \A q \in call[c].plans \cup {x.at : x \in call[c].todo} : p <= q
           /\ call' = [call EXCEPT ![c] = k]
           /\ k.pc = "push" /\ k.from = call[c].from /\ k.to = call[c].to
           /\ k.todo = call[c].todo /\ k.failed = call[c].failed /\ k.since = call[c].since
           /\ k.plans = call[c].plans \ {p} /\ k.done \in {p, call[c].done}
<1>1. call[c] \in CallRecord /\ call[c].pc = "push"
  BY DEF PushSprint, Typed
<1>2. PICK p \in call[c].plans :
        /\ \A q \in call[c].plans \cup {x.at : x \in call[c].todo} : p <= q
        /\ \/ call' = [call EXCEPT ![c].plans = @ \ {p}, ![c].done = p]
           \/ call' = [call EXCEPT ![c].plans = @ \ {p}]
  BY DEF PushSprint
<1>3. p \in Nat
  BY <1>1 DEF CallRecord
<1>4. CASE call' = [call EXCEPT ![c].plans = @ \ {p}, ![c].done = p]
  <2> DEFINE k == [call[c] EXCEPT !.plans = call[c].plans \ {p}, !.done = p]
  <2>1. call' = [call EXCEPT ![c] = k]
    BY <1>1, <1>4 DEF Typed
  <2>2. /\ k \in CallRecord /\ k.pc = "push" /\ k.from = call[c].from /\ k.to = call[c].to
        /\ k.todo = call[c].todo /\ k.failed = call[c].failed /\ k.since = call[c].since
        /\ k.plans = call[c].plans \ {p} /\ k.done = p
    BY <1>1, <1>3 DEF CallRecord
  <2> HIDE DEF k
  <2>3. QED
    BY <1>2, <2>1, <2>2
<1>5. CASE call' = [call EXCEPT ![c].plans = @ \ {p}]
  <2> DEFINE k == [call[c] EXCEPT !.plans = call[c].plans \ {p}]
  <2>1. call' = [call EXCEPT ![c] = k]
    BY <1>1, <1>5 DEF Typed
  <2>2. /\ k \in CallRecord /\ k.pc = "push" /\ k.from = call[c].from /\ k.to = call[c].to
        /\ k.todo = call[c].todo /\ k.failed = call[c].failed /\ k.since = call[c].since
        /\ k.plans = call[c].plans \ {p} /\ k.done = call[c].done
    BY <1>1, <1>3 DEF CallRecord
  <2> HIDE DEF k
  <2>3. QED
    BY <1>2, <2>1, <2>2
<1>6. QED
  BY <1>2, <1>4, <1>5

LEMMA PushTyped ==
  ASSUME Typed, NEW c \in Calls, Push(c)
  PROVE  Typed'
<1> DEFINE s == StoreOf(c)
<1>1. call[c] \in CallRecord /\ s \in Stores /\ CallTyped(c) /\ call[c].pc = "push" /\ Len(log) \in Nat
  BY StoreIsAStore DEF Push, Typed
<1>2. PICK r \in call[c].todo :
        /\ log' \in {log, Append(log, r)}
        /\ \/ call' = [call EXCEPT ![c].todo = @ \ {r}, ![c].done = r.at]
           \/ call' = [call EXCEPT ![c].todo = @ \ {r}, ![c].failed = @ \cup {r}]
  BY DEF Push
<1>3. r \in Record /\ r \in rows[s] /\ r.at \in Nat
  BY <1>1, RecordIds DEF CallTyped, CallRecord
<1>4. PICK k \in CallRecord : /\ call' = [call EXCEPT ![c] = k]
                              /\ k.pc = "push" /\ k.from = call[c].from /\ k.to = call[c].to
                              /\ k.todo \cup k.failed \subseteq call[c].todo \cup call[c].failed
  <2>1. CASE call' = [call EXCEPT ![c].todo = @ \ {r}, ![c].done = r.at]
    <3> DEFINE k == [call[c] EXCEPT !.todo = call[c].todo \ {r}, !.done = r.at]
    <3>1. call' = [call EXCEPT ![c] = k]
      BY <1>1, <2>1 DEF Typed
    <3>2. k \in CallRecord /\ k.pc = "push" /\ k.from = call[c].from /\ k.to = call[c].to
          /\ k.todo \cup k.failed \subseteq call[c].todo \cup call[c].failed
      BY <1>1, <1>3 DEF CallRecord
    <3>3. QED
      BY <3>1, <3>2
  <2>2. CASE call' = [call EXCEPT ![c].todo = @ \ {r}, ![c].failed = @ \cup {r}]
    <3> DEFINE k == [call[c] EXCEPT !.todo = call[c].todo \ {r}, !.failed = call[c].failed \cup {r}]
    <3>1. call' = [call EXCEPT ![c] = k]
      BY <1>1, <2>2 DEF Typed
    <3>2. k \in CallRecord /\ k.pc = "push" /\ k.from = call[c].from /\ k.to = call[c].to
          /\ k.todo \cup k.failed \subseteq call[c].todo \cup call[c].failed
      BY <1>1, <1>3 DEF CallRecord
    <3>3. QED
      BY <3>1, <3>2
  <2>3. QED
    BY <1>2, <2>1, <2>2
<1>5. /\ log' \in Seq(Record) /\ Len(log)' \in Nat /\ Len(log) <= Len(log)'
      /\ Everything' \subseteq Everything
  BY <1>2, PushedEvents DEF Push
<1>6. call'[c] = k /\ rows' = rows
  BY <1>4 DEF Typed, Push
<1>7. CallTyped(c)'
  BY <1>1, <1>4, <1>5, <1>6 DEF CallTyped, CallRecord
<1>8. ASSUME NEW e \in Calls, e # c
      PROVE  CallTyped(e)'
  <2>1. call'[e] = call[e]
    BY <1>4, <1>8 DEF Typed
  <2>2. QED
    BY <1>5, <1>6, <2>1, CallStays
<1>9. call' \in [Calls -> CallRecord]
  BY <1>4 DEF Typed
<1>10. \A t \in Stores : pulled[t] <= Len(log)'
  BY <1>1, <1>5 DEF Typed
<1>11. QED
  BY <1>5, <1>7, <1>8, <1>9, <1>10 DEF Typed, Push

LEMMA PushSprintTyped ==
  ASSUME Typed, NEW c \in Calls, PushSprint(c)
  PROVE  Typed'
<1>1. /\ call[c] \in CallRecord /\ CallTyped(c) /\ call[c].pc = "push"
      /\ UNCHANGED <<rows, planned, pushed, pulled, log, now, failures, gaps, behind>>
  BY DEF PushSprint, Typed
<1>2. PICK k \in CallRecord : /\ call' = [call EXCEPT ![c] = k]
                              /\ k.pc = "push" /\ k.from = call[c].from /\ k.to = call[c].to
                              /\ k.todo = call[c].todo /\ k.failed = call[c].failed
  BY <1>1, PushedSprint
<1>3. call'[c] = k /\ Len(log) \in Nat
  BY <1>2 DEF Typed
<1>4. CallTyped(c)'
  BY <1>1, <1>2, <1>3 DEF CallTyped
<1>5. QED
  BY <1>1, <1>2, <1>4, CallOnlyTyped

\* A call that has ended.
LEMMA EndedTyped ==
  ASSUME Typed, NEW c \in Calls, call' = [call EXCEPT ![c] = IdleCall], rows' = rows, log' = log
  PROVE  CallTyped(c)'
<1>1. call'[c] = IdleCall /\ Len(log) \in Nat
  BY DEF Typed
<1>2. QED
  BY <1>1, IdleIsACall DEF CallTyped

LEMMA FinishTyped ==
  ASSUME Typed, NEW c \in Calls, Finish(c)
  PROVE  Typed'
<1> DEFINE s == StoreOf(c)
           next == IF call[c].done > call[c].since THEN call[c].done ELSE pushed[s]
<1>1. call[c] \in CallRecord /\ s \in Stores
  BY StoreIsAStore DEF Typed
<1>2. next \in Nat /\ pushed' = [pushed EXCEPT ![s] = next]
  BY <1>1 DEF CallRecord, Typed, Finish
<1>3. failures' \in [Stores -> SUBSET Texts]
  <2>1. {r.text : r \in {x \in call[c].failed : x.at <= next}} \subseteq Texts
    BY <1>1, RecordIds DEF CallRecord
  <2>2. failures' = [failures EXCEPT ![s] = failures[s] \cup {r.text : r \in {x \in call[c].failed : x.at <= next}}]
    BY DEF Finish
  <2> HIDE DEF next, s
  <2>3. QED
    BY <1>1, <2>1, <2>2 DEF Typed
<1>4. /\ call' = [call EXCEPT ![c] = IdleCall]
      /\ UNCHANGED <<rows, planned, pulled, log, now, gaps, behind>>
  BY DEF Finish
<1>5. pushed' \in [Stores -> Nat]
  BY <1>1, <1>2 DEF Typed
<1>6. CallTyped(c)'
  BY <1>4, EndedTyped
<1>7. QED
  BY <1>3, <1>4, <1>5, <1>6, QuietTyped DEF Typed

\* A page that is fetched from a position within the log.
LEMMA FetchTyped ==
  ASSUME Typed, NEW c \in Calls, NEW from \in Nat, from <= Len(log), NEW gap \in BOOLEAN,
         Fetch(c, from, gap), rows' = rows, log' = log
  PROVE  \E k : /\ call' = [call EXCEPT ![c] = k] /\ CallTyped(c)'
                /\ k.pc = "merge" /\ k.from = from /\ k.to \in Nat /\ from <= k.to /\ k.gap = gap
<1> DEFINE to == Least(Len(log), from + PageLimit)
           k == [IdleCall EXCEPT !.pc = "merge", !.from = from, !.to = to, !.more = to < Len(log), !.gap = gap]
<1>1. Len(log) \in Nat /\ PageLimit \in Nat
  BY EventReplayAssumption DEF Typed
<1>2. to \in Nat /\ to <= Len(log) /\ from <= to
  BY <1>1 DEF Least
<1>3. call' = [call EXCEPT ![c] = k]
  BY DEF Fetch
<1> HIDE DEF to
<1>4. /\ k \in CallRecord /\ k.pc = "merge" /\ k.from = from /\ k.to = to /\ k.gap = gap
      /\ k.todo = {} /\ k.failed = {}
  <2>1. \E more \in BOOLEAN : k = [IdleCall EXCEPT !.pc = "merge", !.from = from, !.to = to, !.more = more, !.gap = gap]
    <3>1. CASE to < Len(log)
      <4>1. k = [IdleCall EXCEPT !.pc = "merge", !.from = from, !.to = to, !.more = TRUE, !.gap = gap]
        BY <3>1
      <4>2. QED
        BY <4>1
    <3>2. CASE ~(to < Len(log))
      <4>1. k = [IdleCall EXCEPT !.pc = "merge", !.from = from, !.to = to, !.more = FALSE, !.gap = gap]
        <5>1. (to < Len(log)) = FALSE
          BY <1>1, <1>2, <3>2
        <5>2. QED
          BY <5>1
      <4>2. QED
        BY <4>1
    <3>3. QED
      BY <3>1, <3>2
  <2>2. PICK more \in BOOLEAN :
          k = [IdleCall EXCEPT !.pc = "merge", !.from = from, !.to = to, !.more = more, !.gap = gap]
    BY <2>1
  <2>3. QED
    BY <1>2, <2>2 DEF IdleCall, CallRecord, Places
<1> HIDE DEF k
<1>5. call'[c] = k
  BY <1>3 DEF Typed
<1>6. CallTyped(c)'
  BY <1>1, <1>2, <1>4, <1>5 DEF CallTyped
<1>7. QED
  BY <1>2, <1>3, <1>4, <1>6

LEMMA OpenPullTyped ==
  ASSUME Typed, NEW c \in Calls, OpenPull(c)
  PROVE  Typed'
<1>1. StoreOf(c) \in Stores /\ pulled[StoreOf(c)] \in Nat /\ pulled[StoreOf(c)] <= Len(log)
  BY StoreIsAStore DEF Typed
<1>2. PICK k : call' = [call EXCEPT ![c] = k] /\ CallTyped(c)'
  <2>1. PICK from \in Nat : from = pulled[StoreOf(c)]
    BY <1>1
  <2>2. Fetch(c, from, FALSE) /\ rows' = rows /\ log' = log
    BY <2>1 DEF OpenPull
  <2>3. QED
    BY <1>1, <2>1, <2>2, FetchTyped
<1>3. QED
  BY <1>2, CallOnlyTyped DEF OpenPull

\* What a page inserts.
LEMMA InsertedRows ==
  ASSUME Typed, NEW c \in Calls, call[c].pc \in {"merge", "state"}, NEW taken \in SUBSET Incoming(c)
  PROVE  LET new == InsertUnion(rows[StoreOf(c)], taken)
         IN /\ rows[StoreOf(c)] \subseteq new /\ Unique(new)
            /\ \A r \in new : r \in rows[StoreOf(c)] \/ \E i \in 1..Len(log) : r = log[i]
            /\ \A r \in taken : r.id \in IdsIn(new)
<1>1. Unique(rows[StoreOf(c)]) /\ Unique(taken)
  BY StoreIsAStore, IncomingIsFromTheLog DEF Typed, Unique
<1>2. QED
  BY <1>1, IncomingIsFromTheLog DEF InsertUnion, IdsIn, Unique

\* The tables after a page.
LEMMA MergedRows ==
  ASSUME Typed, NEW c \in Calls, Merge(c)
  PROVE  /\ rows' \in [Stores -> SUBSET Record]
         /\ \A t \in Stores : Unique(rows'[t]) /\ rows[t] \subseteq rows'[t]
         /\ \A t \in Stores : \A r \in rows'[t] : r \in rows[t] \/ \E i \in 1..Len(log) : r = log[i]
         /\ Everything' \subseteq Everything
<1> DEFINE s == StoreOf(c)
<1>1. s \in Stores /\ call[c].pc \in {"merge", "state"} /\ log' = log
  BY StoreIsAStore DEF Merge
<1>2. PICK failed \in SUBSET Incoming(c) : rows' = [rows EXCEPT ![s] = InsertUnion(@, Incoming(c) \ failed)]
  BY DEF Merge
<1>3. PICK new : new = InsertUnion(rows[s], Incoming(c) \ failed)
  OBVIOUS
<1>4. rows[s] \subseteq new /\ Unique(new) /\ \A r \in new : r \in rows[s] \/ \E i \in 1..Len(log) : r = log[i]
  BY <1>1, <1>3, InsertedRows
<1>5. new \subseteq Everything
  BY <1>1, <1>4, InEverything
<1>6. rows' = [rows EXCEPT ![s] = new]
  BY <1>1, <1>2, <1>3 DEF Typed
<1>7. /\ rows' \in [Stores -> SUBSET Record]
      /\ \A t \in Stores : Unique(rows'[t]) /\ rows[t] \subseteq rows'[t]
      /\ \A t \in Stores : \A r \in rows'[t] : r \in rows[t] \/ \E i \in 1..Len(log) : r = log[i]
  BY <1>4, <1>5, <1>6, EverythingIsRecords DEF Typed
<1>8. \A t \in Stores : rows'[t] \subseteq Everything
  BY <1>7, InEverything
<1>9. QED
  BY <1>1, <1>7, <1>8 DEF Everything

LEMMA MergeTyped ==
  ASSUME Typed, NEW c \in Calls, Merge(c)
  PROVE  Typed'
<1> DEFINE s == StoreOf(c)
<1>1. /\ call[c] \in CallRecord /\ CallTyped(c) /\ s \in Stores /\ Len(log) \in Nat
      /\ call[c].pc \in {"merge", "state"}
      /\ UNCHANGED <<planned, pushed, pulled, log, now, failures, gaps, behind>>
  BY StoreIsAStore DEF Typed, Merge
<1>2. PICK failed \in SUBSET Incoming(c) :
        /\ rows' = [rows EXCEPT ![s] = InsertUnion(@, Incoming(c) \ failed)]
        /\ call' = [call EXCEPT ![c].pc = IF @ = "merge" THEN "cursor" ELSE "seed",
                                ![c].gap = @ \/ failed # {}]
  BY DEF Merge
<1>3. /\ rows' \in [Stores -> SUBSET Record]
      /\ \A t \in Stores : Unique(rows'[t]) /\ rows[t] \subseteq rows'[t]
      /\ Everything' \subseteq Everything
  BY MergedRows
<1>4. PICK gap \in BOOLEAN, pc \in {"cursor", "seed"} : call' = [call EXCEPT ![c] = [call[c] EXCEPT !.pc = pc, !.gap = gap]]
  <2>1. PICK gap \in BOOLEAN : gap = (call[c].gap \/ failed # {})
    BY <1>1 DEF CallRecord
  <2>2. PICK pc \in {"cursor", "seed"} : pc = IF call[c].pc = "merge" THEN "cursor" ELSE "seed"
    OBVIOUS
  <2>3. call' = [call EXCEPT ![c] = [call[c] EXCEPT !.pc = pc, !.gap = gap]]
    BY <1>1, <1>2, <2>1, <2>2 DEF Typed
  <2>4. QED
    BY <2>3
<1>5. PICK k \in CallRecord : /\ call' = [call EXCEPT ![c] = k] /\ k.pc = pc
                              /\ k.from = call[c].from /\ k.to = call[c].to
                              /\ k.todo = call[c].todo /\ k.failed = call[c].failed
  <2>1. \A l \in CallRecord : LET k == [l EXCEPT !.pc = pc, !.gap = gap]
                              IN /\ k \in CallRecord /\ k.pc = pc /\ k.from = l.from /\ k.to = l.to
                                 /\ k.todo = l.todo /\ k.failed = l.failed
    BY DEF CallRecord, Places
  <2>2. QED
    BY <1>1, <1>4, <2>1
<1>6. CallTyped(c)'
  <2>1. call'[c] = k
    BY <1>5 DEF Typed
  <2>2. QED
    BY <1>1, <1>3, <1>5, <2>1 DEF CallTyped
<1>7. ASSUME NEW e \in Calls, e # c
       PROVE  CallTyped(e)'
  <2>1. call'[e] = call[e] /\ StoreOf(e) \in Stores
    BY <1>5, <1>7, StoreIsAStore DEF Typed
  <2>2. QED
    BY <1>1, <1>3, <2>1, CallStays
<1>8. call' \in [Calls -> CallRecord]
  BY <1>5 DEF Typed
<1>9. QED
  BY <1>1, <1>3, <1>6, <1>7, <1>8 DEF Typed

LEMMA PersistCursorTyped ==
  ASSUME Typed, NEW c \in Calls, PersistCursor(c)
  PROVE  Typed'
<1> DEFINE s == StoreOf(c)
<1>1. /\ s \in Stores /\ call[c].to \in Nat /\ call[c].to <= Len(log) /\ call[c].gap \in BOOLEAN
      /\ UNCHANGED <<rows, planned, pushed, log, now, failures, behind>>
  BY StoreIsAStore DEF Typed, CallTyped, CallRecord, PersistCursor
<1>2. pulled' \in [Stores -> Nat] /\ \A t \in Stores : pulled'[t] <= Len(log)'
  BY <1>1 DEF Typed, PersistCursor
<1>3. gaps' \subseteq Stores
  BY <1>1 DEF Typed, PersistCursor
<1>4. \E k : call' = [call EXCEPT ![c] = k] /\ CallTyped(c)'
  <2>1. CASE Fetch(c, call[c].to, call[c].gap)
    BY <1>1, <2>1, FetchTyped
  <2>2. CASE call' = [call EXCEPT ![c] = IdleCall]
    BY <1>1, <2>2, EndedTyped
  <2>3. QED
    BY <2>1, <2>2 DEF PersistCursor
<1>5. QED
  BY <1>1, <1>2, <1>3, <1>4, QuietTyped DEF Typed

LEMMA SeedTyped ==
  ASSUME Typed, NEW c \in Calls, Seed(c)
  PROVE  Typed'
<1> DEFINE s == StoreOf(c)
<1>1. /\ s \in Stores /\ call[c].to \in Nat /\ call[c].to <= Len(log)
      /\ UNCHANGED <<rows, planned, pushed, log, now, failures, behind>> /\ call' = [call EXCEPT ![c] = IdleCall]
  BY StoreIsAStore DEF Typed, CallTyped, CallRecord, Seed
<1>2. pulled' \in [Stores -> Nat] /\ \A t \in Stores : pulled'[t] <= Len(log)'
  BY <1>1 DEF Typed, Seed
<1>3. gaps' \subseteq Stores
  BY <1>1 DEF Typed, Seed
<1>4. CallTyped(c)'
  BY <1>1, EndedTyped
<1>5. QED
  BY <1>1, <1>2, <1>3, <1>4, QuietTyped DEF Typed

LEMMA OpenCloneTyped ==
  ASSUME Typed, NEW c \in Calls, OpenClone(c)
  PROVE  Typed'
<1> DEFINE k == [call[c] EXCEPT !.pc = "state", !.to = Len(log)]
<1>1. call[c] = IdleCall /\ Len(log) \in Nat
  BY DEF OpenClone, Typed, CallTyped
<1>2. call' = [call EXCEPT ![c] = k]
  BY DEF OpenClone, Typed
<1>3. /\ k \in CallRecord /\ k.pc = "state" /\ k.todo = {} /\ k.failed = {} /\ k.from = 0
      /\ k.to = Len(log) /\ k.gap = FALSE
  BY <1>1, IdleIsACall DEF CallRecord, Places
<1> HIDE DEF k
<1>4. call'[c] = k /\ rows' = rows /\ log' = log
  BY <1>2 DEF Typed, OpenClone
<1>5. CallTyped(c)'
  BY <1>1, <1>3, <1>4 DEF CallTyped
<1>6. QED
  BY <1>2, <1>5, CallOnlyTyped DEF OpenClone

LEMMA ResetPullTyped ==
  ASSUME Typed, NEW s \in Stores, ResetPull(s)
  PROVE  Typed'
<1>1. /\ UNCHANGED <<rows, planned, pushed, log, call, now, failures, behind>> /\ gaps' \subseteq Stores
      /\ pulled' \in [Stores -> Nat] /\ \A t \in Stores : pulled'[t] <= Len(log)'
  BY DEF Typed, ResetPull
<1>2. \A c \in Calls : CallTyped(c)'
  BY <1>1 DEF Typed, CallTyped
<1>3. Everything' = Everything
  BY <1>1 DEF Everything
<1>4. QED
  BY <1>1, <1>2, <1>3 DEF Typed

LEMMA TypedNext == Typed /\ [Next]_vars => Typed'
<1> SUFFICES ASSUME Typed, [Next]_vars PROVE Typed'
  OBVIOUS
<1>1. ASSUME NEW c \in Calls, Die(c)
      PROVE  Typed'
  <2>1. CallTyped(c)'
    BY <1>1, EndedTyped DEF Die
  <2>2. QED
    BY <1>1, <2>1, CallOnlyTyped DEF Die
<1>2. CASE UNCHANGED vars
  <2>1. UNCHANGED <<rows, planned, pushed, pulled, log, call, now, failures, gaps, behind>>
    BY <1>2 DEF vars
  <2>2. \A c \in Calls : CallTyped(c)'
    BY <2>1 DEF Typed, CallTyped
  <2>3. Everything' = Everything
    BY <2>1 DEF Everything
  <2>4. QED
    BY <2>1, <2>2, <2>3 DEF Typed
<1>3. QED
  BY <1>1, <1>2, CreateTyped, PlanTyped, ResetPullTyped, ReplayTyped, PushTyped, PushSprintTyped, FinishTyped, OpenPullTyped, MergeTyped,
     PersistCursorTyped, OpenCloneTyped, SeedTyped
  DEF Next, Step

LEMMA AlwaysTyped == Spec => []Typed
BY TypedInit, TypedNext, PTL DEF Spec

\* Every variable keeps its type, and a table has one row per id: the ids that a
\* store draws, those of pages and those of the broker's mirror never meet twice
\* in one table.
THEOREM TypeCorrect == Spec => []TypeOK
BY AlwaysTyped, TypedIsTypeOK, PTL

-----------------------------------------------------------------------------
(* Tables, dates and log only grow. *)

Grown ==
  /\ \A s \in Stores : /\ rows[s] \subseteq rows'[s] /\ planned[s] \subseteq planned'[s]
                        /\ behind[s] \subseteq behind'[s]
  /\ Len(log)' \in Nat /\ Len(log) <= Len(log)'
  /\ \A i \in 1..Len(log) : log'[i] = log[i]

LEMMA Growth == Typed /\ [Next]_vars => Grown
<1> SUFFICES ASSUME Typed, [Next]_vars PROVE Grown
  OBVIOUS
<1>1. /\ rows \in [Stores -> SUBSET Record] /\ log \in Seq(Record) /\ Len(log) \in Nat
      /\ planned \in [Stores -> SUBSET Nat] /\ behind \in [Stores -> SUBSET Record]
  BY DEF Typed
<1>2. ASSUME NEW s \in Stores, NEW text \in Texts, NEW tick \in Ticks, Create(s, text, tick)
      PROVE  Grown
  <2>1. PICK new : /\ rows' = [rows EXCEPT ![s] = rows[s] \cup {new}]
                   /\ behind' \in {behind, [behind EXCEPT ![s] = @ \cup {new}]}
    BY <1>2 DEF Create
  <2>2. log' = log /\ planned' = planned
    BY <1>2 DEF Create
  <2>3. \A t \in Stores : behind[t] \subseteq behind'[t]
    BY <1>1, <2>1
  <2>4. QED
    BY <1>1, <2>1, <2>2, <2>3 DEF Grown
<1>3. ASSUME NEW c \in Calls, Merge(c)
      PROVE  Grown
  <2>1. PICK failed \in SUBSET Incoming(c) :
          rows' = [rows EXCEPT ![StoreOf(c)] = InsertUnion(@, Incoming(c) \ failed)]
    BY <1>3 DEF Merge
  <2>2. PICK new : new = InsertUnion(rows[StoreOf(c)], Incoming(c) \ failed)
    OBVIOUS
  <2>3. rows[StoreOf(c)] \subseteq new
    BY <2>2 DEF InsertUnion
  <2>4. /\ rows' = [rows EXCEPT ![StoreOf(c)] = new]
        /\ UNCHANGED <<planned, log, behind>>
    BY <1>1, <1>3, <2>1, <2>2, StoreIsAStore DEF Merge
  <2>5. QED
    BY <1>1, <2>3, <2>4 DEF Grown
<1>4. ASSUME NEW c \in Calls, Push(c)
      PROVE  Grown
  <2>1. PICK r \in call[c].todo : log' \in {log, Append(log, r)}
    BY <1>4 DEF Push
  <2>2. r \in Record /\ UNCHANGED <<rows, planned, behind>>
    BY <1>4 DEF Typed, CallRecord, Push
  <2>3. CASE log' = log
    BY <1>1, <2>2, <2>3 DEF Grown
  <2>4. CASE log' = Append(log, r)
    <3>1. /\ Len(Append(log, r)) = Len(log) + 1
          /\ \A i \in 1..Len(log) : Append(log, r)[i] = log[i]
      BY <1>1, <2>2, AppendProperties
    <3>2. QED
      BY <1>1, <2>2, <2>4, <3>1 DEF Grown
  <2>5. QED
    BY <2>1, <2>3, <2>4
<1>5. ASSUME NEW s \in Stores, NEW lead, Plan(s, lead)
      PROVE  Grown
  BY <1>1, <1>5 DEF Plan, Grown
<1>6. CASE UNCHANGED <<rows, planned, log, behind>>
  BY <1>1, <1>6 DEF Grown
<1>7. QED
  BY <1>2, <1>3, <1>4, <1>5, <1>6
  DEF Next, Step, ResetPull, Replay, PushSprint, Finish, OpenPull, PersistCursor, OpenClone, Seed, Die, vars

-----------------------------------------------------------------------------
(* What was pulled is held. *)

Held(s, i) == log[i].id \in IdsIn(rows[s])

StoreHolds(s) == s \notin gaps => \A i \in 1..pulled[s] : Held(s, i)

\* A call holds what is behind its page, and after the merge its page as well.
CallHolds(c) ==
  LET s == StoreOf(c)
  IN /\ call[c].pc = "merge" /\ s \notin gaps => \A i \in 1..call[c].from : Held(s, i)
     /\ call[c].pc = "cursor" /\ s \notin gaps /\ ~call[c].gap => \A i \in 1..call[c].to : Held(s, i)
     /\ call[c].pc = "seed" /\ ~call[c].gap => \A i \in 1..call[c].to : Held(s, i)

HeldInv == (\A s \in Stores : StoreHolds(s)) /\ (\A c \in Calls : CallHolds(c))

LEMMA HeldInvHolds == HeldInv => PulledIsHeld
BY DEF HeldInv, StoreHolds, Held, PulledIsHeld

LEMMA HeldInit == Init => HeldInv
BY IdleIsACall DEF Init, HeldInv, StoreHolds, CallHolds

LEMMA HeldStays ==
  ASSUME Grown, NEW s \in Stores, NEW i \in 1..Len(log), Held(s, i)
  PROVE  Held(s, i)'
BY DEF Grown, Held, IdsIn

LEMMA StoreStillHolds ==
  ASSUME Typed, HeldInv, Grown, NEW s \in Stores, pulled'[s] = pulled[s], s \in gaps => s \in gaps'
  PROVE  StoreHolds(s)'
<1>1. StoreHolds(s) /\ pulled[s] \in Nat /\ pulled[s] <= Len(log) /\ Len(log) \in Nat
  BY DEF HeldInv, Typed
<1>2. \A i \in 1..pulled[s] : i \in 1..Len(log)
  BY <1>1
<1>3. QED
  BY <1>1, <1>2, HeldStays DEF StoreHolds

LEMMA CallStillHolds ==
  ASSUME Typed, HeldInv, Grown, NEW c \in Calls, call'[c] = call[c], StoreOf(c) \in gaps => StoreOf(c) \in gaps'
  PROVE  CallHolds(c)'
<1>1. /\ CallHolds(c) /\ call[c] \in CallRecord /\ CallTyped(c) /\ Len(log) \in Nat
      /\ StoreOf(c) \in Stores
  BY StoreIsAStore DEF HeldInv, Typed
<1>2. /\ \A i \in 1..call[c].from : i \in 1..Len(log)
      /\ \A i \in 1..call[c].to : i \in 1..Len(log)
  BY <1>1 DEF CallTyped, CallRecord
<1>3. QED
  BY <1>1, <1>2, HeldStays DEF CallHolds

\* Steps that neither move a position nor touch the gaps leave it to their call.
LEMMA PositionsStay ==
  ASSUME Typed, HeldInv, Grown, pulled' = pulled, gaps' = gaps,
         NEW c \in Calls, \A e \in Calls : e # c => call'[e] = call[e], CallHolds(c)'
  PROVE  HeldInv'
BY StoreStillHolds, CallStillHolds DEF HeldInv

LEMMA MergeHeld ==
  ASSUME Typed, HeldInv, Grown, NEW c \in Calls, Merge(c)
  PROVE  HeldInv'
<1> DEFINE s == StoreOf(c)
<1>1. /\ call[c] \in CallRecord /\ CallTyped(c) /\ CallHolds(c) /\ s \in Stores /\ Len(log) \in Nat
      /\ call[c].pc \in {"merge", "state"} /\ UNCHANGED <<pulled, gaps, log>>
  BY StoreIsAStore DEF Typed, HeldInv, Merge
<1>2. PICK failed \in SUBSET Incoming(c) :
        /\ rows' = [rows EXCEPT ![s] = InsertUnion(@, Incoming(c) \ failed)]
        /\ call' = [call EXCEPT ![c].pc = IF @ = "merge" THEN "cursor" ELSE "seed",
                                ![c].gap = @ \/ failed # {}]
  BY DEF Merge
<1>3. /\ call'[c].pc = IF call[c].pc = "merge" THEN "cursor" ELSE "seed"
      /\ call'[c].to = call[c].to
      /\ ~call'[c].gap => failed = {}
      /\ \A e \in Calls : e # c => call'[e] = call[e]
  BY <1>1, <1>2 DEF Typed, CallRecord
<1>4. ASSUME failed = {}, NEW i \in (call[c].from + 1)..call[c].to
      PROVE  Held(s, i)'
  <2>1. PICK r \in Incoming(c) : r.id = log[i].id
    BY <1>1, IncomingIsFromTheLog
  <2>2. r.id \in IdsIn(InsertUnion(rows[s], Incoming(c)))
    BY <1>1, InsertedRows
  <2>3. rows'[s] = InsertUnion(rows[s], Incoming(c))
    <3>1. Incoming(c) \ failed = Incoming(c)
      BY <1>4
    <3>2. rows' = [rows EXCEPT ![s] = InsertUnion(rows[s], Incoming(c))]
      BY <1>1, <1>2, <3>1 DEF Typed
    <3>3. QED
      BY <1>1, <3>2 DEF Typed
  <2>4. QED
    BY <1>1, <2>1, <2>2, <2>3 DEF Held, IdsIn
<1>5. ASSUME failed = {}, s \notin gaps \/ call[c].pc = "state", NEW i \in 1..call[c].to
      PROVE  Held(s, i)'
  <2>1. CASE i \in (call[c].from + 1)..call[c].to
    BY <1>4, <1>5, <2>1
  <2>2. CASE i \notin (call[c].from + 1)..call[c].to
    <3>1. call[c].from \in Nat /\ call[c].to \in Nat /\ call[c].to <= Len(log)
      BY <1>1 DEF CallTyped, CallRecord
    <3>2. i \in 1..call[c].from /\ i \in 1..Len(log)
      BY <1>1, <2>2, <3>1
    <3>3. call[c].pc = "merge"
      BY <1>1, <3>1, <3>2 DEF CallTyped
    <3>4. Held(s, i)
      BY <1>1, <1>5, <3>2, <3>3 DEF CallHolds
    <3>5. QED
      BY <1>1, <3>2, <3>4, HeldStays
  <2>3. QED
    BY <2>1, <2>2
<1>6. CallHolds(c)'
  BY <1>1, <1>3, <1>5 DEF CallHolds
<1>7. QED
  BY <1>1, <1>3, <1>6, PositionsStay

LEMMA OpenPullHeld ==
  ASSUME Typed, HeldInv, Grown, NEW c \in Calls, OpenPull(c)
  PROVE  HeldInv'
<1> DEFINE s == StoreOf(c)
<1>1. s \in Stores /\ pulled[s] \in Nat /\ pulled[s] <= Len(log) /\ StoreHolds(s) /\ Len(log) \in Nat
  BY StoreIsAStore DEF Typed, HeldInv
<1>2. PICK from \in Nat : from = pulled[s]
  BY <1>1
<1>3. Fetch(c, from, FALSE) /\ UNCHANGED <<rows, log, pulled, gaps>>
  BY <1>2 DEF OpenPull
<1>4. PICK k : call' = [call EXCEPT ![c] = k] /\ k.pc = "merge" /\ k.from = from
  <2>1. from <= Len(log) /\ rows' = rows /\ log' = log
    BY <1>1, <1>2, <1>3
  <2>2. PICK gap \in BOOLEAN : Fetch(c, from, gap)
    BY <1>3
  <2>3. \E k : /\ call' = [call EXCEPT ![c] = k] /\ CallTyped(c)'
              /\ k.pc = "merge" /\ k.from = from /\ k.to \in Nat /\ from <= k.to /\ k.gap = gap
    BY <2>1, <2>2, FetchTyped
  <2>4. QED
    BY <2>3
<1>5. call'[c] = k /\ \A e \in Calls : e # c => call'[e] = call[e]
  BY <1>4 DEF Typed
<1>6. CallHolds(c)'
  <2>1. s \notin gaps => \A i \in 1..from : Held(s, i)'
    <3>1. \A i \in 1..from : i \in 1..Len(log)
      BY <1>1, <1>2
    <3>2. QED
      BY <1>1, <1>2, <3>1, HeldStays DEF StoreHolds
  <2>2. QED
    BY <1>3, <1>4, <1>5, <2>1 DEF CallHolds
<1>7. QED
  BY <1>3, <1>5, <1>6, PositionsStay

\* A call that moves its store's position to what it holds.
LEMMA PositionMoves ==
  ASSUME Typed, HeldInv, Grown, NEW c \in Calls, NEW k, call' = [call EXCEPT ![c] = k],
         NEW to \in Nat, to <= Len(log), pulled' = [pulled EXCEPT ![StoreOf(c)] = to],
         gaps \subseteq gaps', StoreOf(c) \notin gaps' => \A i \in 1..to : Held(StoreOf(c), i),
         k.pc = "idle" \/ (k.pc = "merge" /\ k.from = to)
  PROVE  HeldInv'
<1> DEFINE s == StoreOf(c)
<1>1. s \in Stores /\ Len(log) \in Nat /\ call'[c] = k /\ pulled'[s] = to
      /\ \A t \in Stores : t # s => pulled'[t] = pulled[t]
  BY StoreIsAStore DEF Typed
<1>2. s \notin gaps' => \A i \in 1..to : Held(s, i)'
  <2>1. \A i \in 1..to : i \in 1..Len(log)
    BY <1>1
  <2>2. QED
    BY <1>1, <2>1, HeldStays
<1>3. \A t \in Stores : StoreHolds(t)'
  <2>1. StoreHolds(s)'
    BY <1>1, <1>2 DEF StoreHolds
  <2>2. \A t \in Stores : t # s => StoreHolds(t)'
    BY <1>1, StoreStillHolds
  <2>3. QED
    BY <2>1, <2>2
<1>4. CallHolds(c)'
  BY <1>1, <1>2 DEF CallHolds
<1>5. \A e \in Calls : e # c => CallHolds(e)'
  <2>1. \A e \in Calls : e # c => call'[e] = call[e]
    BY DEF Typed
  <2>2. QED
    BY <2>1, CallStillHolds
<1>6. QED
  BY <1>3, <1>4, <1>5 DEF HeldInv

LEMMA PersistCursorHeld ==
  ASSUME Typed, HeldInv, Grown, NEW c \in Calls, PersistCursor(c)
  PROVE  HeldInv'
<1> DEFINE s == StoreOf(c)
<1>1. /\ s \in Stores /\ call[c] \in CallRecord /\ CallTyped(c) /\ CallHolds(c) /\ call[c].pc = "cursor"
      /\ UNCHANGED <<rows, log>>
  BY StoreIsAStore DEF Typed, HeldInv, PersistCursor
<1>2. PICK to \in Nat, gap \in BOOLEAN : to = call[c].to /\ gap = call[c].gap
  BY <1>1 DEF CallRecord
<1>3. to <= Len(log) /\ pulled' = [pulled EXCEPT ![s] = to] /\ gaps' = IF gap THEN gaps \cup {s} ELSE gaps
  BY <1>1, <1>2 DEF CallTyped, PersistCursor
<1>4. s \notin gaps' => \A i \in 1..to : Held(s, i)
  BY <1>1, <1>2, <1>3 DEF CallHolds
<1>5. \E k : call' = [call EXCEPT ![c] = k] /\ (k.pc = "idle" \/ (k.pc = "merge" /\ k.from = to))
  <2>1. CASE Fetch(c, to, gap)
    BY <1>1, <1>3, <2>1, FetchTyped
  <2>2. CASE call' = [call EXCEPT ![c] = IdleCall]
    BY <2>2, IdleIsACall
  <2>3. QED
    BY <1>2, <2>1, <2>2 DEF PersistCursor
<1>6. QED
  BY <1>3, <1>4, <1>5, PositionMoves

LEMMA SeedHeld ==
  ASSUME Typed, HeldInv, Grown, NEW c \in Calls, Seed(c)
  PROVE  HeldInv'
<1> DEFINE s == StoreOf(c)
<1>1. /\ s \in Stores /\ call[c] \in CallRecord /\ CallTyped(c) /\ CallHolds(c) /\ call[c].pc = "seed"
      /\ StoreHolds(s) /\ pulled[s] \in Nat /\ pulled[s] <= Len(log)
      /\ call' = [call EXCEPT ![c] = IdleCall]
  BY StoreIsAStore DEF Typed, HeldInv, Seed
<1>2. PICK to \in Nat : to = IF call[c].to > pulled[s] THEN call[c].to ELSE pulled[s]
  BY <1>1 DEF CallRecord
<1>3. to <= Len(log) /\ pulled' = [pulled EXCEPT ![s] = to]
      /\ gaps' = IF call[c].gap THEN gaps \cup {s} ELSE gaps
  BY <1>1, <1>2 DEF CallTyped, Seed, Typed
<1>4. s \notin gaps' => \A i \in 1..to : Held(s, i)
  <2>1. CASE to = call[c].to
    BY <1>1, <1>3, <2>1 DEF CallHolds
  <2>2. CASE to = pulled[s]
    BY <1>1, <1>3, <2>2 DEF StoreHolds
  <2>3. QED
    BY <1>2, <2>1, <2>2
<1>5. QED
  BY <1>1, <1>3, <1>4, PositionMoves, IdleIsACall

LEMMA ResetPullHeld ==
  ASSUME Typed, HeldInv, Grown, NEW s \in Stores, ResetPull(s)
  PROVE  HeldInv'
<1>1. /\ pulled' = [pulled EXCEPT ![s] = 0] /\ gaps' = gaps \ {s} /\ call' = call
      /\ \A c \in Calls : StoreOf(c) = s => call[c].pc = "idle"
  BY DEF ResetPull
<1>2. \A t \in Stores : StoreHolds(t)'
  <2>1. pulled'[s] = 0 /\ \A t \in Stores : t # s => pulled'[t] = pulled[t]
    BY <1>1 DEF Typed
  <2>2. StoreHolds(s)'
    BY <2>1 DEF StoreHolds
  <2>3. QED
    BY <1>1, <2>1, <2>2, StoreStillHolds
<1>3. ASSUME NEW c \in Calls
      PROVE  CallHolds(c)'
  <2>1. CASE StoreOf(c) = s
    BY <1>1, <2>1 DEF CallHolds
  <2>2. CASE StoreOf(c) # s
    BY <1>1, <2>2, CallStillHolds
  <2>3. QED
    BY <2>1, <2>2
<1>4. QED
  BY <1>2, <1>3 DEF HeldInv

LEMMA HeldNext == Typed /\ HeldInv /\ [Next]_vars => HeldInv'
<1> SUFFICES ASSUME Typed, HeldInv, [Next]_vars PROVE HeldInv'
  OBVIOUS
<1>1. Grown
  BY Growth
<1>2. ASSUME NEW s \in Stores, NEW text \in Texts, NEW tick \in Ticks, Create(s, text, tick)
      PROVE  HeldInv'
  BY <1>1, <1>2, StoreStillHolds, CallStillHolds DEF Create, HeldInv
<1>3. ASSUME NEW c \in Calls, NEW k, call' = [call EXCEPT ![c] = k], pulled' = pulled, gaps' = gaps,
             k.pc \in {"idle", "push", "state"}
      PROVE  HeldInv'
  <2>1. call'[c] = k /\ \A e \in Calls : e # c => call'[e] = call[e]
    BY <1>3 DEF Typed
  <2>2. CallHolds(c)'
    BY <1>3, <2>1 DEF CallHolds
  <2>3. QED
    BY <1>1, <1>3, <2>1, <2>2, PositionsStay
<1>4. ASSUME NEW c \in Calls, Replay(c)
      PROVE  HeldInv'
  <2>1. PICK k : call' = [call EXCEPT ![c] = k] /\ k.pc = "push"
    <3> DEFINE k == [call[c] EXCEPT !.pc = "push", !.since = pushed[StoreOf(c)],
                                    !.todo = Deduplicated(Since(StoreOf(c))),
                                    !.plans = {p \in planned[StoreOf(c)] : p > pushed[StoreOf(c)]}]
    <3>1. call' = [call EXCEPT ![c] = k]
      BY <1>4 DEF Replay, Typed
    <3>2. k.pc = "push"
      BY DEF Typed, CallRecord
    <3>3. QED
      BY <3>1, <3>2
  <2>2. QED
    BY <1>3, <1>4, <2>1 DEF Replay
<1>5. ASSUME NEW c \in Calls, Push(c)
      PROVE  HeldInv'
  <2>1. PICK r \in call[c].todo :
          \/ call' = [call EXCEPT ![c].todo = @ \ {r}, ![c].done = r.at]
          \/ call' = [call EXCEPT ![c].todo = @ \ {r}, ![c].failed = @ \cup {r}]
    BY <1>5 DEF Push
  <2>2. call[c] \in CallRecord /\ call[c].pc = "push"
    BY <1>5 DEF Push, Typed
  <2>3. call'[c].pc = "push" /\ \A e \in Calls : e # c => call'[e] = call[e]
    BY <2>1, <2>2 DEF Typed, CallRecord
  <2>4. CallHolds(c)'
    BY <2>3 DEF CallHolds
  <2>5. QED
    BY <1>1, <1>5, <2>3, <2>4, PositionsStay DEF Push
<1>6. ASSUME NEW c \in Calls, OpenClone(c)
      PROVE  HeldInv'
  <2>1. PICK k : call' = [call EXCEPT ![c] = k] /\ k.pc = "state"
    <3> DEFINE k == [call[c] EXCEPT !.pc = "state", !.to = Len(log)]
    <3>1. call' = [call EXCEPT ![c] = k]
      BY <1>6 DEF OpenClone, Typed
    <3>2. k.pc = "state"
      BY DEF Typed, CallRecord
    <3>3. QED
      BY <3>1, <3>2
  <2>2. QED
    BY <1>3, <1>6, <2>1 DEF OpenClone
<1>7. ASSUME NEW c \in Calls, Finish(c) \/ Die(c)
      PROVE  HeldInv'
  BY <1>3, <1>7, IdleIsACall DEF Finish, Die
<1>8. CASE UNCHANGED vars
  BY <1>1, <1>8, StoreStillHolds, CallStillHolds DEF HeldInv, vars
<1>9. ASSUME NEW c \in Calls, PushSprint(c)
      PROVE  HeldInv'
  <2>1. PICK k : call' = [call EXCEPT ![c] = k] /\ k.pc = "push"
    BY <1>9, PushedSprint
  <2>2. QED
    BY <1>3, <1>9, <2>1 DEF PushSprint
<1>10. ASSUME NEW s \in Stores, NEW lead, Plan(s, lead)
       PROVE  HeldInv'
  BY <1>1, <1>10, StoreStillHolds, CallStillHolds DEF Plan, HeldInv
<1>11. QED
  BY <1>1, <1>2, <1>4, <1>5, <1>6, <1>7, <1>8, <1>9, <1>10, MergeHeld, OpenPullHeld, PersistCursorHeld, SeedHeld, ResetPullHeld
  DEF Next, Step

LEMMA AlwaysHeld == Spec => [](Typed /\ HeldInv)
<1>1. Typed /\ HeldInv /\ [Next]_vars => (Typed /\ HeldInv)'
  BY HeldNext, TypedNext
<1>2. QED
  BY <1>1, TypedInit, HeldInit, PTL DEF Spec

\* What the position of a store has passed is held, or the store was told so: over
\* pages, rollbacks, clones and pulls that overlap.
THEOREM WhatIsPulledIsHeld == Spec => []PulledIsHeld
BY AlwaysHeld, HeldInvHolds, PTL

-----------------------------------------------------------------------------
(* What the replay passed has reached the broker, where clocks agree. *)

\* All clocks show one time, and time moves from one record to the next.
OneClock ==
  /\ \A s, t \in Stores : Ahead[s] = Ahead[t]
  /\ 0 \notin Ticks

Same(q, r) == IF Numbered THEN q.text = r.text ELSE q = r

\* A record like r that the store has is in the log, or was counted as failed, or its
\* time was reached before it was made.
Handled(s, r) ==
  \/ \E i \in 1..Len(log) : log[i] \in rows[s] /\ Same(log[i], r)
  \/ r.text \in failures[s]
  \/ r \in behind[s]

\* Records are made one at a time and in the past.
Dated ==
  /\ \A t \in Stores : Date(t) \in Nat \ {0}
  /\ \A s, t \in Stores : Date(s) = Date(t)
  /\ \A r \in Everything, t \in Stores : r.at < Date(t)
  /\ \A q, r \in Everything : q.at = r.at => q = r

\* A time that no cursor, no list and no sprint of the store has reached.
Beyond(s, at) ==
  /\ at > pushed[s] /\ at \notin planned[s]
  /\ \A c \in Calls : StoreOf(c) = s =>
       /\ at > call[c].since /\ at > call[c].done
       /\ \A p \in call[c].plans \cup {x.at : x \in call[c].todo} : at > p

\* A replay under way: what it will pass is behind it, in its list, counted as
\* failed, or newer than the list.
Listed(c) ==
  LET s == StoreOf(c)
  IN /\ \A x \in call[c].todo : x.at > call[c].done \/ (x.at = call[c].done /\ Handled(s, x))
     /\ call[c].plans \subseteq planned[s]
     /\ \A r \in rows[s] : r.at <= call[c].since => Handled(s, r)
     /\ \A r \in rows[s] :
          \/ r.at <= call[c].since
          \/ Handled(s, r)
          \/ \E x \in call[c].todo \cup call[c].failed : x.at <= r.at /\ Same(x, r)
          \/ /\ r.at > call[c].done /\ \A x \in call[c].todo : r.at > x.at
             /\ \A p \in call[c].plans : r.at > p

\* A record of the time of a sprint was made after it, or came from another store.
NoTies == \A s \in Stores : \A r \in rows[s] : r.at \in planned[s] => Handled(s, r)

Passed ==
  /\ NoTies
  /\ \A s \in Stores : \A r \in rows[s] : r.at <= pushed[s] => Handled(s, r)
  /\ \A c \in Calls : call[c].pc = "push" => Listed(c)

ReplayInv == Dated /\ Passed

LEMMA ReplayInvPasses == Typed /\ ReplayInv => NothingSkipped
<1> SUFFICES ASSUME Typed, ReplayInv, NEW s \in Stores, NEW r \in rows[s], r.at <= pushed[s]
             PROVE  Pushed(r) \/ r.text \in failures[s] \/ r \in behind[s]
  BY DEF NothingSkipped
<1>1. Handled(s, r)
  BY DEF ReplayInv, Passed
<1>2. QED
  BY <1>1 DEF Handled, Pushed, Same

LEMMA ReplayInvInit ==
  ASSUME OneClock
  PROVE  Init => ReplayInv
<1> SUFFICES ASSUME Init PROVE ReplayInv
  OBVIOUS
<1>1. Everything = {}
  BY DEF Init, Everything
<1>2. \A s, t \in Stores : Date(s) \in Nat \ {0} /\ Date(s) = Date(t)
  <2>1. now = 1 /\ \A s \in Stores : Ahead[s] \in Nat
    BY EventReplayAssumption DEF Init
  <2>2. QED
    BY <2>1 DEF Date, OneClock
<1>3. \A c \in Calls : call[c].pc = "idle"
  BY DEF Init, IdleCall
<1>4. \A s \in Stores : rows[s] = {}
  BY DEF Init
<1>5. Dated
  BY <1>1, <1>2 DEF Dated
<1>6. Passed
  BY <1>3, <1>4 DEF Passed, NoTies
<1>7. QED
  BY <1>5, <1>6 DEF ReplayInv

\* What is handled stays so.
LEMMA StillHandled ==
  ASSUME Typed, Grown, NEW s \in Stores, NEW r, Handled(s, r), failures[s] \subseteq failures'[s]
  PROVE  Handled(s, r)'
<1>1. CASE r.text \in failures[s]
  BY <1>1 DEF Handled
<1>2. CASE \E i \in 1..Len(log) : log[i] \in rows[s] /\ Same(log[i], r)
  <2>1. PICK i \in 1..Len(log) : log[i] \in rows[s] /\ Same(log[i], r)
    BY <1>2
  <2>2. i \in 1..Len(log)' /\ log'[i] = log[i] /\ log'[i] \in rows'[s] /\ Len(log) \in Nat
    BY <2>1 DEF Grown, Typed
  <2>3. QED
    BY <2>1, <2>2 DEF Handled, Same
<1>3. CASE r \in behind[s]
  BY <1>3 DEF Handled, Grown
<1>4. QED
  BY <1>1, <1>2, <1>3 DEF Handled

\* Records that come to a table are from the log, or made too late, or later than
\* all the store has reached.
NewAreHandled ==
  \A s \in Stores : \A r \in rows'[s] :
    r \in rows[s] \/ Handled(s, r)' \/ Beyond(s, r.at)

LEMMA CallTimes ==
  ASSUME Typed, NEW c \in Calls
  PROVE  /\ call[c].since \in Nat /\ call[c].done \in Nat /\ call[c].plans \subseteq Nat
         /\ \A x \in call[c].todo \cup call[c].failed : x \in Everything /\ x \in rows[StoreOf(c)]
                                                        /\ x \in Record /\ x.at \in Nat
<1>1. call[c] \in CallRecord /\ CallTyped(c) /\ StoreOf(c) \in Stores
  BY StoreIsAStore DEF Typed
<1>2. \A x \in call[c].todo \cup call[c].failed : x \in Record /\ x \in rows[StoreOf(c)]
  BY <1>1 DEF CallRecord, CallTyped
<1>3. QED
  BY <1>1, <1>2, RecordIds DEF CallRecord, Everything

LEMMA RowTimes ==
  ASSUME Typed, NEW s \in Stores, NEW r \in rows[s]
  PROVE  r \in Record /\ r.at \in Nat /\ r \in Everything
BY RecordIds DEF Typed, Everything

LEMMA ListedStays ==
  ASSUME Typed, Typed', Grown, NEW c \in Calls, Listed(c), call'[c] = call[c], NewAreHandled,
         failures[StoreOf(c)] \subseteq failures'[StoreOf(c)]
  PROVE  Listed(c)'
<1> DEFINE s == StoreOf(c)
           OnTheWay(r) == \E x \in call[c].todo \cup call[c].failed : x.at <= r.at /\ Same(x, r)
           Later(r) == /\ r.at > call[c].done /\ \A x \in call[c].todo : r.at > x.at
                       /\ \A p \in call[c].plans : r.at > p
<1>1. s \in Stores
  BY StoreIsAStore
<1>2. ASSUME NEW r \in rows'[s], r \in rows[s]
      PROVE  /\ r.at <= call[c].since => Handled(s, r)'
             /\ r.at <= call[c].since \/ Handled(s, r)' \/ OnTheWay(r) \/ Later(r)
  <2>1. Handled(s, r) => Handled(s, r)'
    BY <1>1, StillHandled
  <2>2. QED
    BY <1>2, <2>1 DEF Listed
<1>3. ASSUME NEW r \in rows'[s], Beyond(s, r.at)
      PROVE  r.at > call[c].since /\ Later(r)
  BY <1>3 DEF Beyond
<1>4. \A r \in rows'[s] : r.at \in Nat /\ call[c].since \in Nat
  BY <1>1, CallTimes, RecordIds DEF Typed
<1>5. ASSUME NEW r \in rows'[s]
      PROVE  /\ r.at <= call[c].since => Handled(s, r)'
             /\ r.at <= call[c].since \/ Handled(s, r)' \/ OnTheWay(r) \/ Later(r)
  BY <1>1, <1>2, <1>3, <1>4 DEF NewAreHandled
<1>6. \A x, r : Same(x, r)' <=> Same(x, r)
  BY DEF Same
<1>7. \A x \in call[c].todo : x.at > call[c].done \/ (x.at = call[c].done /\ Handled(s, x)')
  BY <1>1, StillHandled DEF Listed
<1>8. call[c].plans \subseteq planned'[s]
  BY <1>1 DEF Listed, Grown
<1>9. QED
  BY <1>5, <1>6, <1>7, <1>8 DEF Listed

LEMMA PassedStays ==
  ASSUME Typed, Typed', Grown, Passed, NewAreHandled, NEW s \in Stores, pushed'[s] = pushed[s],
         failures[s] \subseteq failures'[s]
  PROVE  \A r \in rows'[s] : r.at <= pushed'[s] => Handled(s, r)'
<1> SUFFICES ASSUME NEW r \in rows'[s], r.at <= pushed[s] PROVE Handled(s, r)'
  OBVIOUS
<1>1. CASE r \in rows[s]
  <2>1. Handled(s, r)
    BY <1>1 DEF Passed
  <2>2. QED
    BY <2>1, StillHandled
<1>2. CASE Beyond(s, r.at)
  <2>1. r.at \in Nat /\ pushed[s] \in Nat /\ r.at > pushed[s]
    BY <1>2, RecordIds DEF Typed, Beyond
  <2>2. QED
    BY <2>1
<1>3. QED
  BY <1>1, <1>2 DEF NewAreHandled

\* Where no table changes, none has new records.
LEMMA NothingNew ==
  ASSUME rows' = rows
  PROVE  NewAreHandled
BY DEF NewAreHandled

\* Where no sprint is added, no tie comes about.
LEMMA NoTiesStays ==
  ASSUME Typed, Grown, NoTies, NewAreHandled, planned' = planned,
         \A s \in Stores : failures[s] \subseteq failures'[s]
  PROVE  NoTies'
<1> SUFFICES ASSUME NEW s \in Stores, NEW r \in rows'[s], r.at \in planned[s]
             PROVE  Handled(s, r)'
  BY DEF NoTies
<1>1. CASE r \in rows[s]
  <2>1. Handled(s, r)
    BY <1>1 DEF NoTies
  <2>2. QED
    BY <2>1, StillHandled
<1>2. ~Beyond(s, r.at)
  BY DEF Beyond
<1>3. QED
  BY <1>1, <1>2 DEF NewAreHandled

\* Steps that make no record.
LEMMA DatedStays ==
  ASSUME Dated, Everything' \subseteq Everything, now' = now
  PROVE  Dated'
<1>1. \A t \in Stores : Date(t)' = Date(t)
  BY DEF Date
<1>2. QED
  BY <1>1 DEF Dated

LEMMA CreateKeeps ==
  ASSUME OneClock, Typed, Typed', Grown, ReplayInv,
         NEW s \in Stores, NEW text \in Texts, NEW tick \in Ticks, Create(s, text, tick)
  PROVE  ReplayInv'
<1>1. tick \in Nat \ {0} /\ now \in Nat /\ now' = now + tick
  BY EventReplayAssumption DEF Typed, OneClock, Create
<1>2. \A t \in Stores : Ahead[t] \in Nat
  BY EventReplayAssumption
<1>3. \A t \in Stores : Date(t) \in Nat \ {0} /\ Date(t)' \in Nat /\ Date(t) < Date(t)'
  <2>1. \A t \in Stores : Date(t) \in Nat \ {0}
    BY DEF ReplayInv, Dated
  <2>2. QED
    BY <1>1, <1>2, <2>1 DEF Date
<1>4. \A t, u \in Stores : Date(t)' = Date(u)' /\ Date(t) = Date(u)
  BY DEF Date, OneClock
<1>5. PICK new : /\ new.at = Date(s) /\ rows' = [rows EXCEPT ![s] = @ \cup {new}]
                 /\ Reached(s) => behind' = [behind EXCEPT ![s] = @ \cup {new}]
  <2> DEFINE new == [id |-> NextId(s), by |-> s, at |-> Date(s), text |-> text]
  <2>1. new.at = Date(s)
    OBVIOUS
  <2>2. rows' = [rows EXCEPT ![s] = @ \cup {new}]
    BY DEF Create
  <2>3. Reached(s) => behind' = [behind EXCEPT ![s] = @ \cup {new}]
    BY DEF Create
  <2>4. QED
    BY <2>1, <2>2, <2>3
<1>6. UNCHANGED <<planned, pushed, pulled, log, call, failures, gaps>>
  BY DEF Create
<1>7. \A t \in Stores : \A r \in rows'[t] : r \in rows[t] \/ (t = s /\ r = new)
  BY <1>5 DEF Typed
<1>8. Everything' \subseteq Everything \cup {new}
  BY <1>6, <1>7 DEF Everything
<1>9. NewAreHandled
  <2>1. CASE Reached(s)
    <3>1. new \in behind'[s]
      BY <1>5, <2>1 DEF Typed
    <3>2. QED
      BY <1>7, <3>1 DEF NewAreHandled, Handled
  <2>2. CASE ~Reached(s)
    <3>1. Date(s) > pushed[s] /\ Date(s) \notin planned[s]
      BY <1>3, <2>2 DEF Reached, Typed
    <3>2. ASSUME NEW c \in Calls, StoreOf(c) = s
          PROVE  /\ Date(s) > call[c].since /\ Date(s) > call[c].done
                 /\ \A p \in call[c].plans \cup {x.at : x \in call[c].todo} : Date(s) > p
      <4>1. /\ ~(Date(s) <= call[c].since) /\ ~(Date(s) <= call[c].done)
            /\ \A p \in call[c].plans \cup {x.at : x \in call[c].todo} : ~(Date(s) <= p)
        BY <2>2, <3>2 DEF Reached
      <4>2. /\ call[c].since \in Nat /\ call[c].done \in Nat /\ Date(s) \in Nat
            /\ \A p \in call[c].plans \cup {x.at : x \in call[c].todo} : p \in Nat
        BY <1>3, CallTimes
      <4>3. \A n \in Nat : ~(Date(s) <= n) => Date(s) > n
        BY <4>2
      <4>4. QED
        BY <4>1, <4>2, <4>3
    <3>3. Beyond(s, new.at)
      BY <1>5, <3>1, <3>2 DEF Beyond
    <3>4. QED
      BY <1>7, <3>3 DEF NewAreHandled
  <2>3. QED
    BY <2>1, <2>2
<1>10. Dated'
  <2>1. \A r \in Everything : r.at \in Nat
    BY EverythingIsRecords, RecordIds
  <2>2. \A r \in Everything' : r.at \in Nat /\ \A t \in Stores : r.at < Date(t)'
    <3>1. ASSUME NEW r \in Everything, NEW t \in Stores
          PROVE  r.at < Date(t)'
      <4>1. r.at < Date(t)
        BY DEF ReplayInv, Dated
      <4>2. QED
        BY <1>3, <2>1, <4>1
    <3>2. new.at \in Nat /\ \A t \in Stores : new.at < Date(t)'
      BY <1>3, <1>4, <1>5
    <3>3. QED
      BY <1>8, <2>1, <3>1, <3>2
  <2>3. \A q, r \in Everything' : q.at = r.at => q = r
    <3>1. \A r \in Everything : r.at < new.at
      BY <1>5 DEF ReplayInv, Dated
    <3>2. \A q, r \in Everything : q.at = r.at => q = r
      BY DEF ReplayInv, Dated
    <3>3. new.at \in Nat
      BY <1>3, <1>5
    <3>4. \A r \in Everything : r.at # new.at
      BY <2>1, <3>1, <3>3
    <3>5. QED
      BY <1>8, <3>2, <3>4
  <2>4. \A t \in Stores : Date(t)' \in Nat \ {0}
    BY <1>3
  <2>5. QED
    BY <1>4, <2>2, <2>3, <2>4 DEF Dated
<1>11. Passed'
  <2>1. \A t \in Stores : \A r \in rows'[t] : r.at <= pushed'[t] => Handled(t, r)'
    BY <1>6, <1>9, PassedStays DEF ReplayInv
  <2>2. ASSUME NEW c \in Calls, call'[c].pc = "push"
        PROVE  Listed(c)'
    <3>1. Listed(c)
      BY <1>6, <2>2 DEF ReplayInv, Passed
    <3>2. QED
      BY <1>6, <1>9, <3>1, ListedStays DEF ReplayInv
  <2>3. NoTies'
    BY <1>6, <1>9, NoTiesStays DEF ReplayInv, Passed
  <2>4. QED
    BY <2>1, <2>2, <2>3 DEF Passed
<1>12. QED
  BY <1>10, <1>11 DEF ReplayInv

LEMMA PlanKeeps ==
  ASSUME Typed, Typed', Grown, ReplayInv, NEW s \in Stores, NEW lead \in Leads[s], Plan(s, lead)
  PROVE  ReplayInv'
<1>1. /\ UNCHANGED <<rows, pushed, pulled, log, call, now, failures, gaps, behind>>
      /\ planned' = [planned EXCEPT ![s] = @ \cup {Date(s) + lead}]
  BY DEF Plan
<1>2. Everything' = Everything /\ NewAreHandled
  BY <1>1, NothingNew DEF Everything
<1>3. Dated'
  BY <1>1, <1>2, DatedStays DEF ReplayInv
<1>4. \A t \in Stores : \A r \in rows'[t] : r.at <= pushed'[t] => Handled(t, r)'
  BY <1>1, <1>2, PassedStays DEF ReplayInv
<1>5. ASSUME NEW c \in Calls, call'[c].pc = "push"
      PROVE  Listed(c)'
  <2>1. Listed(c)
    BY <1>1, <1>5 DEF ReplayInv, Passed
  <2>2. QED
    BY <1>1, <1>2, <2>1, ListedStays
<1>6. ASSUME NEW t \in Stores, NEW r \in rows[t], r.at \in planned'[t]
      PROVE  Handled(t, r)'
  <2>1. r.at \in planned[t]
    <3>1. r.at \in Nat /\ r.at < Date(s) /\ Date(s) \in Nat
      BY RowTimes DEF ReplayInv, Dated
    <3>2. lead \in Nat
      BY EventReplayAssumption
    <3>3. r.at # Date(s) + lead
      BY <3>1, <3>2
    <3>4. QED
      BY <1>1, <1>6, <3>3 DEF Typed
  <2>2. Handled(t, r)
    BY <2>1 DEF ReplayInv, Passed, NoTies
  <2>3. QED
    BY <1>1, <2>2, StillHandled
<1>7. NoTies'
  BY <1>1, <1>6 DEF NoTies
<1>8. QED
  BY <1>3, <1>4, <1>5, <1>7 DEF ReplayInv, Passed

\* A step of one call that leaves cursors, time and failures.
LEMMA OneCallMoves ==
  ASSUME Typed, Typed', Grown, ReplayInv, NEW c \in Calls, NEW k, call' = [call EXCEPT ![c] = k],
         UNCHANGED <<planned, pushed, now, failures>>, Everything' \subseteq Everything, NewAreHandled,
         k.pc = "push" => Listed(c)'
  PROVE  ReplayInv'
<1>1. call'[c] = k /\ \A e \in Calls : e # c => call'[e] = call[e]
  BY DEF Typed
<1>2. Dated' /\ NoTies'
  BY DatedStays, NoTiesStays DEF ReplayInv, Passed
<1>3. \A s \in Stores : \A r \in rows'[s] : r.at <= pushed'[s] => Handled(s, r)'
  BY PassedStays DEF ReplayInv
<1>4. ASSUME NEW e \in Calls, call'[e].pc = "push"
      PROVE  Listed(e)'
  <2>1. CASE e = c
    BY <1>1, <1>4, <2>1
  <2>2. CASE e # c
    <3>1. call'[e] = call[e] /\ Listed(e)
      BY <1>1, <1>4, <2>2 DEF ReplayInv, Passed
    <3>2. QED
      BY <3>1, ListedStays DEF ReplayInv
  <2>3. QED
    BY <2>1, <2>2
<1>5. QED
  BY <1>2, <1>3, <1>4 DEF ReplayInv, Passed

\* Of the records that look like r the list has one that is no later.
LEMMA DeduplicatedCovers ==
  ASSUME Typed, Dated, NEW s \in Stores, NEW r \in Since(s)
  PROVE  \E x \in Deduplicated(Since(s)) : x.at <= r.at /\ Same(x, r)
<1>1. \A q \in Since(s) : q \in rows[s] /\ q \in Everything /\ q.at \in Nat /\ q.id.n \in Nat
  BY RowTimes, RecordIds DEF Since
<1>2. CASE ~Numbered
  BY <1>1, <1>2 DEF Deduplicated, Same
<1>3. CASE Numbered
  <2> DEFINE like == {q \in Since(s) : q.text = r.text}
  <2>1. {q.at : q \in like} \in SUBSET Nat /\ {q.at : q \in like} # {}
    BY <1>1
  <2>2. PICK m \in {q.at : q \in like} : \A n \in {q.at : q \in like} : m <= n
    BY <2>1, LeastOf
  <2>3. PICK x \in like : x.at = m
    BY <2>2
  <2>4. \A q \in like : x.at <= q.at
    BY <2>2, <2>3
  <2>5. ASSUME NEW q \in Since(s), q.text = x.text
        PROVE  ~Earlier(q, x)
    <3>1. x.at <= q.at /\ x.at \in Nat /\ q.at \in Nat /\ x.id.n \in Nat
      BY <1>1, <2>4, <2>5
    <3>2. q.at = x.at => q = x
      BY <1>1 DEF Dated
    <3>3. QED
      BY <3>1, <3>2 DEF Earlier
  <2>6. x \in Deduplicated(Since(s))
    BY <2>5 DEF Deduplicated
  <2>7. x.at <= r.at /\ Same(x, r)
    BY <1>3, <2>4 DEF Same
  <2>8. QED
    BY <2>6, <2>7
<1>4. QED
  BY <1>2, <1>3

LEMMA ReplayKeeps ==
  ASSUME Typed, Typed', Grown, ReplayInv, NEW c \in Calls, Replay(c)
  PROVE  ReplayInv'
<1> DEFINE s == StoreOf(c)
           todo == Deduplicated(Since(s))
           plans == {p \in planned[s] : p > pushed[s]}
           k == [call[c] EXCEPT !.pc = "push", !.since = pushed[s], !.todo = todo, !.plans = plans]
<1>1. /\ s \in Stores /\ call[c] = IdleCall /\ pushed[s] \in Nat
      /\ UNCHANGED <<rows, planned, pushed, pulled, log, now, failures, gaps, behind>>
  BY StoreIsAStore DEF Typed, CallTyped, Replay
<1>2. call' = [call EXCEPT ![c] = k]
  BY DEF Replay, Typed
<1>3. k.since = pushed[s] /\ k.done = 0 /\ k.todo = todo /\ k.failed = {} /\ k.plans = plans
  BY <1>1 DEF IdleCall
<1> HIDE DEF k
<1>4. call'[c] = k
  BY <1>2 DEF Typed
<1>5. plans \subseteq planned'[s]
  BY <1>1
<1>6. \A x \in todo : x.at > 0
  <2>1. \A x \in todo : x \in rows[s] /\ x.at > pushed[s]
    BY DEF Deduplicated, Since
  <2>2. QED
    BY <1>1, <2>1, RowTimes
<1>7. \A r \in rows[s] : r.at <= pushed[s] => Handled(s, r)
  BY <1>1 DEF ReplayInv, Passed
<1>8. ASSUME NEW r \in rows[s]
      PROVE  r.at <= pushed[s] \/ \E x \in todo : x.at <= r.at /\ Same(x, r)
  <2>1. r.at \in Nat
    BY <1>1, RowTimes
  <2>2. CASE r.at > pushed[s]
    <3>1. r \in Since(s)
      BY <2>2 DEF Since
    <3>2. QED
      BY <1>1, <3>1, DeduplicatedCovers DEF ReplayInv
  <2>3. QED
    BY <1>1, <2>1, <2>2
<1>9. \A r : Handled(s, r)' <=> Handled(s, r)
  BY <1>1 DEF Handled, Same
<1>10. \A x, r : Same(x, r)' <=> Same(x, r)
  BY DEF Same
<1> HIDE DEF plans, todo
<1>11. Listed(c)'
  BY <1>1, <1>3, <1>4, <1>5, <1>6, <1>7, <1>8, <1>9, <1>10 DEF Listed
<1>12. Everything' = Everything
  BY <1>1 DEF Everything
<1>13. QED
  BY <1>1, <1>2, <1>11, <1>12, OneCallMoves, NothingNew

LEMMA MergeKeeps ==
  ASSUME Typed, Typed', Grown, ReplayInv, NEW c \in Calls, Merge(c)
  PROVE  ReplayInv'
<1>1. /\ call[c] \in CallRecord /\ call[c].pc \in {"merge", "state"}
      /\ UNCHANGED <<planned, pushed, pulled, log, now, failures, gaps, behind>>
  BY DEF Merge, Typed
<1>2. PICK pc \in {"cursor", "seed"}, gap \in BOOLEAN : call' = [call EXCEPT ![c].pc = pc, ![c].gap = gap]
  <2>1. PICK failed : call' = [call EXCEPT ![c].pc = IF @ = "merge" THEN "cursor" ELSE "seed",
                                           ![c].gap = @ \/ failed # {}]
    BY DEF Merge
  <2>2. PICK gap \in BOOLEAN : gap = (call[c].gap \/ failed # {})
    BY <1>1 DEF CallRecord
  <2>3. PICK pc \in {"cursor", "seed"} : pc = IF call[c].pc = "merge" THEN "cursor" ELSE "seed"
    OBVIOUS
  <2>4. call' = [call EXCEPT ![c].pc = pc, ![c].gap = gap]
    BY <2>1, <2>2, <2>3 DEF Typed, CallRecord
  <2>5. QED
    BY <2>4
<1>3. PICK k : call' = [call EXCEPT ![c] = k] /\ k.pc # "push"
  <2> DEFINE k == [call[c] EXCEPT !.pc = pc, !.gap = gap]
  <2>1. call' = [call EXCEPT ![c] = k]
    BY <1>2 DEF Typed
  <2>2. k.pc # "push"
    BY <1>1 DEF CallRecord
  <2>3. QED
    BY <2>1, <2>2
<1>4. NewAreHandled
  <2>1. ASSUME NEW t \in Stores, NEW r \in rows'[t], NEW i \in 1..Len(log), r = log[i]
        PROVE  Handled(t, r)'
    BY <1>1, <2>1 DEF Handled, Same
  <2>2. QED
    BY <2>1, MergedRows DEF NewAreHandled
<1>5. QED
  BY <1>1, <1>3, <1>4, MergedRows, OneCallMoves

LEMMA PushKeeps ==
  ASSUME Typed, Typed', Grown, ReplayInv, NEW c \in Calls, Push(c)
  PROVE  ReplayInv'
<1> DEFINE s == StoreOf(c)
<1>1. /\ s \in Stores /\ call[c] \in CallRecord /\ Listed(c) /\ call[c].pc = "push"
      /\ UNCHANGED <<rows, planned, pushed, pulled, now, failures, gaps, behind>>
  BY StoreIsAStore DEF Typed, Push, ReplayInv, Passed
<1>2. PICK r \in call[c].todo :
        /\ \A q \in call[c].todo \ {r} : ~Earlier(q, r)
        /\ \A p \in call[c].plans : r.at < p
        /\ \/ /\ log' = Append(log, r)
              /\ call' = [call EXCEPT ![c].todo = @ \ {r}, ![c].done = r.at]
           \/ /\ log' \in {log, Append(log, r)}
              /\ call' = [call EXCEPT ![c].todo = @ \ {r}, ![c].failed = @ \cup {r}]
  BY DEF Push, IsNext
<1>3. r \in rows[s] /\ r \in Record /\ r \in Everything /\ r.at \in Nat
  BY CallTimes
<1>4. \A x \in call[c].todo \ {r} : x.at > r.at
  <2>1. ASSUME NEW x \in call[c].todo \ {r}
        PROVE  x.at > r.at
    <3>1. x.at \in Nat /\ ~Earlier(x, r) /\ x \in Everything
      BY <1>2, CallTimes
    <3>2. x.at # r.at
      BY <1>3, <3>1 DEF ReplayInv, Dated
    <3>3. QED
      BY <1>3, <3>1, <3>2 DEF Earlier
  <2>2. QED
    BY <2>1
<1>5. PICK k : /\ call' = [call EXCEPT ![c] = k]
               /\ k.since = call[c].since /\ k.todo = call[c].todo \ {r} /\ k.plans = call[c].plans
               /\ \/ log' = Append(log, r) /\ k.done = r.at /\ k.failed = call[c].failed
                  \/ k.done = call[c].done /\ k.failed = call[c].failed \cup {r}
  <2>1. CASE log' = Append(log, r) /\ call' = [call EXCEPT ![c].todo = @ \ {r}, ![c].done = r.at]
    <3> DEFINE k == [call[c] EXCEPT !.todo = call[c].todo \ {r}, !.done = r.at]
    <3>1. call' = [call EXCEPT ![c] = k]
      BY <2>1 DEF Typed
    <3>2. k.since = call[c].since /\ k.todo = call[c].todo \ {r} /\ k.plans = call[c].plans /\ k.done = r.at /\ k.failed = call[c].failed
      BY <1>1 DEF CallRecord
    <3>3. QED
      BY <2>1, <3>1, <3>2
  <2>2. CASE call' = [call EXCEPT ![c].todo = @ \ {r}, ![c].failed = @ \cup {r}]
    <3> DEFINE k == [call[c] EXCEPT !.todo = call[c].todo \ {r}, !.failed = call[c].failed \cup {r}]
    <3>1. call' = [call EXCEPT ![c] = k]
      BY <2>2 DEF Typed
    <3>2. /\ k.since = call[c].since /\ k.todo = call[c].todo \ {r} /\ k.plans = call[c].plans
          /\ k.done = call[c].done /\ k.failed = call[c].failed \cup {r}
      BY <1>1 DEF CallRecord
    <3>3. QED
      BY <3>1, <3>2
  <2>3. QED
    BY <1>2, <2>1, <2>2
<1>6. call'[c] = k
  BY <1>5 DEF Typed
<1>7. ASSUME NEW q, Handled(s, q)
      PROVE  Handled(s, q)'
  BY <1>1, <1>7, StillHandled
<1>8. ASSUME log' = Append(log, r), NEW q, Same(r, q)
      PROVE  Handled(s, q)'
  <2>1. log \in Seq(Record)
    BY DEF Typed
  <2>2. PICK i : i = Len(log) + 1
    OBVIOUS
  <2>3. Len(Append(log, r)) = Len(log) + 1 /\ Append(log, r)[Len(log) + 1] = r /\ Len(log) \in Nat
    BY <1>3, <2>1, AppendProperties
  <2>4. i \in 1..Len(log)' /\ log'[i] = r
    BY <1>8, <2>2, <2>3
  <2>5. r \in rows'[s] /\ Same(log'[i], q)
    BY <1>1, <1>3, <1>8, <2>4
  <2>6. QED
    BY <2>4, <2>5 DEF Handled, Same
<1>9. \A x, q : Same(x, q)' <=> Same(x, q)
  BY DEF Same
<1>10. Listed(c)'
  <2>1. /\ \A x \in k.todo : x.at > k.done \/ (x.at = k.done /\ Handled(s, x)')
        /\ k.plans \subseteq planned'[s]
    <3>1. \A x \in call[c].todo : x.at > call[c].done \/ (x.at = call[c].done /\ Handled(s, x)')
      BY <1>1, <1>7 DEF Listed
    <3>2. call[c].plans \subseteq planned'[s]
      BY <1>1 DEF Listed
    <3>3. QED
      BY <1>4, <1>5, <3>1, <3>2
  <2>2. \A q \in rows[s] : q.at <= k.since => Handled(s, q)'
    BY <1>1, <1>5, <1>7 DEF Listed
  <2>3. ASSUME NEW q \in rows[s]
        PROVE  \/ q.at <= k.since
               \/ Handled(s, q)'
               \/ \E x \in k.todo \cup k.failed : x.at <= q.at /\ Same(x, q)
               \/ /\ q.at > k.done /\ \A x \in k.todo : q.at > x.at
                  /\ \A p \in k.plans : q.at > p
    <3>1. CASE q.at <= call[c].since
      BY <1>5, <3>1
    <3>2. CASE Handled(s, q)
      BY <1>7, <3>2
    <3>3. CASE \E x \in call[c].todo \cup call[c].failed : x.at <= q.at /\ Same(x, q)
      <4>1. PICK x \in call[c].todo \cup call[c].failed : x.at <= q.at /\ Same(x, q)
        BY <3>3
      <4>2. CASE x \in k.todo \cup k.failed
        BY <4>1, <4>2
      <4>3. CASE x \notin k.todo \cup k.failed
        <5>1. x = r /\ log' = Append(log, r)
          BY <1>5, <4>1, <4>3
        <5>2. QED
          BY <1>8, <4>1, <5>1
      <4>4. QED
        BY <4>2, <4>3
    <3>4. CASE /\ q.at > call[c].done /\ \A x \in call[c].todo : q.at > x.at
               /\ \A p \in call[c].plans : q.at > p
      BY <1>5, <3>4
    <3>5. QED
      BY <1>1, <3>1, <3>2, <3>3, <3>4 DEF Listed
  <2>4. QED
    BY <1>1, <1>6, <1>9, <2>1, <2>2, <2>3 DEF Listed
<1>11. Everything' \subseteq Everything
  BY <1>1, <1>2, PushedEvents
<1>12. QED
  BY <1>1, <1>5, <1>10, <1>11, OneCallMoves, NothingNew

LEMMA PushSprintKeeps ==
  ASSUME Typed, Typed', Grown, ReplayInv, NEW c \in Calls, PushSprint(c)
  PROVE  ReplayInv'
<1> DEFINE s == StoreOf(c)
<1>1. /\ s \in Stores /\ call[c] \in CallRecord /\ Listed(c) /\ NoTies
      /\ UNCHANGED <<rows, planned, pushed, pulled, log, now, failures, gaps, behind>>
  BY StoreIsAStore DEF Typed, PushSprint, ReplayInv, Passed
<1>2. PICK p \in call[c].plans, k \in CallRecord :
        /\ \A q \in call[c].plans \cup {x.at : x \in call[c].todo} : p <= q
        /\ call' = [call EXCEPT ![c] = k]
        /\ k.todo = call[c].todo /\ k.failed = call[c].failed /\ k.since = call[c].since
        /\ k.plans = call[c].plans \ {p} /\ k.done \in {p, call[c].done}
  BY PushedSprint
<1>3. call'[c] = k
  BY <1>2 DEF Typed
<1>4. \A x \in k.todo : x.at > k.done \/ (x.at = k.done /\ Handled(s, x))
  <2>1. CASE k.done = call[c].done
    BY <1>1, <1>2, <2>1 DEF Listed
  <2>2. CASE k.done = p
    <3>1. ASSUME NEW x \in k.todo
          PROVE  x.at > p \/ (x.at = p /\ Handled(s, x))
      <4>1. x.at \in Nat /\ p \in Nat /\ p <= x.at /\ x \in rows[s]
        BY <1>2, CallTimes
      <4>2. p \in planned[s]
        BY <1>1 DEF Listed
      <4>3. x.at = p => Handled(s, x)
        BY <1>1, <4>1, <4>2 DEF NoTies
      <4>4. QED
        BY <4>1, <4>3
    <3>2. QED
      BY <2>2, <3>1
  <2>3. QED
    BY <1>2, <2>1, <2>2
<1>5. ASSUME NEW q \in rows[s]
      PROVE  \/ q.at <= k.since
             \/ Handled(s, q)
             \/ \E x \in k.todo \cup k.failed : x.at <= q.at /\ Same(x, q)
             \/ /\ q.at > k.done /\ \A x \in k.todo : q.at > x.at
                /\ \A o \in k.plans : q.at > o
  BY <1>1, <1>2 DEF Listed
<1>6. k.plans \subseteq planned[s] /\ \A q \in rows[s] : q.at <= k.since => Handled(s, q)
  BY <1>1, <1>2 DEF Listed
<1>7. \A q : Handled(s, q)' <=> Handled(s, q)
  BY <1>1 DEF Handled, Same
<1>8. \A x, q : Same(x, q)' <=> Same(x, q)
  BY DEF Same
<1>9. Listed(c)'
  BY <1>1, <1>3, <1>4, <1>5, <1>6, <1>7, <1>8 DEF Listed
<1>10. Everything' = Everything
  BY <1>1 DEF Everything
<1>11. QED
  BY <1>1, <1>2, <1>9, <1>10, OneCallMoves, NothingNew

LEMMA FinishKeeps ==
  ASSUME Typed, Typed', Grown, ReplayInv, NEW c \in Calls, Finish(c)
  PROVE  ReplayInv'
<1> DEFINE s == StoreOf(c)
<1>1. /\ s \in Stores /\ call[c].pc = "push" /\ Listed(c) /\ pushed[s] \in Nat
      /\ call' = [call EXCEPT ![c] = IdleCall]
      /\ UNCHANGED <<rows, planned, pulled, log, now, gaps, behind>>
  BY StoreIsAStore DEF Typed, Finish, ReplayInv, Passed
<1>2. PICK next \in Nat : /\ next = IF call[c].done > call[c].since THEN call[c].done ELSE pushed[s]
                          /\ pushed' = [pushed EXCEPT ![s] = next]
                          /\ failures' = [failures EXCEPT ![s] =
                                            @ \cup {r.text : r \in {x \in call[c].failed : x.at <= next}}]
  BY <1>1, CallTimes DEF Finish
<1>3. /\ pushed'[s] = next /\ \A t \in Stores : t # s => pushed'[t] = pushed[t]
      /\ \A x \in call[c].failed : x.at <= next => x.text \in failures'[s]
      /\ \A t \in Stores : failures[t] \subseteq failures'[t]
  BY <1>1, <1>2 DEF Typed
<1>4. /\ call'[c] = IdleCall
      /\ \A e \in Calls : e # c => call'[e] = call[e]
  BY <1>1 DEF Typed
<1>5. Everything' = Everything
  BY <1>1 DEF Everything
<1>6. Dated'
  BY <1>1, <1>5, DatedStays DEF ReplayInv
<1>7. ASSUME NEW r \in rows[s], r.at <= next
      PROVE  Handled(s, r)'
  <2>1. r.at \in Nat /\ call[c].done \in Nat /\ call[c].since \in Nat
    BY <1>1, RowTimes, CallTimes
  <2>2. Handled(s, r) => Handled(s, r)'
    BY <1>1, <1>3, StillHandled
  <2>3. CASE ~(call[c].done > call[c].since)
    <3>1. Handled(s, r)
      BY <1>1, <1>2, <1>7, <2>3 DEF ReplayInv, Passed
    <3>2. QED
      BY <2>2, <3>1
  <2>4. CASE call[c].done > call[c].since
    <3>1. next = call[c].done
      BY <1>2, <2>4
    <3>2. CASE r.at <= call[c].since
      BY <1>1, <2>2, <3>2 DEF Listed
    <3>3. CASE \E x \in call[c].todo \cup call[c].failed : x.at <= r.at /\ Same(x, r)
      <4>1. PICK x \in call[c].todo \cup call[c].failed : x.at <= r.at /\ Same(x, r)
        BY <3>3
      <4>2. x.at \in Nat /\ x.at <= next
        BY <1>7, <2>1, <3>1, <4>1, CallTimes
      <4>3. CASE x \in call[c].todo
        <5>1. x.at = call[c].done /\ Handled(s, x)
          BY <1>1, <2>1, <3>1, <4>2, <4>3 DEF Listed
        <5>2. x.at = r.at /\ x \in Everything /\ r \in Everything
          BY <1>1, <1>7, <2>1, <3>1, <4>1, <4>2, <5>1, CallTimes, RowTimes
        <5>3. x = r
          BY <5>2 DEF ReplayInv, Dated
        <5>4. QED
          BY <2>2, <5>1, <5>3
      <4>4. CASE x \notin call[c].todo
        <5>1. x.text \in failures'[s]
          BY <1>3, <4>1, <4>2, <4>4
        <5>2. x.text = r.text
          BY <4>1 DEF Same
        <5>3. QED
          BY <5>1, <5>2 DEF Handled
      <4>5. QED
        BY <4>3, <4>4
    <3>4. ~(r.at > call[c].done)
      BY <1>7, <2>1, <3>1
    <3>5. QED
      BY <1>1, <2>2, <3>2, <3>3, <3>4 DEF Listed
  <2>5. QED
    BY <2>3, <2>4
<1>8. Passed'
  <2>1. NewAreHandled
    BY <1>1, NothingNew
  <2>2. \A t \in Stores : \A r \in rows'[t] : r.at <= pushed'[t] => Handled(t, r)'
    <3>1. \A t \in Stores : t # s => \A r \in rows'[t] : r.at <= pushed'[t] => Handled(t, r)'
      BY <1>3, <2>1, PassedStays DEF ReplayInv
    <3>2. QED
      BY <1>1, <1>3, <1>7, <3>1
  <2>3. ASSUME NEW e \in Calls, call'[e].pc = "push"
        PROVE  Listed(e)'
    <3>1. e # c
      BY <1>4, <2>3, IdleIsACall
    <3>2. call'[e] = call[e] /\ Listed(e) /\ StoreOf(e) \in Stores
      BY <1>4, <2>3, <3>1, StoreIsAStore DEF ReplayInv, Passed
    <3>3. QED
      BY <1>3, <2>1, <3>2, ListedStays DEF ReplayInv
  <2>4. NoTies'
    BY <1>1, <1>3, <2>1, NoTiesStays DEF ReplayInv, Passed
  <2>5. QED
    BY <2>2, <2>3, <2>4 DEF Passed
<1>9. QED
  BY <1>6, <1>8 DEF ReplayInv

LEMMA ReplayInvNext ==
  ASSUME OneClock
  PROVE  Typed /\ ReplayInv /\ [Next]_vars => ReplayInv'
<1> SUFFICES ASSUME Typed, ReplayInv, [Next]_vars PROVE ReplayInv'
  OBVIOUS
<1>1. Typed' /\ Grown
  BY TypedNext, Growth
<1>2. ASSUME NEW c \in Calls, NEW k, call' = [call EXCEPT ![c] = k],
             k.pc # "push", UNCHANGED <<rows, planned, log, pushed, now, failures>>
      PROVE  ReplayInv'
  <2>1. Everything' = Everything
    BY <1>2 DEF Everything
  <2>2. QED
    BY <1>1, <1>2, <2>1, NothingNew, OneCallMoves
<1>3. ASSUME NEW c \in Calls, NEW from, NEW gap, Fetch(c, from, gap),
             UNCHANGED <<rows, planned, log, pushed, now, failures>>
      PROVE  ReplayInv'
  <2>1. PICK k : call' = [call EXCEPT ![c] = k] /\ k.pc = "merge"
    <3>1. PICK to, more : call' = [call EXCEPT ![c] = [IdleCall EXCEPT !.pc = "merge", !.from = from, !.to = to,
                                                                       !.more = more, !.gap = gap]]
      BY <1>3 DEF Fetch
    <3> DEFINE k == [IdleCall EXCEPT !.pc = "merge", !.from = from, !.to = to, !.more = more, !.gap = gap]
    <3>2. k.pc = "merge"
      BY DEF IdleCall
    <3>3. QED
      BY <3>1, <3>2
  <2>2. QED
    BY <1>2, <1>3, <2>1
<1>4. ASSUME NEW c \in Calls, call' = [call EXCEPT ![c] = IdleCall],
             UNCHANGED <<rows, planned, log, pushed, now, failures>>
      PROVE  ReplayInv'
  BY <1>2, <1>4, IdleIsACall
<1>5. ASSUME NEW c \in Calls, OpenClone(c)
      PROVE  ReplayInv'
  <2> DEFINE k == [call[c] EXCEPT !.pc = "state", !.to = Len(log)]
  <2>1. call' = [call EXCEPT ![c] = k]
    BY <1>5 DEF OpenClone, Typed
  <2>2. k.pc = "state"
    BY DEF Typed, CallRecord
  <2> HIDE DEF k
  <2>3. QED
    BY <1>2, <1>5, <2>1, <2>2 DEF OpenClone
<1>6. ASSUME ReplayInv, UNCHANGED <<rows, planned, log, pushed, call, now, failures, behind>>
      PROVE  ReplayInv'
  <2>1. Dated' <=> Dated
    BY <1>6 DEF Dated, Date, Everything
  <2>2. \A s, r : Handled(s, r)' <=> Handled(s, r)
    BY <1>6 DEF Handled, Same
  <2>3. \A c : Listed(c)' <=> Listed(c)
    BY <1>6, <2>2 DEF Listed, Same
  <2>4. Passed' <=> Passed
    BY <1>6, <2>2, <2>3 DEF Passed, NoTies
  <2>5. QED
    BY <1>6, <2>1, <2>4 DEF ReplayInv
<1>7. ASSUME NEW s \in Stores, NEW text \in Texts, NEW tick \in Ticks, Create(s, text, tick)
      PROVE  ReplayInv'
  BY <1>1, <1>7, CreateKeeps
<1>8. ASSUME NEW s \in Stores, ResetPull(s)
      PROVE  ReplayInv'
  BY <1>6, <1>8 DEF ResetPull
<1>9. ASSUME NEW c \in Calls, OpenPull(c)
      PROVE  ReplayInv'
  BY <1>3, <1>9 DEF OpenPull
<1>10. ASSUME NEW c \in Calls, PersistCursor(c)
       PROVE  ReplayInv'
  BY <1>3, <1>4, <1>10 DEF PersistCursor
<1>11. ASSUME NEW c \in Calls, Seed(c) \/ Die(c)
       PROVE  ReplayInv'
  BY <1>4, <1>11 DEF Seed, Die
<1>12. CASE UNCHANGED vars
  BY <1>6, <1>12 DEF vars
<1>13. ASSUME NEW s \in Stores, NEW lead \in Leads[s], Plan(s, lead)
       PROVE  ReplayInv'
  BY <1>1, <1>13, PlanKeeps
<1>14. QED
  BY <1>1, <1>5, <1>7, <1>8, <1>9, <1>10, <1>11, <1>12, <1>13, ReplayKeeps, PushKeeps, PushSprintKeeps,
     FinishKeeps, MergeKeeps
  DEF Next, Step

LEMMA AlwaysReplayInv ==
  ASSUME OneClock
  PROVE  Spec => [](Typed /\ HeldInv /\ ReplayInv)
<1>1. Typed /\ HeldInv /\ ReplayInv /\ [Next]_vars => (Typed /\ HeldInv /\ ReplayInv)'
  BY HeldNext, TypedNext, ReplayInvNext
<1>2. Init => Typed /\ HeldInv /\ ReplayInv
  BY TypedInit, HeldInit, ReplayInvInit
<1>3. QED
  BY <1>1, <1>2, PTL DEF Spec

\* The time cursor of the replay passes no record that has not reached the broker
\* or been counted as failed, and whose time no cursor had reached when it was made,
\* whatever overlaps, is cut off or comes in between, and whatever sprints are planned
\* for: where all clocks show one time and no two records are of one moment.
THEOREM NothingIsSkipped ==
  ASSUME OneClock
  PROVE  Spec => []NothingSkipped
<1>1. Typed /\ ReplayInv => NothingSkipped
  BY ReplayInvPasses
<1>2. QED
  BY <1>1, AlwaysReplayInv, PTL

-----------------------------------------------------------------------------
(* Stores that are through. *)

\* A record of a store that is through is in every other such store, where no two
\* records were given one id.
LEMMA ThroughHasAll ==
  ASSUME Typed, HeldInv, ReplayInv, NEW s \in Stores, NEW t \in Stores, Settled(s), Settled(t),
         \A q, r \in rows[s] \cup rows[t] : q.id = r.id => q = r, NEW r \in rows[s]
  PROVE  \E q \in rows[t] : Same(q, r)
<1>1. Handled(s, r) /\ r.text \notin failures[s] /\ r \notin behind[s]
  BY DEF Settled, ReplayInv, Passed
<1>2. PICK i \in 1..Len(log) : log[i] \in rows[s] /\ Same(log[i], r)
  BY <1>1 DEF Handled
<1>3. log[i].id \in IdsIn(rows[t])
  BY <1>2 DEF Settled, HeldInv, StoreHolds, Held
<1>4. PICK q \in rows[t] : q.id = log[i].id
  BY <1>3 DEF IdsIn
<1>5. q = log[i]
  BY <1>2, <1>4
<1>6. QED
  BY <1>2, <1>4, <1>5

\* Two stores that pushed and pulled everything, with no failure, no gap and no record
\* that was made at a time the cursor had reached, hold the same, where no two records were given one id.
THEOREM ThroughStoresAgree ==
  ASSUME OneClock
  PROVE  Spec => []Agree
<1>1. ASSUME Typed, HeldInv, ReplayInv
      PROVE  Agree
  <2> SUFFICES ASSUME NEW s \in Stores, NEW t \in Stores, Settled(s), Settled(t),
                      \A q, r \in rows[s] \cup rows[t] : q.id = r.id => q = r
               PROVE  IF Numbered THEN TextsIn(s) = TextsIn(t) ELSE rows[s] = rows[t]
    BY DEF Agree
  <2>1. \A r \in rows[s] : \E q \in rows[t] : Same(q, r)
    BY <1>1, ThroughHasAll
  <2>2. \A r \in rows[t] : \E q \in rows[s] : Same(q, r)
    BY <1>1, ThroughHasAll
  <2>3. CASE Numbered
    BY <2>1, <2>2, <2>3 DEF Same, TextsIn
  <2>4. CASE ~Numbered
    <3>1. \A r : r \in rows[s] <=> r \in rows[t]
      BY <2>1, <2>2, <2>4 DEF Same
    <3>2. rows[s] = rows[t]
      BY <3>1
    <3>3. QED
      BY <2>4, <3>2
  <2>5. QED
    BY <2>3, <2>4
<1>2. QED
  BY <1>1, AlwaysReplayInv, PTL

=============================================================================
