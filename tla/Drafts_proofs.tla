---------------------------- MODULE Drafts_proofs ----------------------------
(***************************************************************************)
(* Proofs about Drafts, for any number of conversations, drafts, calls,    *)
(* replies and messages.  Types and the match of records and outcomes hold *)
(* for every execution; that words are the operator's, and what rests on   *)
(* it, where the harness does not kill a stop hook.                        *)
(***************************************************************************)
EXTENDS Drafts, TLAPS

-----------------------------------------------------------------------------
(* Types, one variable at a time. *)

HookRecord == [at : {"idle", "store", "show", "take", "bind", "decline"},
               ids : SUBSET Drafts, names : SUBSET Drafts,
               window : SUBSET Drafts, reply : Classes \cup {None}]

\* A hook that works on a message knows what it said.
HookType == {h \in HookRecord : h.at \in {"take", "bind", "decline"} => h.reply \in Classes}

Points == {"unused", "evaluated", "ready", "claimed", "captured", "written", "failed", "done",
           "orphaned"}

CallRecord == [at : Points,
               draft : Drafts \cup {None}, by : Sessions \cup {NoHooks, None},
               from : Drafts \cup {None}, mode : Modes \cup {None},
               states : BOOLEAN, existing : Calls \cup {None},
               covers : SUBSET Drafts]

\* What a call under way knows.
Knows(k) ==
  /\ k.at \in {"evaluated", "ready", "claimed", "captured", "failed", "written"} =>
       k.draft \in Drafts /\ k.by \in Sessions \cup {NoHooks}
  /\ k.at \in {"evaluated", "claimed", "captured", "failed", "written"} => k.from = k.draft
  /\ k.at = "ready" => k.from \in {None, k.draft}
  /\ k.at = "orphaned" => k.draft \in Drafts

CallType == {k \in CallRecord : Knows(k)}

RecordType == [call : Calls, from : Drafts \cup {None}, by : Sessions \cup {NoHooks},
               text : Drafts \cup {None}]

StoreTyped ==
  /\ outcome \in [Drafts -> Outcomes]
  /\ kind \in [Drafts -> Kinds]
  /\ named \in [Drafts -> Calls \cup {None, Unknown}]
  /\ records \subseteq RecordType
  /\ age \in [Drafts -> 0..ExpiryStarts]

RuntimeTyped ==
  /\ shown \in [Sessions -> SUBSET Drafts]
  /\ excerpt \in [Sessions -> [Drafts -> Words \cup {None}]]
  /\ window \in [Sessions -> SUBSET Drafts]

TalkTyped ==
  /\ talk \in [replies : 0..MaxReplies, messages : 0..MaxMessages]
  /\ display \in [Sessions -> SUBSET Drafts]
  /\ said \in [Sessions -> [Drafts -> Classes \cup {None}]]
  /\ unheard \in [Sessions -> SUBSET Drafts]

HookTyped == hook \in [Sessions -> HookType]
CallTyped == call \in [Calls -> CallType]

Typed == StoreTyped /\ RuntimeTyped /\ TalkTyped /\ HookTyped /\ CallTyped

LEMMA TypedIsTypeOK == Typed => TypeOK
BY DEF Typed, TypeOK, StoreTyped, RuntimeTyped, TalkTyped, HookTyped, CallTyped, HookType, HookRecord,
       CallType, CallRecord, RecordType, Points

LEMMA IdleType == Idle \in HookType /\ Idle.at = "idle"
BY DEF Idle, HookType, HookRecord

LEMMA IdleHook ==
  /\ \A ids \in SUBSET Drafts :
       LET h == [Idle EXCEPT !.at = "show", !.ids = ids]
       IN h \in HookType /\ h.at = "show" /\ h.ids = ids
  /\ \A ids \in SUBSET Drafts, class \in Classes :
       LET h == [Idle EXCEPT !.at = "take", !.ids = ids, !.reply = class]
       IN h \in HookType /\ h.at = "take" /\ h.reply = class
BY DEF Idle, HookType, HookRecord

LEMMA DoneCall == Done \in CallType /\ Done.at = "done" /\ Done.at \notin {"ready", "claimed", "written"}
BY DraftsAssumption DEF Unused, Done, CallType, CallRecord, Knows, Points

LEMMA IdleCalls ==
  /\ Unused \in CallType /\ Unused.at = "unused" /\ Unused.existing = None
  /\ \A d \in Drafts : LET k == [Unused EXCEPT !.at = "orphaned", !.draft = d]
                      IN k \in CallType /\ k.at = "orphaned" /\ k.draft = d
BY DraftsAssumption DEF Unused, Done, CallType, CallRecord, Knows, Points

LEMMA TypedInit == Init => Typed
<1> SUFFICES ASSUME Init PROVE Typed
  OBVIOUS
<1>1. StoreTyped /\ RuntimeTyped
  BY DraftsAssumption DEF Init, StoreTyped, RuntimeTyped, Outcomes, Kinds
<1>2. TalkTyped
  BY DraftsAssumption DEF Init, TalkTyped
<1>3. HookTyped /\ CallTyped
  BY IdleType, IdleCalls DEF Init, HookTyped, CallTyped
<1>4. QED
  BY <1>1, <1>2, <1>3 DEF Typed

LEMMA DraftSets ==
  /\ Created \subseteq Drafts /\ Pending \subseteq Drafts /\ Expired \subseteq Drafts /\ Live \subseteq Drafts
  /\ Live \subseteq Pending /\ Pending \subseteq Created
BY DEF Created, Pending, Expired, Live

\* What StopStore writes for the fresh drafts it picks.
Replaced(fresh, revises) == {revises[l] : l \in fresh} \ {None}

ShownBy(s, fresh, revises) ==
  (hook[s].ids \cap Live) \cup fresh \cup (hook[s].names \cap (Live \ Replaced(fresh, revises)))

Stored(s, fresh, of, revises) ==
  /\ outcome' = [d \in Drafts |-> CASE d \in fresh -> "pending"
                                    [] d \in Replaced(fresh, revises) -> "replaced"
                                    [] OTHER -> outcome[d]]
  /\ kind' = [d \in Drafts |-> IF d \in fresh THEN of[d] ELSE kind[d]]
  /\ hook' = [hook EXCEPT ![s] = [Idle EXCEPT !.at = "show", !.ids = ShownBy(s, fresh, revises)]]
  /\ display' = [display EXCEPT ![s] = @ \cup fresh]

\* Steps of a hook that write the hook and perhaps the runtime.
LEMMA HookStepTyped ==
  ASSUME Typed, NEW s \in Sessions, HookStep(s)
  PROVE  Typed'
<1>1. hook[s] \in HookType /\ StoreTyped /\ RuntimeTyped /\ TalkTyped /\ HookTyped /\ CallTyped
  BY DEF Typed, HookTyped
<1>2. ASSUME NEW repeats \in SUBSET Drafts, NEW names \in SUBSET Drafts, StopBegin(s, repeats, names)
      PROVE  Typed'
  <2>1. talk' \in [replies : 0..MaxReplies, messages : 0..MaxMessages]
    BY <1>1, <1>2, DraftsAssumption DEF StopBegin, TalkTyped
  <2>2. [at |-> "store", ids |-> repeats, names |-> names, window |-> window[s], reply |-> None] \in HookType
    BY <1>1 DEF RuntimeTyped, HookType, HookRecord
  <2>3. HookTyped'
    BY <1>1, <1>2, <2>2 DEF StopBegin, HookTyped
  <2>4. QED
    BY <1>1, <1>2, <2>1, <2>3 DEF StopBegin, Typed, StoreTyped, RuntimeTyped, TalkTyped, CallTyped, store
<1>3. CASE StopStore(s)
  <2>1. PICK fresh \in SUBSET (Drafts \ Created) : \E of \in [fresh -> Drafted] :
          \E revises \in Revisions(s, fresh, of) : Stored(s, fresh, of, revises)
    BY <1>3 DEF StopStore, Stored, Replaced, ShownBy
  <2>2. PICK of \in [fresh -> Drafted] : \E revises \in Revisions(s, fresh, of) : Stored(s, fresh, of, revises)
    BY <2>1
  <2>3. PICK revises \in Revisions(s, fresh, of) : Stored(s, fresh, of, revises)
    BY <2>2
  <2>4. ShownBy(s, fresh, revises) \in SUBSET Drafts
    BY DraftSets DEF ShownBy
  <2>5. outcome' \in [Drafts -> Outcomes]
    BY <1>1, <2>3 DEF StoreTyped, Outcomes, Stored
  <2>6. kind' \in [Drafts -> Kinds]
    BY <1>1, <2>3, KindsAssumption DEF StoreTyped, Stored
  <2>7. HookTyped'
    BY <1>1, <2>3, <2>4, IdleHook DEF HookTyped, Stored
  <2>8. display' \in [Sessions -> SUBSET Drafts]
    BY <1>1, <2>3 DEF TalkTyped, Stored
  <2>9. QED
    BY <1>1, <1>3, <2>5, <2>6, <2>7, <2>8
    DEF StopStore, Typed, StoreTyped, RuntimeTyped, TalkTyped, CallTyped, runtime
<1>4. CASE StopShow(s)
  <2>1. HookTyped' /\ shown' \in [Sessions -> SUBSET Drafts]
    BY <1>1, <1>4, IdleType DEF StopShow, HookTyped, RuntimeTyped, HookType, HookRecord
  <2>2. QED
    BY <1>1, <1>4, <2>1 DEF StopShow, Typed, StoreTyped, RuntimeTyped, TalkTyped, CallTyped, store, history
<1>5. ASSUME NEW class \in Classes, Message(s, class)
      PROVE  Typed'
  <2>1. talk' \in [replies : 0..MaxReplies, messages : 0..MaxMessages]
    <3>1. /\ talk \in [replies : 0..MaxReplies, messages : 0..MaxMessages]
          /\ talk.messages < MaxMessages /\ talk' = [talk EXCEPT !.messages = @ + 1]
      BY <1>1, <1>5 DEF Message, TalkTyped
    <3>2. talk.messages + 1 \in 0..MaxMessages
      BY <3>1, DraftsAssumption
    <3>3. QED
      BY <3>1, <3>2
  <2>2. said' \in [Sessions -> [Drafts -> Classes \cup {None}]] /\ unheard' \in [Sessions -> SUBSET Drafts]
    BY <1>1, <1>5 DEF Message, TalkTyped
  <2>3. HookTyped'
    <3>1. Pending \in SUBSET Drafts
      BY DraftSets
    <3>2. QED
      BY <1>1, <1>5, <3>1, IdleHook DEF Message, HookTyped
  <2>4. QED
    BY <1>1, <1>5, <2>1, <2>2, <2>3
    DEF Message, Typed, StoreTyped, RuntimeTyped, TalkTyped, CallTyped, store, runtime
<1>6. CASE Take(s)
  <2> DEFINE bound == (hook[s].ids \ Expired) \cap shown[s]
  <2>1. bound \in SUBSET Drafts
    BY <1>1 DEF RuntimeTyped
  <2>2. /\ shown' = [shown EXCEPT ![s] = {}] /\ display' = [display EXCEPT ![s] = {}]
        /\ hook' = IF bound = {} THEN [hook EXCEPT ![s] = Idle]
                   ELSE [hook EXCEPT ![s].at = "bind", ![s].ids = bound]
    BY <1>6 DEF Take
  <2> HIDE DEF bound
  <2>3. \A h \in HookType : h.reply \in Classes => [h EXCEPT !.at = "bind", !.ids = bound] \in HookType
    BY <2>1 DEF HookType, HookRecord
  <2>4. CASE hook' = [hook EXCEPT ![s].at = "bind", ![s].ids = bound]
    <3>1. hook' = [hook EXCEPT ![s] = [hook[s] EXCEPT !.at = "bind", !.ids = bound]]
      BY <1>1, <2>4 DEF HookTyped
    <3>2. hook[s].reply \in Classes
      BY <1>1, <1>6 DEF Take, HookType
    <3>3. [hook[s] EXCEPT !.at = "bind", !.ids = bound] \in HookType
      BY <1>1, <2>3, <3>2
    <3>4. HookTyped'
      BY <1>1, <3>1, <3>3 DEF HookTyped
    <3>5. QED
      BY <1>1, <1>6, <2>2, <3>4 DEF Take, Typed, StoreTyped, RuntimeTyped, TalkTyped, CallTyped, store
  <2>5. CASE hook' = [hook EXCEPT ![s] = Idle]
    <3>1. HookTyped'
      BY <1>1, <2>5, IdleType DEF HookTyped
    <3>2. QED
      BY <1>1, <1>6, <2>2, <3>1 DEF Take, Typed, StoreTyped, RuntimeTyped, TalkTyped, CallTyped, store
  <2>6. QED
    BY <2>2, <2>4, <2>5
<1>7. CASE Bind(s)
  <2>1. PICK single \in BOOLEAN : single = (Cardinality(hook[s].ids) = 1)
    OBVIOUS
  <2>2. /\ excerpt' = [excerpt EXCEPT ![s] =
                         [d \in Drafts |-> IF d \in hook[s].ids
                                           THEN [reply |-> hook[s].reply, single |-> single]
                                           ELSE excerpt[s][d]]]
        /\ window' = [window EXCEPT ![s] = hook[s].ids]
        /\ unheard' = [unheard EXCEPT ![s] = unheard[s] \ hook[s].ids]
        /\ hook' = [hook EXCEPT ![s] = [hook[s] EXCEPT !.at = "decline"]] \/ hook' = [hook EXCEPT ![s] = Idle]
    BY <1>1, <1>7, <2>1 DEF Bind, HookTyped, RuntimeTyped, TalkTyped
  <2>3. hook[s].ids \in SUBSET Drafts /\ hook[s].reply \in Classes
        /\ [hook[s] EXCEPT !.at = "decline"] \in HookType
    BY <1>1, <1>7 DEF Bind, HookType, HookRecord
  <2>4. HookTyped'
    <3>1. CASE hook' = [hook EXCEPT ![s] = [hook[s] EXCEPT !.at = "decline"]]
      BY <1>1, <2>3, <3>1 DEF HookTyped
    <3>2. CASE hook' = [hook EXCEPT ![s] = Idle]
      BY <1>1, <3>2, IdleType DEF HookTyped
    <3>3. QED
      BY <2>2, <3>1, <3>2
  <2>5. [reply |-> hook[s].reply, single |-> single] \in Words
    BY <2>3 DEF Words
  <2>6. RuntimeTyped'
    BY <1>1, <1>7, <2>2, <2>3, <2>5 DEF Bind, RuntimeTyped
  <2>7. TalkTyped'
    BY <1>1, <1>7, <2>2 DEF Bind, TalkTyped
  <2>8. QED
    BY <1>1, <1>7, <2>4, <2>6, <2>7 DEF Bind, Typed, StoreTyped, CallTyped, store
<1>8. CASE Decline(s)
  <2>1. HookTyped'
    BY <1>1, <1>8, IdleType DEF Decline, HookTyped
  <2>2. outcome' \in [Drafts -> Outcomes]
    BY <1>1, <1>8 DEF Decline, StoreTyped, Outcomes
  <2>3. QED
    BY <1>1, <1>8, <2>1, <2>2 DEF Decline, Typed, StoreTyped, RuntimeTyped, TalkTyped, CallTyped, runtime, history
<1>9. CASE Kill(s)
  <2>1. HookTyped'
    BY <1>1, <1>9, IdleType DEF Kill, HookTyped
  <2>2. QED
    BY <1>1, <1>9, <2>1
    DEF Kill, Typed, StoreTyped, RuntimeTyped, TalkTyped, CallTyped, store, runtime, history
<1>10. CASE SessionStart(s)
  <2>1. age' \in [Drafts -> 0..ExpiryStarts]
    BY <1>1, <1>10, DraftsAssumption DEF SessionStart, StoreTyped, Expired, Created
  <2>2. RuntimeTyped'
    BY <1>1, <1>10 DEF SessionStart, RuntimeTyped
  <2>3. QED
    BY <1>1, <1>10, <2>1, <2>2
    DEF SessionStart, Typed, StoreTyped, TalkTyped, HookTyped, CallTyped, store, history
<1>11. CASE SessionEnd(s)
  <2>1. RuntimeTyped'
    BY <1>1, <1>11 DEF SessionEnd, RuntimeTyped
  <2>2. QED
    BY <1>1, <1>11, <2>1
    DEF SessionEnd, Typed, StoreTyped, TalkTyped, HookTyped, CallTyped, store, history
<1>12. QED
  BY <1>2, <1>3, <1>4, <1>5, <1>6, <1>7, <1>8, <1>9, <1>10, <1>11 DEF HookStep

LEMMA TimeTyped ==
  ASSUME Typed, NEW days \in BOOLEAN, TimePasses(days)
  PROVE  Typed'
<1>1. RuntimeTyped' /\ age' \in [Drafts -> 0..ExpiryStarts]
  BY DraftsAssumption DEF TimePasses, Typed, StoreTyped, RuntimeTyped
<1>2. QED
  BY <1>1 DEF TimePasses, Typed, StoreTyped, TalkTyped, HookTyped, CallTyped, store, history

-----------------------------------------------------------------------------
(* The calls. *)

\* A call with one more step behind it.
LEMMA CallForms ==
  ASSUME NEW k \in CallType
  PROVE  /\ \A p \in {"claimed", "captured", "failed", "written"} :
              LET l == [k EXCEPT !.at = p]
              IN k.at \in {"evaluated", "claimed", "captured"} =>
                   /\ l \in CallType /\ l.at = p /\ l.draft = k.draft
                   /\ l.from = k.from /\ l.by = k.by
         /\ \A e \in Calls \cup {None} :
              LET l == [k EXCEPT !.at = "ready", !.existing = e]
              IN k.at = "evaluated" =>
                   /\ l \in CallType /\ l.at = "ready" /\ l.draft = k.draft
                   /\ l.from = k.from /\ l.by = k.by /\ l.existing = e
<1>1. k \in CallRecord /\ Knows(k) /\ k.at \in Points
  BY DEF CallType, CallRecord
<1>2. ASSUME NEW p \in {"claimed", "captured", "failed", "written"},
             k.at \in {"evaluated", "claimed", "captured"}
      PROVE  LET l == [k EXCEPT !.at = p]
             IN /\ l \in CallType /\ l.at = p /\ l.draft = k.draft
                /\ l.from = k.from /\ l.by = k.by
  <2> DEFINE l == [k EXCEPT !.at = p]
  <2>1. l \in CallRecord /\ l.at = p /\ l.draft = k.draft /\ l.from = k.from /\ l.by = k.by
    BY <1>1 DEF CallRecord, Points
  <2>2. Knows(l)
    BY <1>1, <1>2 DEF Knows, CallRecord
  <2>3. QED
    BY <2>1, <2>2 DEF CallType
<1>3. ASSUME NEW e \in Calls \cup {None}, k.at = "evaluated"
      PROVE  LET l == [k EXCEPT !.at = "ready", !.existing = e]
             IN /\ l \in CallType /\ l.at = "ready" /\ l.draft = k.draft
                /\ l.from = k.from /\ l.by = k.by /\ l.existing = e
  <2> DEFINE l == [k EXCEPT !.at = "ready", !.existing = e]
  <2>1. /\ l \in CallRecord /\ l.at = "ready" /\ l.draft = k.draft
        /\ l.from = k.from /\ l.by = k.by /\ l.existing = e
    BY <1>1 DEF CallRecord, Points
  <2>2. Knows(l)
    BY <1>1, <1>3 DEF Knows, CallRecord
  <2>3. QED
    BY <2>1, <2>2 DEF CallType
<1>4. QED
  BY <1>2, <1>3

LEMMA ExistingIsACall ==
  ASSUME StoreTyped, NEW s, NEW d, NEW states
  PROVE  /\ ExistingDecision(s, d, states) \in Calls \cup {None}
         /\ ExistingDecision(s, d, states) # None =>
              \E r \in records : r.call = ExistingDecision(s, d, states)
<1>1. CASE states /\ \E r \in records : r.text = d /\ r.by = s
  <2>1. (CHOOSE r \in records : r.text = d /\ r.by = s) \in records
    BY <1>1
  <2>2. \A r \in records : r.call \in Calls
    BY DEF StoreTyped, RecordType
  <2>3. ExistingDecision(s, d, states) = (CHOOSE r \in records : r.text = d /\ r.by = s).call
    BY <1>1 DEF ExistingDecision
  <2>4. QED
    BY <2>1, <2>2, <2>3
<1>2. CASE ~(states /\ \E r \in records : r.text = d /\ r.by = s)
  BY <1>2, DraftsAssumption DEF ExistingDecision
<1>3. QED
  BY <1>1, <1>2

LEMMA RecordTyped ==
  ASSUME CallTyped, NEW c \in Calls, call[c].at \in {"ready", "claimed"}
  PROVE  /\ Record(c) \in RecordType
         /\ Record(c).call = c /\ Record(c).from = call[c].from
BY DEF CallTyped, CallType, CallRecord, Knows, Record, RecordType

LEMMA CallStepTyped ==
  ASSUME Typed, NEW c \in Calls, CallStep(c)
  PROVE  Typed'
<1>1. call[c] \in CallType /\ StoreTyped /\ RuntimeTyped /\ TalkTyped /\ HookTyped /\ CallTyped
  BY DEF Typed, CallTyped
<1>2. ASSUME NEW s \in Sessions \cup {NoHooks}, NEW d \in Drafts, NEW states \in BOOLEAN,
             Evaluate(c, s, d, states)
      PROVE  Typed'
  <2>1. Mode(s, d, states) \in Modes
    BY DEF Mode, Modes
  <2>2. [at |-> "evaluated", draft |-> d, by |-> s, from |-> d, mode |-> Mode(s, d, states),
         states |-> states, existing |-> None, covers |-> {}] \in CallType
    BY <2>1 DEF CallType, CallRecord, Knows, Points
  <2>3. CallTyped'
    BY <1>1, <1>2, <2>2 DEF Evaluate, CallTyped
  <2>4. QED
    BY <1>1, <1>2, <2>3
    DEF Evaluate, Typed, StoreTyped, RuntimeTyped, TalkTyped, HookTyped, store, runtime, history
<1>3. ASSUME NEW s \in Sessions \cup {NoHooks}, NEW d \in Drafts, NEW covers \in SUBSET Drafts,
             Direct(c, s, d, covers)
      PROVE  Typed'
  <2>1. ExistingDecision(s, d, TRUE) \in Calls \cup {None}
    BY <1>1, ExistingIsACall
  <2>2. [at |-> "ready", draft |-> d, by |-> s, from |-> None, mode |-> None, states |-> TRUE,
         existing |-> ExistingDecision(s, d, TRUE), covers |-> covers] \in CallType
    BY <2>1 DEF CallType, CallRecord, Knows, Points
  <2>3. CallTyped'
    BY <1>1, <1>3, <2>2 DEF Direct, CallTyped
  <2>4. QED
    BY <1>1, <1>3, <2>3
    DEF Direct, Typed, StoreTyped, RuntimeTyped, TalkTyped, HookTyped, store, runtime, history
<1>4. CASE Look(c)
  <2> DEFINE found == ExistingDecision(call[c].by, call[c].draft, call[c].states)
  <2>1. found \in Calls \cup {None}
    BY <1>1, ExistingIsACall
  <2>2. call' = [call EXCEPT ![c] = [call[c] EXCEPT !.at = "ready", !.existing = found]]
    BY <1>1, <1>4 DEF Look, CallTyped
  <2> HIDE DEF found
  <2>3. CallTyped'
    <3>1. call[c].at = "evaluated"
      BY <1>4 DEF Look
    <3>2. [call[c] EXCEPT !.at = "ready", !.existing = found] \in CallType
      BY <1>1, <2>1, <3>1, CallForms
    <3>3. QED
      BY <1>1, <2>2, <3>2 DEF CallTyped
  <2>4. QED
    BY <1>1, <1>4, <2>3
    DEF Look, Typed, StoreTyped, RuntimeTyped, TalkTyped, HookTyped, store, runtime, history
<1>5. CASE Commit(c)
  <2>1. CallTyped'
    BY <1>1, <1>5, DoneCall DEF Commit, CallTyped
  <2>2. StoreTyped'
    <3>1. Record(c) \in RecordType
      BY <1>1, <1>5, RecordTyped DEF Commit
    <3>2. /\ call[c].from # None => call[c].from \in Drafts
          /\ call[c].existing \in Calls \cup {None}
      BY <1>1 DEF CallType, CallRecord
    <3>3. kind' = kind /\ age' = age
      BY <1>5 DEF Commit
    <3>4. CASE call[c].existing = None /\ call[c].from # None
      BY <1>1, <1>5, <3>1, <3>2, <3>3, <3>4 DEF Commit, StoreTyped, Outcomes
    <3>5. ASSUME NEW r \in Calls, NEW ds, AnsweredBy(r, ds)
          PROVE  outcome' \in [Drafts -> Outcomes] /\ named' \in [Drafts -> Calls \cup {None, Unknown}]
      BY <1>1, <3>5 DEF AnsweredBy, StoreTyped, Outcomes
    <3>6. CASE call[c].existing = None /\ call[c].from = None
      <4>1. AnsweredBy(c, call[c].covers) /\ records' = records \cup {Record(c)}
        BY <1>5, <3>6 DEF Commit
      <4>2. QED
        BY <1>1, <3>1, <3>3, <3>5, <4>1 DEF StoreTyped
    <3>7. CASE call[c].existing # None
      <4>1. PICK ds : AnsweredBy(call[c].existing, ds) /\ records' = records
        BY <1>5, <3>7 DEF Commit
      <4>2. PICK r \in Calls : r = call[c].existing
        BY <3>2, <3>7
      <4>3. AnsweredBy(r, ds)
        BY <4>1, <4>2
      <4>4. QED
        BY <1>1, <3>3, <3>5, <4>1, <4>3 DEF StoreTyped
    <3>8. QED
      BY <3>4, <3>6, <3>7
  <2>3. QED
    BY <1>1, <1>5, <2>1, <2>2
    DEF Commit, Typed, RuntimeTyped, TalkTyped, HookTyped, runtime, history
<1>6. CASE Claim(c)
  <2>1. call' = [call EXCEPT ![c] = [call[c] EXCEPT !.at = "claimed"]] \/ call' = [call EXCEPT ![c] = Done]
    BY <1>1, <1>6 DEF Claim, CallTyped
  <2>2. CallTyped'
    <3>1. CASE call' = [call EXCEPT ![c] = [call[c] EXCEPT !.at = "claimed"]]
      BY <1>1, <1>6, <3>1, CallForms DEF Claim, CallTyped
    <3>2. CASE call' = [call EXCEPT ![c] = Done]
      BY <1>1, <3>2, DoneCall DEF CallTyped
    <3>3. QED
      BY <2>1, <3>1, <3>2
  <2>3. outcome' \in [Drafts -> Outcomes]
    BY <1>1, <1>6 DEF Claim, StoreTyped, Outcomes
  <2>4. QED
    BY <1>1, <1>6, <2>2, <2>3
    DEF Claim, Typed, StoreTyped, RuntimeTyped, TalkTyped, HookTyped, runtime, history
<1>7. CASE Write(c)
  <2>1. Record(c) \in RecordType
    BY <1>1, <1>7, RecordTyped DEF Write
  <2>2. PICK p \in {"written", "failed"} : call' = [call EXCEPT ![c] = [call[c] EXCEPT !.at = p]]
    BY <1>1, <1>7 DEF Write, CallTyped
  <2>3. CallTyped'
    BY <1>1, <1>7, <2>2, CallForms DEF Write, CallTyped
  <2>4. records' \subseteq RecordType
    BY <1>1, <1>7, <2>1 DEF Write, StoreTyped
  <2>5. QED
    BY <1>1, <1>7, <2>3, <2>4
    DEF Write, Typed, StoreTyped, RuntimeTyped, TalkTyped, HookTyped, runtime, history
<1>8. CASE WriteConstraint(c)
  <2>1. Record(c) \in RecordType
    BY <1>1, <1>8, RecordTyped DEF WriteConstraint
  <2>2. PICK p \in {"captured", "failed"} : call' = [call EXCEPT ![c] = [call[c] EXCEPT !.at = p]]
    BY <1>1, <1>8 DEF WriteConstraint, CallTyped
  <2>3. CallTyped'
    BY <1>1, <1>8, <2>2, CallForms DEF WriteConstraint, CallTyped
  <2>4. records' \subseteq RecordType
    BY <1>1, <1>8, <2>1 DEF WriteConstraint, StoreTyped
  <2>5. QED
    BY <1>1, <1>8, <2>3, <2>4
    DEF WriteConstraint, Typed, StoreTyped, RuntimeTyped, TalkTyped, HookTyped, runtime, history
<1>9. CASE Release(c)
  <2>1. CallTyped' /\ outcome' \in [Drafts -> Outcomes]
    BY <1>1, <1>9, DoneCall DEF Release, CallTyped, StoreTyped, Outcomes
  <2>2. QED
    BY <1>1, <1>9, <2>1
    DEF Release, Typed, StoreTyped, RuntimeTyped, TalkTyped, HookTyped, runtime, history
<1>10. CASE NameRecord(c)
  <2>1. CallTyped' /\ named' \in [Drafts -> Calls \cup {None, Unknown}]
    BY <1>1, <1>10, DoneCall DEF NameRecord, CallTyped, StoreTyped
  <2>2. QED
    BY <1>1, <1>10, <2>1
    DEF NameRecord, Typed, StoreTyped, RuntimeTyped, TalkTyped, HookTyped, runtime, history
<1>11. CASE NameConstraint(c)
  <2>1. CallTyped'
    <3>1. CASE call' = [call EXCEPT ![c] = Done]
      BY <1>1, <3>1, DoneCall DEF CallTyped
    <3>2. CASE call' = [call EXCEPT ![c].at = "failed"]
      <4>1. call' = [call EXCEPT ![c] = [call[c] EXCEPT !.at = "failed"]] /\ call[c].at = "captured"
        BY <1>1, <1>11, <3>2 DEF NameConstraint, CallTyped
      <4>2. QED
        BY <1>1, <4>1, CallForms DEF CallTyped
    <3>3. QED
      BY <1>11, <3>1, <3>2 DEF NameConstraint
  <2>2. named' \in [Drafts -> Calls \cup {None, Unknown}]
    BY <1>1, <1>11 DEF NameConstraint, StoreTyped, RecordType
  <2>3. QED
    BY <1>1, <1>11, <2>1, <2>2
    DEF NameConstraint, Typed, StoreTyped, RuntimeTyped, TalkTyped, HookTyped, runtime, history
<1>12. CASE Die(c)
  <2>1. PICK d : d = call[c].draft
    OBVIOUS
  <2>2. \/ call' = [call EXCEPT ![c] = Done]
        \/ /\ call' = [call EXCEPT ![c] = [Unused EXCEPT !.at = "orphaned", !.draft = d]]
           /\ call[c].at \in {"claimed", "captured", "failed"}
    BY <1>1, <1>12, <2>1 DEF Die, CallTyped
  <2>3. CallTyped'
    <3>1. CASE call' = [call EXCEPT ![c] = Done]
      BY <1>1, <3>1, DoneCall DEF CallTyped
    <3>2. CASE /\ call' = [call EXCEPT ![c] = [Unused EXCEPT !.at = "orphaned", !.draft = d]]
               /\ call[c].at \in {"claimed", "captured", "failed"}
      <4>1. d \in Drafts
        BY <1>1, <2>1, <3>2 DEF CallType, Knows
      <4>2. QED
        BY <1>1, <3>2, <4>1, IdleCalls DEF CallTyped
    <3>3. QED
      BY <2>2, <3>1, <3>2
  <2>4. QED
    BY <1>1, <1>12, <2>3
    DEF Die, Typed, StoreTyped, RuntimeTyped, TalkTyped, HookTyped, store, runtime, history
<1>13. QED
  BY <1>2, <1>3, <1>4, <1>5, <1>6, <1>7, <1>8, <1>9, <1>10, <1>11, <1>12 DEF CallStep

LEMMA TypedNext == Typed /\ [Next]_vars => Typed'
<1> SUFFICES ASSUME Typed, [Next]_vars PROVE Typed'
  OBVIOUS
<1>1. CASE Next
  BY <1>1, HookStepTyped, TimeTyped, CallStepTyped DEF Next
<1>2. CASE UNCHANGED vars
  BY <1>2 DEF vars, store, runtime, history, Typed, StoreTyped, RuntimeTyped, TalkTyped, HookTyped, CallTyped
<1>3. QED
  BY <1>1, <1>2

LEMMA AlwaysTyped == Spec => []Typed
BY TypedInit, TypedNext, PTL DEF Spec

\* Every variable keeps its type, whatever hooks and calls of how many servers
\* interleave, die or fail.
THEOREM TypeCorrect == Spec => []TypeOK
BY AlwaysTyped, TypedIsTypeOK, PTL

-----------------------------------------------------------------------------
(* Records and outcomes. *)

Holding == {"claimed", "captured", "failed", "orphaned"}

Made(d) == {r \in records : r.from = d}
Held(d) == {c \in Calls : call[c].draft = d /\ call[c].at \in Holding}

\* What holds of the kinds that are written in one piece.
Whole(d) ==
  /\ \A r1, r2 \in Made(d) : r1 = r2
  /\ Made(d) = {} \/ Held(d) = {}
  /\ Made(d) # {} => outcome[d] = "approved"
  /\ named[d] # Unknown
  /\ Made(d) # {} /\ kind[d] = "decision" => named[d] # None

\* What the stores say of a draft, with what a release needs: a draft nobody
\* has answered names no record, and neither does one that is only claimed;
\* and a draft that is not there yet has no record.
Matched(d) ==
  /\ \A c1, c2 \in Held(d) : c1 = c2
  /\ Held(d) # {} => outcome[d] = "approved"
  /\ outcome[d] = "approved" => Made(d) # {} \/ Held(d) # {} \/ named[d] = Unknown
  /\ named[d] \notin {None, Unknown} => \E r \in records : r.call = named[d]
  /\ outcome[d] \in {"none", "pending"} \/ Held(d) # {} => named[d] = None
  /\ outcome[d] = "none" => Made(d) = {}
  /\ kind[d] # "constraint" => Whole(d)

\* What a call under way relies on.
Relies(c) ==
  /\ call[c].at \in {"claimed", "failed"} => kind[call[c].draft] \in Standing
  /\ call[c].at = "captured" => kind[call[c].draft] = "constraint"
  /\ call[c].at = "ready" /\ call[c].existing # None => \E r \in records : r.call = call[c].existing
  /\ call[c].at = "written" =>
       kind[call[c].draft] = "rule" /\ \E r \in records : r.call = c /\ r.from = call[c].draft

RecordInv == (\A d \in Drafts : Matched(d)) /\ (\A c \in Calls : Relies(c))

LEMMA RecordInvMatches == RecordInv => RecordMatchesOutcome
BY DEF RecordInv, RecordMatchesOutcome, Matched, Whole, Made, Held, Holding

LEMMA RecordInvInit == Init => RecordInv
BY DraftsAssumption DEF Init, RecordInv, Matched, Whole, Relies, Made, Held, Holding, Unused

\* A draft is open until someone answers it.
Open == {"none", "pending"}

\* Steps that only answer open drafts, without a record, or make new ones.
LEMMA RecordFrame ==
  ASSUME Typed, RecordInv, records' = records, named' = named, call' = call,
         \A d \in Drafts : \/ outcome'[d] = outcome[d]
                           \/ outcome[d] \in Open /\ outcome'[d] \in Outcomes \ {"none", "approved"},
         \A d \in Drafts : outcome[d] # "none" => kind'[d] = kind[d]
  PROVE  RecordInv'
<1>1. \A d \in Drafts : Made(d)' = Made(d) /\ Held(d)' = Held(d)
  BY DEF Made, Held
<1>2. ASSUME NEW d \in Drafts
      PROVE  Matched(d)'
  <2>1. Matched(d) /\ Made(d)' = Made(d) /\ Held(d)' = Held(d) /\ outcome[d] \in Outcomes
    BY <1>1 DEF RecordInv, Typed, StoreTyped
  <2>2. CASE outcome'[d] = outcome[d] /\ kind'[d] = kind[d]
    BY <2>1, <2>2 DEF Matched, Whole
  <2>3. CASE outcome[d] \in Open
    <3>1. named[d] = None /\ Held(d) = {} /\ (outcome[d] = "none" => Made(d) = {})
          /\ (kind[d] # "constraint" => Made(d) = {})
      BY <2>1, <2>3 DEF Matched, Whole, Open
    <3>2. Made(d) = {} \/ kind'[d] = "constraint"
      BY <3>1
    <3>3. QED
      BY <2>1, <2>3, <3>1, <3>2, DraftsAssumption DEF Matched, Whole, Open
  <2>4. QED
    BY <2>2, <2>3 DEF Open
<1>3. ASSUME NEW c \in Calls
      PROVE  Relies(c)'
  <2>1. Relies(c) /\ call[c] \in CallType
    BY DEF RecordInv, Typed, CallTyped
  <2>2. CASE call[c].at \in {"claimed", "captured", "failed", "written"}
    <3>1. PICK d \in Drafts : d = call[c].draft
      BY <2>1, <2>2 DEF CallType, Knows
    <3>2. Held(d) # {} \/ (Made(d) # {} /\ kind[d] = "rule")
      BY <2>1, <2>2, <3>1 DEF Relies, Made, Held, Holding
    <3>3. outcome[d] = "approved"
      BY <3>2 DEF RecordInv, Matched, Whole
    <3>4. QED
      BY <2>1, <2>2, <3>1, <3>3 DEF Relies
  <2>3. CASE call[c].at \notin {"claimed", "captured", "failed", "written"}
    BY <2>1, <2>3 DEF Relies
  <2>4. QED
    BY <2>2, <2>3
<1>4. QED
  BY <1>2, <1>3 DEF RecordInv

LEMMA HookStepRecord ==
  ASSUME Typed, RecordInv, NEW s \in Sessions, HookStep(s)
  PROVE  RecordInv'
<1>1. CASE StopStore(s)
  <2>1. PICK fresh \in SUBSET (Drafts \ Created) : \E of \in [fresh -> Drafted] :
          \E revises \in Revisions(s, fresh, of) : Stored(s, fresh, of, revises)
    BY <1>1 DEF StopStore, Stored, Replaced, ShownBy
  <2>2. PICK of \in [fresh -> Drafted] : \E revises \in Revisions(s, fresh, of) : Stored(s, fresh, of, revises)
    BY <2>1
  <2>3. PICK revises \in Revisions(s, fresh, of) : Stored(s, fresh, of, revises)
    BY <2>2
  <2>4. Replaced(fresh, revises) \subseteq Pending
    BY <2>3 DEF Revisions, Replaced, Live
  <2>5. \A d \in Drafts : \/ outcome'[d] = outcome[d]
                          \/ outcome[d] \in Open /\ outcome'[d] \in Outcomes \ {"none", "approved"}
    BY <2>1, <2>3, <2>4 DEF Stored, Created, Pending, Outcomes, Open
  <2>6. \A d \in Drafts : outcome[d] # "none" => kind'[d] = kind[d]
    BY <2>1, <2>3 DEF Stored, Created
  <2>7. QED
    BY <1>1, <2>5, <2>6, RecordFrame DEF StopStore
<1>2. CASE Decline(s)
  <2>1. \A d \in Drafts : \/ outcome'[d] = outcome[d]
                          \/ outcome[d] \in Open /\ outcome'[d] \in Outcomes \ {"none", "approved"}
    BY <1>2 DEF Decline, Outcomes, Open
  <2>2. QED
    BY <1>2, <2>1, RecordFrame DEF Decline
<1>3. ASSUME UNCHANGED <<store, call>>
      PROVE  RecordInv'
  BY <1>3, RecordFrame DEF store
<1>4. QED
  BY <1>1, <1>2, <1>3
  DEF HookStep, StopBegin, StopShow, Message, Take, Bind, Kill, SessionStart, SessionEnd

LEMMA TimeRecord ==
  ASSUME Typed, RecordInv, NEW days \in BOOLEAN, TimePasses(days)
  PROVE  RecordInv'
BY RecordFrame DEF TimePasses, store

-----------------------------------------------------------------------------
(* The steps of a call. *)

LEMMA HeldAfter ==
  ASSUME CallTyped, NEW c \in Calls, NEW k, call' = [call EXCEPT ![c] = k], NEW d \in Drafts
  PROVE  Held(d)' = (Held(d) \ {c}) \cup (IF k.draft = d /\ k.at \in Holding THEN {c} ELSE {})
BY DEF Held, CallTyped

LEMMA HeldWithout ==
  ASSUME CallTyped, NEW c \in Calls, NEW k, call' = [call EXCEPT ![c] = k], NEW d \in Drafts,
         k.at \notin Holding
  PROVE  Held(d)' = Held(d) \ {c}
<1>1. Held(d)' = (Held(d) \ {c}) \cup (IF k.draft = d /\ k.at \in Holding THEN {c} ELSE {})
  BY HeldAfter
<1>2. QED
  BY <1>1

LEMMA HeldSame ==
  ASSUME CallTyped, NEW c \in Calls, NEW k, call' = [call EXCEPT ![c] = k], NEW d \in Drafts,
         call[c].at \notin Holding, k.at \notin Holding
  PROVE  Held(d)' = Held(d)
<1>1. Held(d)' = (Held(d) \ {c}) \cup (IF k.draft = d /\ k.at \in Holding THEN {c} ELSE {})
  BY HeldAfter
<1>2. c \notin Held(d)
  BY DEF Held
<1>3. QED
  BY <1>1, <1>2

\* The other calls rely on records, which stay, and on kinds, which no call writes.
LEMMA OthersRely ==
  ASSUME Typed, RecordInv, NEW c \in Calls, NEW k, call' = [call EXCEPT ![c] = k],
         kind' = kind, records \subseteq records', Relies(c)'
  PROVE  \A e \in Calls : Relies(e)'
<1>1. ASSUME NEW e \in Calls, e # c
      PROVE  Relies(e)'
  <2>1. call'[e] = call[e] /\ Relies(e)
    BY <1>1 DEF Typed, CallTyped, RecordInv
  <2>2. QED
    BY <2>1 DEF Relies
<1>2. QED
  BY <1>1

\* A draft that the step of a call does not concern.
LEMMA Untouched ==
  ASSUME NEW d \in Drafts, Matched(d), outcome'[d] = outcome[d], named'[d] = named[d], kind' = kind,
         records \subseteq records', Made(d)' = Made(d), Held(d)' = Held(d)
  PROVE  Matched(d)'
BY DEF Matched, Whole

\* A step that neither takes nor gives up a claim, and writes nothing.
LEMMA QuietRecord ==
  ASSUME Typed, RecordInv, NEW c \in Calls, NEW k, call' = [call EXCEPT ![c] = k], UNCHANGED store,
         Relies(c)',
         (call[c].at \notin Holding /\ k.at \notin Holding)
           \/ (call[c].at \in Holding /\ k.at \in Holding /\ k.draft = call[c].draft)
  PROVE  RecordInv'
<1>1. \A d \in Drafts : Held(d)' = Held(d) /\ Made(d)' = Made(d)
  BY HeldAfter DEF Held, Made, store, Typed
<1>2. \A d \in Drafts : Matched(d)'
  BY <1>1, Untouched DEF store, RecordInv
<1>3. QED
  BY <1>2, OthersRely DEF store, RecordInv

LEMMA ApprovedBy ==
  ASSUME Typed, RecordInv, NEW c \in Calls, Commit(c), call[c].existing = None,
         call[c].from # None, call[c].from \in Pending
  PROVE  RecordInv'
<1>1. PICK d \in Drafts : d = call[c].from
  BY DEF Pending
<1>2. /\ call[c].at = "ready" /\ outcome[d] = "pending" /\ kind' = kind
      /\ outcome' = [outcome EXCEPT ![d] = "approved"]
      /\ named' = [named EXCEPT ![d] = c]
      /\ records' = records \cup {Record(c)}
      /\ call' = [call EXCEPT ![c] = Done]
  BY <1>1 DEF Commit, Pending
<1>3. Record(c).call = c /\ Record(c).from = d
  BY <1>1, <1>2, RecordTyped DEF Typed
<1>4. \A e \in Drafts : Held(e)' = Held(e)
  <2>1. CallTyped /\ call[c].at \notin Holding /\ Done.at \notin Holding
    BY <1>2, DoneCall DEF Typed, Holding
  <2>2. QED
    BY <1>2, <2>1, HeldSame
<1>5. \A e \in Drafts : e # d => Made(e)' = Made(e)
  BY <1>2, <1>3 DEF Made
<1>6. Held(d) = {} /\ Matched(d) /\ (kind[d] # "constraint" => Made(d) = {})
  BY <1>2 DEF RecordInv, Matched, Whole
<1>7. Made(d)' = Made(d) \cup {Record(c)}
  BY <1>2, <1>3 DEF Made
<1>8. Matched(d)'
  <2>1. outcome'[d] = "approved" /\ named'[d] = c /\ c # None
    BY <1>2, DraftsAssumption DEF Typed, StoreTyped
  <2>2. \E r \in records' : r.call = c
    BY <1>2, <1>3
  <2>3. /\ Held(d)' = {} /\ Made(d)' # {} /\ c # Unknown
        /\ kind'[d] # "constraint" => \A r1, r2 \in Made(d)' : r1 = r2
    BY <1>2, <1>4, <1>6, <1>7, DraftsAssumption
  <2>4. QED
    BY <2>1, <2>2, <2>3 DEF Matched, Whole
<1>9. \A e \in Drafts : e # d => Matched(e)'
  <2>1. \A e \in Drafts : e # d => outcome'[e] = outcome[e] /\ named'[e] = named[e] /\ Matched(e)
    BY <1>2 DEF Typed, StoreTyped, RecordInv
  <2>2. QED
    BY <1>2, <1>4, <1>5, <2>1, Untouched
<1>10. Relies(c)'
  BY <1>2, DoneCall DEF Typed, CallTyped, Relies
<1>11. QED
  BY <1>2, <1>8, <1>9, <1>10, OthersRely DEF RecordInv

\* The pending drafts among ds are answered by a record that is there.
LEMMA AnsweredRecord ==
  ASSUME Typed, RecordInv, NEW c \in Calls, call[c].at = "ready", NEW ds, NEW w \in Calls,
         AnsweredBy(w, ds), call' = [call EXCEPT ![c] = Done], kind' = kind,
         records \subseteq records', \A e \in Drafts : Made(e)' = Made(e),
         \E r \in records' : r.call = w
  PROVE  RecordInv'
<1>1. \A e \in Drafts : Held(e)' = Held(e)
  <2>1. CallTyped /\ call[c].at \notin Holding /\ Done.at \notin Holding
    BY DoneCall DEF Typed, Holding
  <2>2. QED
    BY <2>1, HeldSame
<1>2. ASSUME NEW e \in Drafts
      PROVE  Matched(e)'
  <2>1. Matched(e) /\ Held(e)' = Held(e) /\ Made(e)' = Made(e)
    BY <1>1 DEF RecordInv
  <2>2. CASE e \in ds \cap Pending
    <3>1. outcome[e] = "pending" /\ outcome'[e] = "answered" /\ named'[e] = w
      BY <2>2 DEF AnsweredBy, Pending
    <3>2. Held(e) = {} /\ (kind[e] # "constraint" => Made(e) = {})
      BY <2>1, <3>1 DEF Matched, Whole
    <3>3. w # Unknown /\ w # None
      BY DraftsAssumption
    <3>4. QED
      BY <2>1, <3>1, <3>2, <3>3 DEF Matched, Whole
  <2>3. CASE e \notin ds \cap Pending
    <3>1. outcome'[e] = outcome[e] /\ named'[e] = named[e]
      BY <2>3 DEF AnsweredBy
    <3>2. QED
      BY <2>1, <3>1, Untouched
  <2>4. QED
    BY <2>2, <2>3
<1>3. Relies(c)'
  BY DoneCall DEF Typed, CallTyped, Relies
<1>4. QED
  BY <1>2, <1>3, OthersRely DEF RecordInv

LEMMA CommitRecord ==
  ASSUME Typed, RecordInv, NEW c \in Calls, Commit(c)
  PROVE  RecordInv'
<1>1. /\ call[c].at = "ready" /\ call' = [call EXCEPT ![c] = Done] /\ kind' = kind
      /\ call[c] \in CallType
  BY DEF Commit, Typed, CallTyped
<1>2. CASE call[c].existing = None /\ call[c].from # None
  <2>1. CASE call[c].from \in Pending
    BY <1>2, <2>1, ApprovedBy
  <2>2. CASE call[c].from \notin Pending
    <3>1. UNCHANGED store
      BY <1>2, <2>2 DEF Commit, store
    <3>2. Relies(c)'
      BY <1>1, DoneCall DEF Typed, CallTyped, Relies
    <3>3. QED
      BY <1>1, <3>1, <3>2, QuietRecord, DoneCall DEF Holding
  <2>3. QED
    BY <2>1, <2>2
<1>3. CASE call[c].existing = None /\ call[c].from = None
  <2>1. AnsweredBy(c, call[c].covers) /\ records' = records \cup {Record(c)}
    BY <1>3 DEF Commit
  <2>2. Record(c).call = c /\ Record(c).from = None
    BY <1>1, <1>3, RecordTyped DEF Typed
  <2>3. \A e \in Drafts : Made(e)' = Made(e)
    BY <2>1, <2>2, DraftsAssumption DEF Made
  <2>4. PICK ds : ds = call[c].covers
    OBVIOUS
  <2>5. AnsweredBy(c, ds)
    BY <2>1, <2>4
  <2>6. QED
    BY <1>1, <2>1, <2>2, <2>3, <2>5, AnsweredRecord
<1>4. CASE call[c].existing # None
  <2>1. PICK ds : AnsweredBy(call[c].existing, ds) /\ records' = records
    BY <1>4 DEF Commit
  <2>2. PICK w \in Calls : w = call[c].existing
    BY <1>1, <1>4 DEF CallType, CallRecord
  <2>3. \E r \in records : r.call = w
    BY <1>1, <1>4, <2>2 DEF RecordInv, Relies
  <2>4. AnsweredBy(w, ds) /\ \A e \in Drafts : Made(e)' = Made(e)
    BY <2>1, <2>2 DEF Made
  <2>5. QED
    BY <1>1, <2>1, <2>3, <2>4, AnsweredRecord
<1>5. QED
  BY <1>2, <1>3, <1>4

\* The draft is claimed: it is approved, and its one holder is this call.
LEMMA ClaimRecord ==
  ASSUME Typed, RecordInv, NEW c \in Calls, Claim(c)
  PROVE  RecordInv'
<1>1. call[c] \in CallType /\ call[c].at = "evaluated" /\ kind' = kind /\ records' = records
      /\ named' = named /\ CallTyped
  BY DEF Claim, Typed, CallTyped
<1>2. PICK d \in Drafts : d = call[c].draft
  BY <1>1 DEF CallType, Knows
<1>3. CASE d \notin Pending
  <2>1. UNCHANGED store /\ call' = [call EXCEPT ![c] = Done]
    BY <1>1, <1>2, <1>3 DEF Claim, store
  <2>2. Relies(c)'
    BY <1>1, <2>1, DoneCall DEF CallTyped, Relies
  <2>3. QED
    BY <1>1, <2>1, <2>2, QuietRecord, DoneCall DEF Holding
<1>4. CASE d \in Pending
  <2> DEFINE k == [call[c] EXCEPT !.at = "claimed"]
  <2>1. /\ outcome' = [outcome EXCEPT ![d] = "approved"]
        /\ call' = [call EXCEPT ![c] = k]
        /\ kind[d] \in Standing /\ outcome[d] = "pending"
    BY <1>1, <1>2, <1>4 DEF Claim, CallTyped, Pending
  <2>2. k.at = "claimed" /\ k.draft = d
    BY <1>1, <1>2, CallForms
  <2> HIDE DEF k
  <2>3. \A e \in Drafts : Made(e)' = Made(e)
    BY <1>1 DEF Made
  <2>4. \A e \in Drafts : Held(e)' = (Held(e) \ {c}) \cup (IF e = d THEN {c} ELSE {})
    BY <1>1, <2>1, <2>2, HeldAfter DEF Holding
  <2>5. \A e \in Drafts : c \notin Held(e)
    BY <1>1 DEF Held, Holding
  <2>6. Matched(d) /\ Held(d) = {} /\ (kind[d] # "constraint" => Made(d) = {})
    BY <2>1 DEF RecordInv, Matched, Whole
  <2>7. Held(d)' = {c}
    BY <2>4, <2>6
  <2>8. outcome'[d] = "approved" /\ named'[d] = None
    BY <1>1, <2>1, <2>6 DEF Typed, StoreTyped, Matched
  <2>9. Matched(d)'
    BY <1>1, <2>1, <2>3, <2>6, <2>7, <2>8, DraftsAssumption DEF Matched, Whole, Standing
  <2>10. ASSUME NEW e \in Drafts, e # d
         PROVE  Matched(e)'
    <3>1. outcome'[e] = outcome[e] /\ named'[e] = named[e] /\ Matched(e)
      BY <1>1, <2>1, <2>10 DEF Typed, StoreTyped, RecordInv
    <3>2. Held(e)' = Held(e)
      BY <2>4, <2>5, <2>10
    <3>3. QED
      BY <1>1, <2>3, <3>1, <3>2, Untouched
  <2>11. Relies(c)'
    BY <1>1, <2>1, <2>2 DEF CallTyped, Relies
  <2>12. QED
    BY <1>1, <2>1, <2>9, <2>10, <2>11, OthersRely DEF RecordInv
<1>5. QED
  BY <1>3, <1>4

LEMMA WriteRecord ==
  ASSUME Typed, RecordInv, NEW c \in Calls, Write(c)
  PROVE  RecordInv'
<1>1. call[c] \in CallType /\ call[c].at = "claimed" /\ CallTyped
      /\ outcome' = outcome /\ kind' = kind /\ named' = named
  BY DEF Write, Typed, CallTyped
<1>2. PICK d \in Drafts : d = call[c].draft
  BY <1>1 DEF CallType, Knows
<1>3. Matched(d) /\ Relies(c) /\ c \in Held(d)
  BY <1>1, <1>2 DEF RecordInv, Held, Holding
<1>4. kind[d] = "rule" /\ Made(d) = {} /\ Held(d) = {c} /\ outcome[d] = "approved"
  <2>1. kind[d] = "rule" /\ Held(d) = {c} /\ Held(d) # {} /\ outcome[d] = "approved"
    BY <1>1, <1>2, <1>3 DEF Matched, Write
  <2>2. Whole(d)
    BY <1>3, <2>1 DEF Matched
  <2>3. QED
    BY <2>1, <2>2 DEF Whole
<1>5. CASE records' = records /\ call' = [call EXCEPT ![c].at = "failed"]
  <2> DEFINE k == [call[c] EXCEPT !.at = "failed"]
  <2>1. call' = [call EXCEPT ![c] = k] /\ k.at = "failed" /\ k.draft = d
    BY <1>1, <1>2, <1>5, CallForms DEF CallTyped
  <2> HIDE DEF k
  <2>2. Relies(c)'
    BY <1>1, <1>4, <2>1 DEF CallTyped, Relies, Standing
  <2>3. QED
    BY <1>1, <1>2, <1>5, <2>1, <2>2, QuietRecord DEF store, Holding
<1>6. CASE records' = records \cup {Record(c)} /\ call' = [call EXCEPT ![c].at = "written"]
  <2> DEFINE k == [call[c] EXCEPT !.at = "written"]
  <2>1. call' = [call EXCEPT ![c] = k] /\ k.at = "written" /\ k.draft = d
    BY <1>1, <1>2, <1>6, CallForms DEF CallTyped
  <2> HIDE DEF k
  <2>2. Record(c).call = c /\ Record(c).from = d
    <3>1. Record(c).call = c /\ Record(c).from = call[c].from
      BY <1>1, RecordTyped
    <3>2. call[c].from = d
      BY <1>1, <1>2 DEF CallType, Knows
    <3>3. QED
      BY <3>1, <3>2
  <2>3. \A e \in Drafts : Held(e)' = Held(e) \ {c}
    BY <1>1, <2>1, HeldWithout DEF Holding
  <2>4. Made(d)' = {Record(c)} /\ Held(d)' = {}
    BY <1>4, <1>6, <2>2, <2>3 DEF Made
  <2>5. Matched(d)'
    BY <1>1, <1>3, <1>4, <1>6, <2>4 DEF Matched, Whole
  <2>6. ASSUME NEW e \in Drafts, e # d
        PROVE  Matched(e)'
    <3>1. c \notin Held(e)
      BY <1>2, <2>6 DEF Held
    <3>2. Held(e)' = Held(e) /\ Made(e)' = Made(e)
      BY <1>6, <2>2, <2>3, <2>6, <3>1 DEF Made
    <3>3. QED
      BY <1>1, <1>6, <3>2, Untouched DEF RecordInv
  <2>7. Relies(c)'
    BY <1>1, <1>4, <1>6, <2>1, <2>2 DEF CallTyped, Relies
  <2>8. QED
    BY <1>1, <1>6, <2>1, <2>5, <2>6, <2>7, OthersRely DEF RecordInv
<1>7. QED
  BY <1>5, <1>6 DEF Write

LEMMA ReleaseRecord ==
  ASSUME Typed, RecordInv, NEW c \in Calls, Release(c)
  PROVE  RecordInv'
<1>1. call[c] \in CallType /\ call[c].at = "failed" /\ CallTyped
      /\ records' = records /\ kind' = kind /\ named' = named /\ call' = [call EXCEPT ![c] = Done]
  BY DEF Release, Typed, CallTyped
<1>2. PICK d \in Drafts : d = call[c].draft
  BY <1>1 DEF CallType, Knows
<1>3. Matched(d) /\ c \in Held(d)
  BY <1>1, <1>2 DEF RecordInv, Held, Holding
<1>4. /\ Held(d) = {c} /\ outcome[d] = "approved" /\ named[d] = None
      /\ kind[d] # "constraint" => Made(d) = {}
  BY <1>3 DEF Matched, Whole
<1>5. outcome' = [outcome EXCEPT ![d] = "pending"]
  BY <1>2, <1>4 DEF Release
<1>6. \A e \in Drafts : Held(e)' = Held(e) \ {c} /\ Made(e)' = Made(e)
  <2>1. Done.at \notin Holding
    BY DoneCall DEF Holding
  <2>2. \A e \in Drafts : Held(e)' = Held(e) \ {c}
    BY <1>1, <2>1, HeldWithout
  <2>3. QED
    BY <1>1, <2>2 DEF Made
<1>7. Matched(d)'
  <2>1. Held(d)' = {} /\ outcome'[d] = "pending" /\ named'[d] = None
    BY <1>1, <1>4, <1>5, <1>6 DEF Typed, StoreTyped
  <2>2. kind'[d] # "constraint" => Made(d)' = {}
    BY <1>1, <1>4, <1>6
  <2>3. QED
    BY <2>1, <2>2, DraftsAssumption DEF Matched, Whole
<1>8. ASSUME NEW e \in Drafts, e # d
      PROVE  Matched(e)'
  <2>1. outcome'[e] = outcome[e] /\ Matched(e)
    BY <1>5, <1>8 DEF Typed, StoreTyped, RecordInv
  <2>2. c \notin Held(e)
    BY <1>2, <1>8 DEF Held
  <2>3. QED
    BY <1>1, <1>6, <2>1, <2>2, Untouched
<1>9. Relies(c)'
  BY <1>1, DoneCall DEF CallTyped, Relies
<1>10. QED
  BY <1>1, <1>7, <1>8, <1>9, OthersRely DEF RecordInv

LEMMA NameRecordRecord ==
  ASSUME Typed, RecordInv, NEW c \in Calls, NameRecord(c)
  PROVE  RecordInv'
<1>1. call[c] \in CallType /\ call[c].at = "written" /\ CallTyped
      /\ records' = records /\ kind' = kind /\ outcome' = outcome /\ call' = [call EXCEPT ![c] = Done]
  BY DEF NameRecord, Typed, CallTyped
<1>2. PICK d \in Drafts : d = call[c].draft
  BY <1>1 DEF CallType, Knows
<1>3. named' = [named EXCEPT ![d] = c]
  BY <1>2 DEF NameRecord
<1>4. PICK r \in records : r.call = c /\ r.from = d
  BY <1>1, <1>2 DEF RecordInv, Relies
<1>5. \A e \in Drafts : Held(e)' = Held(e) /\ Made(e)' = Made(e)
  <2>1. call[c].at \notin Holding /\ Done.at \notin Holding
    BY <1>1, DoneCall DEF Holding
  <2>2. \A e \in Drafts : Held(e)' = Held(e)
    BY <1>1, <2>1, HeldSame
  <2>3. QED
    BY <1>1, <2>2 DEF Made
<1>6. Matched(d)'
  <2>1. Matched(d) /\ Made(d) # {} /\ kind[d] = "rule"
    BY <1>1, <1>2, <1>4 DEF RecordInv, Made, Relies
  <2>2. Held(d) = {} /\ outcome[d] = "approved" /\ Whole(d)
    BY <2>1 DEF Matched, Whole
  <2>3. named'[d] = c
    BY <1>3 DEF Typed, StoreTyped
  <2>4. c # None /\ c # Unknown
    BY DraftsAssumption
  <2>5. QED
    BY <1>1, <1>4, <1>5, <2>1, <2>2, <2>3, <2>4 DEF Matched, Whole
<1>7. ASSUME NEW e \in Drafts, e # d
      PROVE  Matched(e)'
  <2>1. named'[e] = named[e] /\ Matched(e)
    BY <1>3, <1>7 DEF Typed, StoreTyped, RecordInv
  <2>2. QED
    BY <1>1, <1>5, <2>1, Untouched
<1>8. Relies(c)'
  BY <1>1, DoneCall DEF CallTyped, Relies
<1>9. QED
  BY <1>1, <1>6, <1>7, <1>8, OthersRely DEF RecordInv

\* The capture of a constraint: the claim stands, whatever was written.
LEMMA WriteConstraintRecord ==
  ASSUME Typed, RecordInv, NEW c \in Calls, WriteConstraint(c)
  PROVE  RecordInv'
<1>1. /\ call[c] \in CallType /\ call[c].at = "claimed" /\ CallTyped
      /\ outcome' = outcome /\ kind' = kind /\ named' = named /\ age' = age
  BY DEF WriteConstraint, Typed, CallTyped
<1>2. PICK d \in Drafts : d = call[c].draft
  BY <1>1 DEF CallType, Knows
<1>3. kind[d] = "constraint" /\ c \in Held(d)
  BY <1>1, <1>2 DEF WriteConstraint, Held, Holding
<1>4. PICK p \in {"captured", "failed"} : call' = [call EXCEPT ![c].at = p]
  BY DEF WriteConstraint
<1> DEFINE k == [call[c] EXCEPT !.at = p]
<1>5. call' = [call EXCEPT ![c] = k] /\ k.at = p /\ k.draft = d
  <2>1. p \in {"claimed", "captured", "failed", "written"} /\ call[c].at \in {"evaluated", "claimed", "captured"}
    BY <1>1, <1>4
  <2>2. k.at = p /\ k.draft = call[c].draft
    BY <1>1, <2>1, CallForms
  <2>3. call' = [call EXCEPT ![c] = k]
    BY <1>1, <1>4 DEF CallTyped
  <2>4. QED
    BY <1>2, <2>2, <2>3
<1> HIDE DEF k
<1>6. records' \in {records, records \cup {Record(c)}}
  BY DEF WriteConstraint
<1>7. Record(c).from = d
  <2>1. Record(c).from = call[c].from
    BY <1>1, RecordTyped
  <2>2. QED
    BY <1>1, <1>2, <2>1 DEF CallType, Knows
<1>8. \A e \in Drafts : Held(e)' = Held(e)
  BY <1>1, <1>2, <1>4, <1>5, HeldAfter DEF Held, Holding
<1>9. Matched(d)'
  <2>1. Matched(d) /\ Held(d) # {} /\ Held(d)' = Held(d)
    BY <1>3, <1>8 DEF RecordInv
  <2>2. outcome'[d] = "approved" /\ named'[d] = None
    BY <1>1, <2>1 DEF Matched
  <2>3. QED
    BY <1>1, <1>3, <2>1, <2>2 DEF Matched
<1>10. ASSUME NEW e \in Drafts, e # d
       PROVE  Matched(e)'
  <2>1. Made(e)' = Made(e)
    BY <1>6, <1>7, <1>10 DEF Made
  <2>2. QED
    BY <1>1, <1>6, <1>8, <2>1, Untouched DEF RecordInv
<1>11. Relies(c)'
  BY <1>1, <1>3, <1>4, <1>5 DEF CallTyped, Relies, Standing
<1>12. QED
  BY <1>1, <1>5, <1>6, <1>9, <1>10, <1>11, OthersRely DEF RecordInv

\* A constraint is named by the row the look-up found, by none, or not at all.
LEMMA NameConstraintRecord ==
  ASSUME Typed, RecordInv, NEW c \in Calls, NameConstraint(c)
  PROVE  RecordInv'
<1>1. /\ call[c] \in CallType /\ call[c].at = "captured" /\ CallTyped
      /\ records' = records /\ kind' = kind /\ outcome' = outcome /\ age' = age
  BY DEF NameConstraint, Typed, CallTyped
<1>2. PICK d \in Drafts : d = call[c].draft
  BY <1>1 DEF CallType, Knows
<1>3. Matched(d) /\ c \in Held(d) /\ kind[d] = "constraint"
  BY <1>1, <1>2 DEF RecordInv, Held, Holding, Relies
<1>4. CASE named' = named /\ call' = [call EXCEPT ![c].at = "failed"]
  <2> DEFINE k == [call[c] EXCEPT !.at = "failed"]
  <2>1. call' = [call EXCEPT ![c] = k] /\ k.at = "failed" /\ k.draft = d
    BY <1>1, <1>2, <1>4, CallForms DEF CallTyped
  <2> HIDE DEF k
  <2>2. Relies(c)'
    BY <1>1, <1>3, <2>1 DEF CallTyped, Relies, Standing
  <2>3. QED
    BY <1>1, <1>2, <1>4, <2>1, <2>2, QuietRecord DEF store, Holding
<1>5. ASSUME NEW n \in Calls \cup {Unknown}, named' = [named EXCEPT ![d] = n],
             call' = [call EXCEPT ![c] = Done],
             n # Unknown => \E r \in records : r.from = d /\ r.call = n
      PROVE  RecordInv'
  <2>1. \A e \in Drafts : Made(e)' = Made(e) /\ Held(e)' = Held(e) \ {c}
    <3>1. Done.at \notin Holding
      BY DoneCall DEF Holding
    <3>2. \A e \in Drafts : Held(e)' = Held(e) \ {c}
      BY <1>1, <1>5, <3>1, HeldWithout
    <3>3. QED
      BY <1>1, <3>2 DEF Made
  <2>2. Held(d)' = {} /\ outcome'[d] = "approved" /\ named'[d] = n /\ Made(d)' = Made(d)
    BY <1>1, <1>3, <1>5, <2>1 DEF Matched, Typed, StoreTyped
  <2>3. n # Unknown => Made(d)' # {} /\ \E r \in records' : r.call = n
    BY <1>1, <1>5, <2>2 DEF Made
  <2>4. Matched(d)'
    BY <1>1, <1>3, <2>2, <2>3 DEF Matched
  <2>5. ASSUME NEW e \in Drafts, e # d
        PROVE  Matched(e)'
    <3>1. c \notin Held(e)
      BY <1>2, <2>5 DEF Held
    <3>2. named'[e] = named[e] /\ Held(e)' = Held(e)
      BY <1>5, <2>1, <2>5, <3>1 DEF Typed, StoreTyped
    <3>3. QED
      BY <1>1, <2>1, <3>2, Untouched DEF RecordInv
  <2>6. Relies(c)'
    BY <1>1, <1>5, DoneCall DEF CallTyped, Relies
  <2>7. QED
    BY <1>1, <1>5, <2>4, <2>5, <2>6, OthersRely DEF RecordInv
<1>6. CASE named' = [named EXCEPT ![d] = Unknown] /\ call' = [call EXCEPT ![c] = Done]
  BY <1>5, <1>6
<1>7. ASSUME NEW r \in records, r.from = d, named' = [named EXCEPT ![d] = r.call],
             call' = [call EXCEPT ![c] = Done]
      PROVE  RecordInv'
  <2>1. r.call \in Calls
    BY <1>7 DEF Typed, StoreTyped, RecordType
  <2>2. QED
    BY <1>5, <1>7, <2>1
<1>8. QED
  BY <1>2, <1>4, <1>6, <1>7 DEF NameConstraint

LEMMA DieRecord ==
  ASSUME Typed, RecordInv, NEW c \in Calls, Die(c)
  PROVE  RecordInv'
<1>1. call[c] \in CallType /\ CallTyped /\ UNCHANGED store
      /\ call[c].at \in {"evaluated", "ready", "claimed", "captured", "failed", "written"}
  BY DEF Die, Typed, CallTyped
<1>2. PICK d \in Drafts : d = call[c].draft
  BY <1>1 DEF CallType, Knows
<1>3. CASE call[c].at \in {"claimed", "captured", "failed"}
  <2> DEFINE k == [Unused EXCEPT !.at = "orphaned", !.draft = d]
  <2>1. call' = [call EXCEPT ![c] = k] /\ k.at = "orphaned" /\ k.draft = d
    BY <1>1, <1>2, <1>3, DoneCall DEF Die, CallTyped
  <2> HIDE DEF k
  <2>2. Relies(c)'
    BY <1>1, <2>1 DEF CallTyped, Relies
  <2>3. QED
    BY <1>1, <1>2, <1>3, <2>1, <2>2, QuietRecord DEF Holding
<1>4. CASE call[c].at \notin {"claimed", "captured", "failed"}
  <2>1. call' = [call EXCEPT ![c] = Done]
    BY <1>1, <1>4 DEF Die, CallTyped
  <2>2. Relies(c)'
    BY <1>1, <2>1, DoneCall DEF CallTyped, Relies
  <2>3. QED
    BY <1>1, <1>4, <2>1, <2>2, QuietRecord, DoneCall DEF Holding
<1>5. QED
  BY <1>3, <1>4

LEMMA CallStepRecord ==
  ASSUME Typed, RecordInv, NEW c \in Calls, CallStep(c)
  PROVE  RecordInv'
<1>1. call[c] \in CallType /\ CallTyped /\ StoreTyped
  BY DEF Typed, CallTyped
<1>2. ASSUME NEW s \in Sessions \cup {NoHooks}, NEW d \in Drafts, NEW states \in BOOLEAN,
             Evaluate(c, s, d, states)
      PROVE  RecordInv'
  <2> DEFINE k == [at |-> "evaluated", draft |-> d, by |-> s, from |-> d, mode |-> Mode(s, d, states),
                   states |-> states, existing |-> None, covers |-> {}]
  <2>1. call[c].at = "unused" /\ call' = [call EXCEPT ![c] = k] /\ UNCHANGED store /\ k.at = "evaluated"
    BY <1>2 DEF Evaluate
  <2> HIDE DEF k
  <2>2. Relies(c)'
    BY <1>1, <2>1 DEF CallTyped, Relies
  <2>3. QED
    BY <2>1, <2>2, QuietRecord DEF Holding
<1>3. ASSUME NEW s \in Sessions \cup {NoHooks}, NEW d \in Drafts, NEW covers \in SUBSET Drafts,
             Direct(c, s, d, covers)
      PROVE  RecordInv'
  <2> DEFINE found == ExistingDecision(s, d, TRUE)
             k == [at |-> "ready", draft |-> d, by |-> s, from |-> None, mode |-> None, states |-> TRUE,
                   existing |-> found, covers |-> covers]
  <2>1. /\ call[c].at = "unused" /\ call' = [call EXCEPT ![c] = k] /\ UNCHANGED store
        /\ k.at = "ready" /\ k.existing = found
    BY <1>3 DEF Direct
  <2>2. found # None => \E r \in records : r.call = found
    BY <1>1, ExistingIsACall
  <2> HIDE DEF k, found
  <2>3. Relies(c)'
    BY <1>1, <2>1, <2>2 DEF CallTyped, Relies, store
  <2>4. QED
    BY <2>1, <2>3, QuietRecord DEF Holding
<1>4. CASE Look(c)
  <2> DEFINE found == ExistingDecision(call[c].by, call[c].draft, call[c].states)
             k == [call[c] EXCEPT !.at = "ready", !.existing = found]
  <2>1. /\ call[c].at = "evaluated" /\ call' = [call EXCEPT ![c] = k] /\ UNCHANGED store
    BY <1>1, <1>4 DEF Look, CallTyped
  <2>2. found \in Calls \cup {None} /\ (found # None => \E r \in records : r.call = found)
    BY <1>1, ExistingIsACall
  <2>3. k.at = "ready" /\ k.existing = found
    BY <1>1 DEF CallType, CallRecord
  <2> HIDE DEF k, found
  <2>4. Relies(c)'
    BY <1>1, <2>1, <2>2, <2>3 DEF CallTyped, Relies, store
  <2>5. QED
    BY <2>1, <2>3, <2>4, QuietRecord DEF Holding
<1>5. QED
  BY <1>2, <1>3, <1>4, CommitRecord, ClaimRecord, WriteRecord, WriteConstraintRecord, ReleaseRecord,
     NameRecordRecord, NameConstraintRecord, DieRecord
  DEF CallStep

LEMMA RecordInvNext == Typed /\ RecordInv /\ [Next]_vars => RecordInv'
<1> SUFFICES ASSUME Typed, RecordInv, [Next]_vars PROVE RecordInv'
  OBVIOUS
<1>1. CASE Next
  BY <1>1, HookStepRecord, TimeRecord, CallStepRecord DEF Next
<1>2. CASE UNCHANGED vars
  BY <1>2, RecordFrame DEF vars, store
<1>3. QED
  BY <1>1, <1>2

LEMMA AlwaysRecorded == Spec => []RecordInv
BY RecordInvInit, RecordInvNext, AlwaysTyped, PTL DEF Spec

\* What an approved draft became, for calls of any number of servers that race
\* each other, revisions and declines, and that may die between any two steps: a
\* decision, a rule or a profile line is one record or none, and its outcome says
\* which; a constraint has a record, a holder, or says that it does not know.
THEOREM OneRecordOrNone == Spec => []RecordMatchesOutcome
BY AlwaysRecorded, RecordInvMatches, PTL

-----------------------------------------------------------------------------
(* Words. *)

\* What hooks and runtime of one conversation keep is what its operator said.
Spoken(s) ==
  /\ \A d \in Drafts : excerpt[s][d] # None \/ d \in window[s] => said[s][d] # None
  /\ \A d \in Drafts : excerpt[s][d] # None /\ d \notin unheard[s] => said[s][d] = excerpt[s][d].reply
  /\ hook[s].at \notin {"store", "show"} => shown[s] \subseteq display[s]
  /\ hook[s].at = "take" => \A d \in shown[s] : said[s][d] = hook[s].reply
  /\ hook[s].at = "bind" => \A d \in hook[s].ids : said[s][d] = hook[s].reply
  /\ hook[s].at = "store" => /\ hook[s].ids \cup hook[s].names \subseteq display[s]
                            /\ \A d \in hook[s].window : said[s][d] # None
  /\ hook[s].at = "show" => hook[s].ids \subseteq display[s]

SpokenInv == \A s \in Sessions : Spoken(s)

LEMMA SpokenSpeaks == SpokenInv => WordsAreTheOperators
BY DEF SpokenInv, Spoken, WordsAreTheOperators

LEMMA SpokenInit == Init => SpokenInv
<1> SUFFICES ASSUME Init, NEW s \in Sessions PROVE Spoken(s)
  BY DEF SpokenInv
<1>1. hook[s].at = "idle" /\ shown[s] = {} /\ window[s] = {} /\ \A d \in Drafts : excerpt[s][d] = None
  BY IdleType DEF Init
<1>2. QED
  BY <1>1 DEF Spoken

LEMMA SpokenFrame ==
  ASSUME NEW s \in Sessions, Spoken(s), shown'[s] = shown[s], excerpt'[s] = excerpt[s],
         window'[s] = window[s], hook'[s] = hook[s], display'[s] = display[s], said'[s] = said[s],
         unheard'[s] = unheard[s]
  PROVE  Spoken(s)'
BY DEF Spoken

\* The hooks of a conversation touch nothing that another keeps.
LEMMA OthersSilent ==
  ASSUME Typed, SpokenInv, NEW s \in Sessions, HookStep(s), NEW t \in Sessions, t # s
  PROVE  Spoken(t)'
<1>1. RuntimeTyped /\ TalkTyped /\ HookTyped /\ Spoken(t)
  BY DEF Typed, SpokenInv
<1>2. shown'[t] = shown[t] /\ excerpt'[t] = excerpt[t] /\ window'[t] = window[t]
  BY <1>1 DEF HookStep, StopBegin, StopStore, StopShow, Message, Take, Bind, Decline, Kill, SessionStart,
              SessionEnd, RuntimeTyped, runtime
<1>3. display'[t] = display[t] /\ said'[t] = said[t] /\ unheard'[t] = unheard[t]
  BY <1>1 DEF HookStep, StopBegin, StopStore, StopShow, Message, Take, Bind, Decline, Kill, SessionStart,
              SessionEnd, TalkTyped, history
<1>4. hook'[t] = hook[t]
  BY <1>1 DEF HookStep, StopBegin, StopStore, StopShow, Message, Take, Bind, Decline, Kill, SessionStart,
              SessionEnd, HookTyped
<1>5. QED
  BY <1>1, <1>2, <1>3, <1>4, SpokenFrame

LEMMA StopSpoken ==
  ASSUME Typed, SpokenInv, NEW s \in Sessions,
         \/ \E repeats, names \in SUBSET Drafts : StopBegin(s, repeats, names)
         \/ StopStore(s)
         \/ StopShow(s)
  PROVE  Spoken(s)'
<1>1. RuntimeTyped /\ TalkTyped /\ HookTyped /\ Spoken(s) /\ hook[s] \in HookType
  BY DEF Typed, SpokenInv, HookTyped
<1>2. ASSUME NEW repeats \in SUBSET Drafts, NEW names \in SUBSET Drafts, StopBegin(s, repeats, names)
      PROVE  Spoken(s)'
  <2>1. /\ hook'[s].at = "store" /\ hook'[s].ids = repeats /\ hook'[s].names = names
        /\ hook'[s].window = window[s]
    BY <1>1, <1>2 DEF StopBegin, HookTyped
  <2>2. /\ window'[s] = {} /\ display'[s] = repeats \cup names
        /\ shown' = shown /\ excerpt' = excerpt /\ said' = said /\ unheard' = unheard
    BY <1>1, <1>2 DEF StopBegin, RuntimeTyped, TalkTyped
  <2>3. QED
    BY <1>1, <2>1, <2>2 DEF Spoken, RuntimeTyped
<1>3. CASE StopStore(s)
  <2>1. PICK fresh \in SUBSET (Drafts \ Created) : \E of \in [fresh -> Drafted] :
          \E revises \in Revisions(s, fresh, of) : Stored(s, fresh, of, revises)
    BY <1>3 DEF StopStore, Stored, Replaced, ShownBy
  <2>2. PICK of \in [fresh -> Drafted] : \E revises \in Revisions(s, fresh, of) : Stored(s, fresh, of, revises)
    BY <2>1
  <2>3. PICK revises \in Revisions(s, fresh, of) : Stored(s, fresh, of, revises)
    BY <2>2
  <2>4. PICK ids \in SUBSET Drafts : ids = ShownBy(s, fresh, revises)
    BY DraftSets DEF ShownBy
  <2>5. hook'[s].at = "show" /\ hook'[s].ids = ids /\ display'[s] = display[s] \cup fresh
    <3>1. hook' = [hook EXCEPT ![s] = [Idle EXCEPT !.at = "show", !.ids = ids]]
      BY <2>3, <2>4 DEF Stored
    <3>2. hook'[s] = [Idle EXCEPT !.at = "show", !.ids = ids]
      BY <1>1, <3>1 DEF HookTyped
    <3>3. hook'[s].at = "show" /\ hook'[s].ids = ids
      BY <3>2 DEF Idle
    <3>4. QED
      BY <1>1, <2>3, <3>3 DEF Stored, TalkTyped
  <2>6. ids \subseteq hook[s].ids \cup hook[s].names \cup fresh
    BY <2>4 DEF ShownBy
  <2>7. /\ shown' = shown /\ excerpt' = excerpt /\ window' = window
        /\ said' = said /\ unheard' = unheard /\ hook[s].at = "store"
    BY <1>3 DEF StopStore, runtime
  <2>8. QED
    BY <1>1, <2>5, <2>6, <2>7 DEF Spoken
<1>4. CASE StopShow(s)
  <2>1. hook[s].at = "show" /\ excerpt' = excerpt /\ window' = window /\ UNCHANGED history
    BY <1>4 DEF StopShow
  <2>2. shown'[s] = hook[s].ids
    BY <1>1, <1>4 DEF StopShow, RuntimeTyped
  <2>3. hook'[s].at = "idle"
    BY <1>1, <1>4, IdleType DEF StopShow, HookTyped
  <2>4. QED
    BY <1>1, <2>1, <2>2, <2>3 DEF Spoken, history
<1>5. QED
  BY <1>2, <1>3, <1>4

LEMMA PromptSpoken ==
  ASSUME Typed, SpokenInv, NEW s \in Sessions,
         \/ \E class \in Classes : Message(s, class)
         \/ Take(s)
         \/ Bind(s)
         \/ Decline(s)
  PROVE  Spoken(s)'
<1>1. RuntimeTyped /\ TalkTyped /\ HookTyped /\ Spoken(s) /\ hook[s] \in HookType
  BY DEF Typed, SpokenInv, HookTyped
<1>2. ASSUME NEW class \in Classes, Message(s, class)
      PROVE  Spoken(s)'
  <2>1. /\ \A d \in Drafts : said'[s][d] = IF d \in display[s] THEN class ELSE said[s][d]
        /\ unheard'[s] = unheard[s] \cup display[s] /\ class # None
    BY <1>1, <1>2, WordsAssumption DEF Message, TalkTyped
  <2>2. hook[s].at = "idle" /\ UNCHANGED <<shown, excerpt, window, display>>
    BY <1>2 DEF Message, runtime
  <2>3. shown[s] \subseteq display[s] /\ shown[s] \subseteq Drafts
    BY <1>1, <2>2 DEF Spoken, RuntimeTyped
  <2>4. hook'[s].at = "idle" \/ (hook'[s].at = "take" /\ hook'[s].reply = class)
    <3>1. Pending \in SUBSET Drafts
      BY DraftSets
    <3>2. PICK p \in SUBSET Drafts : p = Pending
      BY <3>1
    <3>3. CASE hook' = hook
      BY <2>2, <3>3
    <3>4. CASE hook' = [hook EXCEPT ![s] = [Idle EXCEPT !.at = "take", !.ids = p, !.reply = class]]
      <4>1. hook'[s] = [Idle EXCEPT !.at = "take", !.ids = p, !.reply = class]
        BY <1>1, <3>4 DEF HookTyped
      <4>2. QED
        BY <4>1 DEF Idle
    <3>5. QED
      BY <1>2, <3>2, <3>3, <3>4 DEF Message
  <2>5. QED
    BY <1>1, <2>1, <2>2, <2>3, <2>4 DEF Spoken
<1>3. CASE Take(s)
  <2> DEFINE bound == (hook[s].ids \ Expired) \cap shown[s]
  <2>1. bound \subseteq shown[s] /\ hook[s].at = "take"
    BY <1>3 DEF Take
  <2>2. hook' = IF bound = {} THEN [hook EXCEPT ![s] = Idle]
                ELSE [hook EXCEPT ![s].at = "bind", ![s].ids = bound]
    BY <1>3 DEF Take
  <2> HIDE DEF bound
  <2>3. \/ hook'[s].at = "idle"
        \/ hook'[s].at = "bind" /\ hook'[s].ids = bound /\ hook'[s].reply = hook[s].reply
    <3>1. CASE hook' = [hook EXCEPT ![s] = Idle]
      BY <1>1, <3>1, IdleType DEF HookTyped
    <3>2. CASE hook' = [hook EXCEPT ![s].at = "bind", ![s].ids = bound]
      <4>1. hook'[s] = [hook[s] EXCEPT !.at = "bind", !.ids = bound]
        BY <1>1, <3>2 DEF HookTyped
      <4>2. QED
        BY <1>1, <4>1 DEF HookType, HookRecord
    <3>3. QED
      BY <2>2, <3>1, <3>2
  <2>4. shown'[s] = {} /\ UNCHANGED <<excerpt, window, said, unheard>>
    BY <1>1, <1>3 DEF Take, RuntimeTyped
  <2>5. QED
    BY <1>1, <2>1, <2>3, <2>4 DEF Spoken
<1>4. CASE Bind(s)
  <2>1. PICK single \in BOOLEAN : single = (Cardinality(hook[s].ids) = 1)
    OBVIOUS
  <2> DEFINE words == [reply |-> hook[s].reply, single |-> single]
  <2>2. words.reply = hook[s].reply /\ words \in Words /\ hook[s].reply \in Classes
    BY <1>1, <1>4 DEF Bind, HookType, Words
  <2>3. /\ excerpt' = [excerpt EXCEPT ![s] =
                         [d \in Drafts |-> IF d \in hook[s].ids THEN words ELSE excerpt[s][d]]]
        /\ window' = [window EXCEPT ![s] = hook[s].ids]
        /\ unheard' = [unheard EXCEPT ![s] = unheard[s] \ hook[s].ids]
        /\ hook' = [hook EXCEPT ![s] = [hook[s] EXCEPT !.at = "decline"]] \/ hook' = [hook EXCEPT ![s] = Idle]
        /\ UNCHANGED <<shown, display, said>> /\ hook[s].at = "bind"
    BY <1>1, <1>4, <2>1 DEF Bind, HookTyped, RuntimeTyped, TalkTyped
  <2> HIDE DEF words
  <2>4. /\ \A d \in Drafts : excerpt'[s][d] = IF d \in hook[s].ids THEN words ELSE excerpt[s][d]
        /\ window'[s] = hook[s].ids /\ unheard'[s] = unheard[s] \ hook[s].ids
    BY <1>1, <2>3 DEF RuntimeTyped, TalkTyped
  <2>5. hook'[s].at \in {"idle", "decline"}
    <3>1. CASE hook' = [hook EXCEPT ![s] = [hook[s] EXCEPT !.at = "decline"]]
      <4>1. hook'[s] = [hook[s] EXCEPT !.at = "decline"]
        BY <1>1, <3>1 DEF HookTyped
      <4>2. QED
        BY <1>1, <4>1 DEF HookType, HookRecord
    <3>2. CASE hook' = [hook EXCEPT ![s] = Idle]
      BY <1>1, <3>2, IdleType DEF HookTyped
    <3>3. QED
      BY <2>3, <3>1, <3>2
  <2>6. \A d \in hook[s].ids : said[s][d] = hook[s].reply /\ said[s][d] # None
    BY <1>1, <2>2, <2>3, WordsAssumption DEF Spoken
  <2>7. QED
    BY <1>1, <2>2, <2>3, <2>4, <2>5, <2>6 DEF Spoken
<1>5. CASE Decline(s)
  <2>1. hook'[s].at = "idle" /\ hook[s].at = "decline" /\ UNCHANGED <<runtime, history>>
    BY <1>1, <1>5, IdleType DEF Decline, HookTyped
  <2>2. QED
    BY <1>1, <2>1 DEF Spoken, runtime, history
<1>6. QED
  BY <1>2, <1>3, <1>4, <1>5

LEMMA RestSpoken ==
  ASSUME "stop" \notin Killable, Typed, SpokenInv, NEW s \in Sessions,
         Kill(s) \/ SessionStart(s) \/ SessionEnd(s)
  PROVE  Spoken(s)'
<1>1. RuntimeTyped /\ TalkTyped /\ HookTyped /\ Spoken(s)
  BY DEF Typed, SpokenInv
<1>2. CASE Kill(s)
  <2>1. /\ hook'[s].at = "idle" /\ hook[s].at \notin {"store", "show"}
        /\ UNCHANGED <<runtime, history>>
    BY <1>1, <1>2, IdleType DEF Kill, HookTyped
  <2>2. QED
    BY <1>1, <2>1 DEF Spoken, runtime, history
<1>3. CASE SessionStart(s) \/ SessionEnd(s)
  <2>1. /\ shown'[s] = {} /\ window'[s] = {} /\ \A d \in Drafts : excerpt'[s][d] = None
        /\ hook' = hook /\ hook[s].at = "idle" /\ UNCHANGED history
    BY <1>1, <1>3 DEF SessionStart, SessionEnd, RuntimeTyped
  <2>2. QED
    BY <1>1, <2>1 DEF Spoken, history
<1>4. QED
  BY <1>2, <1>3

LEMMA SpokenNext ==
  ASSUME "stop" \notin Killable
  PROVE  Typed /\ SpokenInv /\ [Next]_vars => SpokenInv'
<1> SUFFICES ASSUME Typed, SpokenInv, [Next]_vars PROVE SpokenInv'
  OBVIOUS
<1>1. ASSUME NEW s \in Sessions, HookStep(s)
      PROVE  SpokenInv'
  <2>1. Spoken(s)'
    BY <1>1, StopSpoken, PromptSpoken, RestSpoken DEF HookStep
  <2>2. QED
    BY <1>1, <2>1, OthersSilent DEF SpokenInv
<1>2. ASSUME NEW days \in BOOLEAN, TimePasses(days)
      PROVE  SpokenInv'
  <2>1. ASSUME NEW s \in Sessions
        PROVE  Spoken(s)'
    <3>1. /\ shown'[s] = {} /\ window'[s] = {} /\ \A d \in Drafts : excerpt'[s][d] = None
          /\ hook' = hook /\ hook[s].at = "idle" /\ UNCHANGED history /\ Spoken(s)
      BY <1>2 DEF TimePasses, SpokenInv
    <3>2. QED
      BY <3>1 DEF Spoken, history
  <2>2. QED
    BY <2>1 DEF SpokenInv
<1>3. ASSUME NEW c \in Calls, CallStep(c)
      PROVE  SpokenInv'
  <2>1. UNCHANGED <<runtime, history, hook>>
    BY <1>3 DEF CallStep, Evaluate, Direct, Look, Commit, Claim, Write, WriteConstraint, Release,
                NameRecord, NameConstraint, Die
  <2>2. QED
    BY <2>1, SpokenFrame DEF SpokenInv, runtime, history
<1>4. CASE UNCHANGED vars
  BY <1>4, SpokenFrame DEF vars, SpokenInv, runtime, history
<1>5. QED
  BY <1>1, <1>2, <1>3, <1>4 DEF Next

LEMMA AlwaysSpoken ==
  ASSUME "stop" \notin Killable
  PROVE  Spec => [](Typed /\ SpokenInv)
<1>1. Typed /\ SpokenInv /\ [Next]_vars => (Typed /\ SpokenInv)'
  BY SpokenNext, TypedNext
<1>2. QED
  BY <1>1, TypedInit, SpokenInit, PTL DEF Spec

\* Where the harness lets a stop hook finish, no words of the operator ever land
\* on a draft they were not shown, whatever prompt hooks die.
THEOREM WordsLandWhereShown ==
  ASSUME "stop" \notin Killable
  PROVE  Spec => []WordsAreTheOperators
BY AlwaysSpoken, SpokenSpeaks, PTL

\* Only its own evaluation makes a fresh call an evaluated one.
LEMMA OnlyEvaluates ==
  ASSUME Typed, [Next]_vars, NEW c \in Calls, call[c].at = "unused", call'[c].at = "evaluated"
  PROVE  \E s \in Sessions \cup {NoHooks}, d \in Drafts, states \in BOOLEAN : Evaluate(c, s, d, states)
<1>1. call[c] \in CallType /\ CallTyped
  BY DEF Typed, CallTyped
<1>2. call' # call
  OBVIOUS
<1>3. PICK b \in Calls : CallStep(b)
  <2>1. ASSUME NEW s \in Sessions, HookStep(s) PROVE call' = call
    <3>1. ASSUME NEW repeats, NEW names, StopBegin(s, repeats, names) PROVE call' = call
      BY <3>1 DEF StopBegin
    <3>2. ASSUME NEW class, Message(s, class) PROVE call' = call
      BY <3>2 DEF Message
    <3>3. ASSUME StopStore(s) \/ StopShow(s) PROVE call' = call
      BY <3>3 DEF StopStore, StopShow
    <3>4. ASSUME Take(s) \/ Bind(s) \/ Decline(s) \/ Kill(s) PROVE call' = call
      BY <3>4 DEF Take, Bind, Decline, Kill
    <3>5. ASSUME SessionStart(s) \/ SessionEnd(s) PROVE call' = call
      BY <3>5 DEF SessionStart, SessionEnd
    <3>6. QED
      BY <2>1, <3>1, <3>2, <3>3, <3>4, <3>5 DEF HookStep
  <2>2. ASSUME NEW days, TimePasses(days) PROVE call' = call
    BY <2>2 DEF TimePasses
  <2>3. UNCHANGED vars => call' = call
    BY DEF vars
  <2>4. QED
    BY <1>2, <2>1, <2>2, <2>3 DEF Next
<1>4. b = c
  <2>1. CASE b # c
    <3>1. call'[c] = call[c]
      BY <1>1, <1>3, <2>1
      DEF CallTyped, CallStep, Evaluate, Direct, Look, Commit, Claim, Write, WriteConstraint, Release,
          NameRecord, NameConstraint, Die
    <3>2. QED
      BY <3>1
  <2>2. QED
    BY <2>1
<1>5. CASE \E s \in Sessions \cup {NoHooks}, d \in Drafts, states \in BOOLEAN : Evaluate(c, s, d, states)
  BY <1>5
<1>6. ASSUME NEW s \in Sessions \cup {NoHooks}, NEW d \in Drafts, NEW covers \in SUBSET Drafts,
             Direct(c, s, d, covers)
      PROVE  FALSE
  <2>1. call'[c].at = "ready"
    BY <1>1, <1>6 DEF Direct, CallTyped
  <2>2. QED
    BY <2>1
<1>7. QED
  BY <1>3, <1>4, <1>5, <1>6 DEF CallStep, Look, Commit, Claim, Write, WriteConstraint, Release,
                                NameRecord, NameConstraint, Die

LEMMA EvaluatedAsHeard ==
  ASSUME Typed, SpokenInv, NEW c \in Calls, NEW s \in Sessions \cup {NoHooks}, NEW d \in Drafts,
         NEW states \in BOOLEAN, Evaluate(c, s, d, states)
  PROVE  /\ call'[c].draft = d /\ call'[c].by = s
         /\ kind[d] \in Standing => call'[c].mode # "agent-attested"
         /\ s \in Sessions /\ d \notin unheard[s] =>
              /\ said[s][d] \in Classes \ {"decline"}
              /\ call'[c].mode = "approved" \/ kind[d] \in Standing => said[s][d] = "approval"
<1>1. RuntimeTyped /\ CallTyped /\ Recordable(s, d)
  BY DEF Typed, Evaluate
<1> DEFINE words == Excerpt(s, d)
<1>2. call'[c].draft = d /\ call'[c].by = s /\ call'[c].mode = Mode(s, d, states)
  BY <1>1 DEF Evaluate, CallTyped
<1>3. /\ s # NoHooks => words # None
      /\ words # None => words.reply # "decline"
      /\ kind[d] \in Standing => words # None /\ words.reply = "approval"
  BY <1>1 DEF Recordable
<1>4. /\ Mode(s, d, states) = "agent-attested" => words = None
      /\ Mode(s, d, states) = "approved" => words # None /\ words.reply = "approval"
  BY DEF Mode
<1>5. s \in Sessions => words = excerpt[s][d] /\ s # NoHooks
  BY DraftsAssumption DEF Excerpt
<1> HIDE DEF words
<1>6. ASSUME s \in Sessions, d \notin unheard[s]
      PROVE  said[s][d] = words.reply /\ words.reply \in Classes /\ words # None
  <2>1. words # None /\ words \in Words \cup {None}
    BY <1>1, <1>3, <1>5, <1>6 DEF RuntimeTyped
  <2>2. words.reply \in Classes
    BY <2>1 DEF Words
  <2>3. said[s][d] = words.reply
    BY <1>5, <1>6, <2>1 DEF SpokenInv, Spoken
  <2>4. QED
    BY <2>1, <2>2, <2>3
<1>7. QED
  BY <1>2, <1>3, <1>4, <1>6

\* A record call is judged by what the operator of that very conversation last
\* said of the draft, whatever hooks died and whatever the store never learnt.
THEOREM JudgedAsHeard ==
  ASSUME "stop" \notin Killable
  PROVE  Spec => HeardBeforeRecorded
<1>1. Typed /\ SpokenInv /\ [Next]_vars =>
        \A c \in Calls :
          call[c].at = "unused" /\ call'[c].at = "evaluated" =>
            LET d == call'[c].draft
                s == call'[c].by
            IN /\ kind[d] \in Standing => call'[c].mode # "agent-attested"
               /\ s \in Sessions /\ d \notin unheard[s] =>
                    /\ said[s][d] \in Classes \ {"decline"}
                    /\ call'[c].mode = "approved" \/ kind[d] \in Standing => said[s][d] = "approval"
  <2> SUFFICES ASSUME Typed, SpokenInv, [Next]_vars, NEW c \in Calls,
                      call[c].at = "unused", call'[c].at = "evaluated"
               PROVE  LET d == call'[c].draft
                          s == call'[c].by
                      IN /\ kind[d] \in Standing => call'[c].mode # "agent-attested"
                         /\ s \in Sessions /\ d \notin unheard[s] =>
                              /\ said[s][d] \in Classes \ {"decline"}
                              /\ call'[c].mode = "approved" \/ kind[d] \in Standing => said[s][d] = "approval"
    OBVIOUS
  <2>1. PICK s \in Sessions \cup {NoHooks} : \E d \in Drafts, states \in BOOLEAN : Evaluate(c, s, d, states)
    BY OnlyEvaluates
  <2>2. PICK d \in Drafts : \E states \in BOOLEAN : Evaluate(c, s, d, states)
    BY <2>1
  <2>3. PICK states \in BOOLEAN : Evaluate(c, s, d, states)
    BY <2>2
  <2>4. QED
    BY <2>3, EvaluatedAsHeard
<1>2. QED
  BY <1>1, AlwaysSpoken, PTL DEF Spec, HeardBeforeRecorded

LEMMA ReplacedStep ==
  ASSUME Typed, SpokenInv, [Next]_vars, NEW d \in Drafts, outcome[d] # "replaced", outcome'[d] = "replaced"
  PROVE  /\ \E s \in Sessions : said[s][d] # None
         /\ \E e \in Drafts : /\ outcome[e] = "none" /\ outcome'[e] = "pending"
                              /\ kind'[e] = kind[d]
<1>1. StoreTyped
  BY DEF Typed
<1>2. ASSUME NEW c \in Calls, CallStep(c)
      PROVE  FALSE
  <2>1. \A p : outcome' = [outcome EXCEPT ![p] = "approved"] => outcome'[d] \in {outcome[d], "approved"}
    BY <1>1 DEF StoreTyped
  <2>2. \A p : outcome' = [outcome EXCEPT ![p] = "pending"] => outcome'[d] \in {outcome[d], "pending"}
    BY <1>1 DEF StoreTyped
  <2>3. \A r, ds : AnsweredBy(r, ds) => outcome'[d] \in {outcome[d], "answered"}
    BY <1>1 DEF StoreTyped, AnsweredBy
  <2>4. CASE Commit(c)
    BY <2>1, <2>3, <2>4 DEF Commit
  <2>5. CASE Claim(c) \/ Release(c)
    BY <2>1, <2>2, <2>5 DEF Claim, Release
  <2>6. CASE outcome' = outcome
    BY <2>6
  <2>7. QED
    BY <1>2, <2>4, <2>5, <2>6 DEF CallStep, Evaluate, Direct, Look, Write, WriteConstraint,
                                       NameRecord, NameConstraint, Die, store
<1>3. PICK s \in Sessions : HookStep(s)
  BY <1>2 DEF Next, TimePasses, vars, store
<1>4. StopStore(s)
  BY <1>1, <1>3 DEF HookStep, StopBegin, StopShow, Message, Take, Bind, Decline, Kill, SessionStart,
                    SessionEnd, store, StoreTyped
<1>5. PICK fresh \in SUBSET (Drafts \ Created) : \E of \in [fresh -> Drafted] :
        \E revises \in Revisions(s, fresh, of) : Stored(s, fresh, of, revises)
  BY <1>4 DEF StopStore, Stored, Replaced, ShownBy
<1>6. PICK of \in [fresh -> Drafted] : \E revises \in Revisions(s, fresh, of) : Stored(s, fresh, of, revises)
  BY <1>5
<1>7. PICK revises \in Revisions(s, fresh, of) : Stored(s, fresh, of, revises)
  BY <1>6
<1>8. /\ Replaced(fresh, revises) \subseteq Created
      /\ outcome'[d] = CASE d \in fresh -> "pending"
                         [] d \in Replaced(fresh, revises) -> "replaced"
                         [] OTHER -> outcome[d]
  <2>1. Replaced(fresh, revises) \subseteq Live
    BY <1>7 DEF Revisions, Replaced
  <2>2. QED
    BY <1>7, <2>1, DraftSets DEF Stored
<1>9. PICK e \in fresh : revises[e] = d
  <2>1. d \in Replaced(fresh, revises)
    BY <1>5, <1>8
  <2>2. QED
    BY <2>1 DEF Replaced
<1>10. d # None
  BY DraftsAssumption
<1>11. kind[d] = of[e] /\ d \in hook[s].window
  <2>1. /\ revises \in [fresh -> (Live \cap hook[s].window) \cup {None}]
        /\ \A l \in fresh : revises[l] # None => revises[l] \notin hook[s].ids /\ kind[revises[l]] = of[l]
    BY <1>7 DEF Revisions
  <2>2. QED
    BY <1>9, <1>10, <2>1
<1>12. outcome[e] = "none" /\ outcome'[e] = "pending" /\ kind'[e] = of[e]
  <2>1. e \in Drafts /\ e \in fresh /\ e \notin Replaced(fresh, revises) /\ outcome[e] = "none"
    BY <1>5, <1>8, <1>9 DEF Created
  <2>2. outcome'[e] = CASE e \in fresh -> "pending"
                       [] e \in Replaced(fresh, revises) -> "replaced"
                       [] OTHER -> outcome[e]
    BY <1>7, <2>1 DEF Stored
  <2>3. kind'[e] = of[e]
    BY <1>7, <2>1 DEF Stored
  <2>4. QED
    BY <2>1, <2>2, <2>3
<1>13. said[s][d] # None
  BY <1>4, <1>11 DEF SpokenInv, Spoken, StopStore
<1>14. QED
  BY <1>9, <1>11, <1>12, <1>13

\* No draft is replaced but by a revision, and only after its operator answered it.
THEOREM ReplacedByTheOperator ==
  ASSUME "stop" \notin Killable
  PROVE  Spec => ReplacedByARevision
<1>1. Typed /\ SpokenInv /\ [Next]_vars =>
        \A d \in Drafts : outcome[d] # "replaced" /\ outcome'[d] = "replaced" =>
          /\ \E s \in Sessions : said[s][d] # None
          /\ \E e \in Drafts : /\ outcome[e] = "none" /\ outcome'[e] = "pending"
                               /\ kind'[e] = kind[d]
  BY ReplacedStep
<1>2. QED
  BY <1>1, AlwaysSpoken, PTL DEF Spec, ReplacedByARevision

=============================================================================
