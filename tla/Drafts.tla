------------------------------- MODULE Drafts -------------------------------
(***************************************************************************)
(* Drafted records and the operator's approval of them.                    *)
(*                                                                         *)
(* A reply of the agent may end with lines that say what it would record.  *)
(* The Stop hook keeps them as pending drafts and notes which drafts the   *)
(* reply showed; the prompt hook binds the operator's next message to      *)
(* those; a record call turns a draft into a record, with a mode that says *)
(* how its approval is known.  The hooks, one process each, keep words,    *)
(* windows and shown sets in a file of their own beside the store; the     *)
(* record calls run in the servers.  Every step below is one statement or  *)
(* one transaction on one of the two databases.                            *)
(***************************************************************************)
EXTENDS Naturals, FiniteSets

CONSTANTS
  Sessions,      \* conversations whose harness runs the hooks
  NoHooks,       \* a server that is linked to no conversation
  Drafts,        \* rows of table proposals
  Calls,         \* calls of rbook_decisions(action="record")
  Drafted,       \* the kinds of the lines that replies end with
  Killable,      \* the hooks that the harness may kill: "stop", "prompt"
  ExpiryStarts,  \* session starts a draft survives (3 in the code)
  MaxReplies,    \* bounds on what is said
  MaxMessages,
  Unknown,       \* the record_id "c:unknown"
  None

ASSUME DraftsAssumption ==
  /\ NoHooks \notin Sessions
  /\ None \notin Calls \cup Drafts \cup Sessions \cup {NoHooks}
  /\ Unknown \notin Calls \cup {None}
  /\ Killable \subseteq {"stop", "prompt"}
  /\ ExpiryStarts \in Nat \ {0}
  /\ MaxReplies \in Nat /\ MaxMessages \in Nat

\* "rule" stands for a profile line too, and "other" for a question: they have
\* the same effect.  The standing kinds are claimed before they are written.
Kinds    == {"decision", "rule", "constraint"}
Standing == {"rule", "constraint"}
Classes  == {"approval", "decline", "other"}
Outcomes == {"none", "pending", "approved", "declined", "replaced", "answered"}
Modes    == {"approved", "agent-judged", "agent-attested"}

\* What the runtime keeps of a message that answered a draft: its class, and
\* whether it answered that draft alone.
Words == [reply : Classes, single : BOOLEAN]

ASSUME KindsAssumption == Drafted \subseteq Kinds
ASSUME WordsAssumption == None \notin Classes \cup Words

VARIABLES
  outcome,  \* store: outcome of each draft, "none" before it exists
  kind,     \* store: kind of each draft
  named,    \* store: record_id, as the call that wrote the record, Unknown or None
  records,  \* store: the records, one per call that wrote one
  age,      \* runtime: session starts counted since the draft was made
  shown,    \* runtime: what the latest reply of a session put to the operator
  excerpt,  \* runtime: the operator's words on a draft, in a session
  window,   \* runtime: the drafts of the open window of a session
  hook,     \* the running hook of each session
  call,     \* the record calls
  talk,     \* replies and messages so far (a bound, no state of the code)
  display,  \* history: drafts in the last reply, until a hook took its answer
  said,     \* history: what the operator last answered to a draft
  unheard   \* history: drafts whose last answer no hook could bind

store   == <<outcome, kind, named, records>>
runtime == <<shown, excerpt, window>>
history == <<display, said, unheard>>
vars    == <<store, age, runtime, hook, call, talk, history>>

-----------------------------------------------------------------------------
Idle == [at |-> "idle", ids |-> {}, names |-> {}, window |-> {}, reply |-> None]

Unused == [at |-> "unused", draft |-> None, by |-> None, from |-> None,
           mode |-> None, states |-> FALSE, existing |-> None, covers |-> {}]

\* A call that has answered; what it knew is forgotten.
Done == [Unused EXCEPT !.at = "done"]

Init ==
  /\ outcome = [d \in Drafts |-> "none"]
  /\ kind = [d \in Drafts |-> "decision"]
  /\ named = [d \in Drafts |-> None]
  /\ records = {}
  /\ age = [d \in Drafts |-> 0]
  /\ shown = [s \in Sessions |-> {}]
  /\ excerpt = [s \in Sessions |-> [d \in Drafts |-> None]]
  /\ window = [s \in Sessions |-> {}]
  /\ hook = [s \in Sessions |-> Idle]
  /\ call = [c \in Calls |-> Unused]
  /\ talk = [replies |-> 0, messages |-> 0]
  /\ display = [s \in Sessions |-> {}]
  /\ said = [s \in Sessions |-> [d \in Drafts |-> None]]
  /\ unheard = [s \in Sessions |-> {}]

Created == {d \in Drafts : outcome[d] # "none"}
Pending == {d \in Drafts : outcome[d] = "pending"}

\* Mutant: a start too many.
ExpiredLate == {d \in Created : age[d] > ExpiryStarts}

\* isExpired: seven days, or too many starts.  No row says so.
Expired == {d \in Created : age[d] >= ExpiryStarts}
Live    == Pending \ Expired

-----------------------------------------------------------------------------
(* The Stop hook. *)

\* A reply is out: it repeats the lines of some drafts and names others by id.
\* The hook reads and closes the window of the turn that ended.
StopBegin(s, repeats, names) ==
  /\ hook[s].at = "idle" /\ talk.replies < MaxReplies
  /\ talk' = [talk EXCEPT !.replies = @ + 1]
  /\ repeats \subseteq Created /\ names \subseteq Created \ repeats
  /\ hook' = [hook EXCEPT ![s] = [at |-> "store", ids |-> repeats, names |-> names,
                                  window |-> window[s], reply |-> None]]
  /\ window' = [window EXCEPT ![s] = {}]
  /\ display' = [display EXCEPT ![s] = repeats \cup names]
  /\ UNCHANGED <<store, age, shown, excerpt, call, said, unheard>>

\* Mutant: a line of another kind revises a draft.
RevisionsOfAnyKind(s, fresh, of) ==
  {r \in [fresh -> (Live \cap hook[s].window) \cup {None}] :
     \A l, m \in fresh : r[l] = r[m] => l = m \/ r[l] = None}

\* Which window draft each fresh line revises: one of its kind, each at most
\* once, and none the reply shows again.
Revisions(s, fresh, of) ==
  {r \in [fresh -> (Live \cap hook[s].window) \cup {None}] :
     /\ \A l \in fresh : r[l] # None => r[l] \notin hook[s].ids /\ kind[r[l]] = of[l]
     /\ \A l, m \in fresh : r[l] = r[m] => l = m \/ r[l] = None}

\* One transaction: the fresh lines become drafts, and what a line revises is
\* replaced.  What was shown: repeated, fresh, and named drafts still pending.
StopStore(s) ==
  /\ hook[s].at = "store"
  /\ \E fresh \in SUBSET (Drafts \ Created) : \E of \in [fresh -> Drafted] :
     \E revises \in Revisions(s, fresh, of) :
       LET replaced == {revises[l] : l \in fresh} \ {None}
           ids == (hook[s].ids \cap Live) \cup fresh
                    \cup (hook[s].names \cap (Live \ replaced))
       IN /\ outcome' = [d \in Drafts |->
                           CASE d \in fresh    -> "pending"
                             [] d \in replaced -> "replaced"
                             [] OTHER          -> outcome[d]]
          /\ kind' = [d \in Drafts |-> IF d \in fresh THEN of[d] ELSE kind[d]]
          /\ hook' = [hook EXCEPT ![s] = [Idle EXCEPT !.at = "show", !.ids = ids]]
          /\ display' = [display EXCEPT ![s] = @ \cup fresh]
  /\ UNCHANGED <<named, records, age, runtime, call, talk, said, unheard>>

StopShow(s) ==
  /\ hook[s].at = "show"
  /\ shown' = [shown EXCEPT ![s] = hook[s].ids]
  /\ hook' = [hook EXCEPT ![s] = Idle]
  /\ UNCHANGED <<store, age, excerpt, window, call, talk, history>>

-----------------------------------------------------------------------------
(* The prompt hook. *)

\* The operator's message answers the reply before it, whatever the hook then
\* makes of it.  The hook reads the pending drafts and stops if there are none.
Message(s, class) ==
  /\ hook[s].at = "idle" /\ talk.messages < MaxMessages
  /\ talk' = [talk EXCEPT !.messages = @ + 1]
  /\ said' = [said EXCEPT ![s] = [d \in Drafts |->
                                    IF d \in display[s] THEN class ELSE @[d]]]
  /\ unheard' = [unheard EXCEPT ![s] = @ \cup display[s]]
  /\ hook' = IF Pending = {} THEN hook
             ELSE [hook EXCEPT ![s] = [Idle EXCEPT !.at = "take", !.ids = Pending,
                                                   !.reply = class]]
  /\ UNCHANGED <<store, age, runtime, call, display>>

\* Mutant: the shown set is read and not cleared.
TakeNothing(s) ==
  /\ hook[s].at = "take"
  /\ LET bound == (hook[s].ids \ Expired) \cap shown[s]
     IN hook' = IF bound = {} THEN [hook EXCEPT ![s] = Idle]
                ELSE [hook EXCEPT ![s].at = "bind", ![s].ids = bound]
  /\ display' = [display EXCEPT ![s] = {}]
  /\ UNCHANGED <<store, age, runtime, call, talk, said, unheard>>

\* What the reply showed is taken now, whether or not it binds: one message
\* answers one reply.
Take(s) ==
  /\ hook[s].at = "take"
  /\ shown' = [shown EXCEPT ![s] = {}]
  /\ LET bound == (hook[s].ids \ Expired) \cap shown[s]
     IN hook' = IF bound = {} THEN [hook EXCEPT ![s] = Idle]
                ELSE [hook EXCEPT ![s].at = "bind", ![s].ids = bound]
  /\ display' = [display EXCEPT ![s] = {}]
  /\ UNCHANGED <<store, age, excerpt, window, call, talk, said, unheard>>

\* The words of the operator on each bound draft, and the window of the turn.
Bind(s) ==
  /\ hook[s].at = "bind"
  /\ LET ids == hook[s].ids
         words == [reply |-> hook[s].reply, single |-> Cardinality(ids) = 1]
     IN /\ excerpt' = [excerpt EXCEPT ![s] =
                         [d \in Drafts |-> IF d \in ids THEN words ELSE @[d]]]
        /\ window' = [window EXCEPT ![s] = ids]
        /\ unheard' = [unheard EXCEPT ![s] = @ \ ids]
  /\ hook' = IF hook[s].reply = "decline" THEN [hook EXCEPT ![s].at = "decline"]
             ELSE [hook EXCEPT ![s] = Idle]
  /\ UNCHANGED <<store, age, shown, call, talk, display, said>>

\* markDeclined, in the store, after the words are kept.
Decline(s) ==
  /\ hook[s].at = "decline"
  /\ outcome' = [d \in Drafts |->
                   IF d \in hook[s].ids /\ outcome[d] = "pending" THEN "declined"
                   ELSE outcome[d]]
  /\ hook' = [hook EXCEPT ![s] = Idle]
  /\ UNCHANGED <<kind, named, records, age, runtime, call, talk, history>>

\* A hook past its deadline, or one that finds a database locked, ends where it is.
Kill(s) ==
  /\ \/ "stop" \in Killable /\ hook[s].at \in {"store", "show"}
     \/ "prompt" \in Killable /\ hook[s].at \in {"take", "bind", "decline"}
  /\ hook' = [hook EXCEPT ![s] = Idle]
  /\ UNCHANGED <<store, age, runtime, call, talk, history>>

-----------------------------------------------------------------------------
(* Sessions and time. *)

\* recordSessionStart; with nothing pending a start writes nothing.
SessionStart(s) ==
  /\ hook[s].at = "idle" /\ Pending # {}
  /\ age' = [d \in Drafts |-> IF d \in Created \ Expired THEN age[d] + 1 ELSE age[d]]
  /\ shown' = [shown EXCEPT ![s] = {}]
  /\ excerpt' = [excerpt EXCEPT ![s] = [d \in Drafts |-> None]]
  /\ window' = [window EXCEPT ![s] = {}]
  /\ UNCHANGED <<store, hook, call, talk, history>>

SessionEnd(s) ==
  /\ hook[s].at = "idle"
  /\ shown' = [shown EXCEPT ![s] = {}]
  /\ excerpt' = [excerpt EXCEPT ![s] = [d \in Drafts |-> None]]
  /\ window' = [window EXCEPT ![s] = {}]
  /\ UNCHANGED <<store, age, hook, call, talk, history>>

\* More than two hours pass: no reader takes older words, windows or shown sets,
\* and pruneAllRuntimes deletes them.  After seven days the drafts expire as well.
TimePasses(days) ==
  /\ \A s \in Sessions : hook[s].at = "idle"
  /\ shown' = [s \in Sessions |-> {}]
  /\ excerpt' = [s \in Sessions |-> [d \in Drafts |-> None]]
  /\ window' = [s \in Sessions |-> {}]
  /\ age' = IF days THEN [d \in Drafts |-> IF d \in Created THEN ExpiryStarts ELSE 0]
            ELSE age
  /\ UNCHANGED <<store, hook, call, talk, history>>

-----------------------------------------------------------------------------
(* Record calls. *)

Excerpt(s, d) == IF s = NoHooks THEN None ELSE excerpt[s][d]

\* Mutant: the words need not be there, and need not be an approval.
RecordableByAnyone(s, d) ==
  /\ d \in Live
  /\ Excerpt(s, d) # None => Excerpt(s, d).reply # "decline"

\* evaluateDraft: a pending, unexpired draft that this conversation did not
\* decline; a linked server needs the operator's words, and a standing kind
\* needs a plain approval.
Recordable(s, d) ==
  LET words == Excerpt(s, d)
  IN /\ d \in Live
     /\ s # NoHooks => words # None
     /\ words # None => words.reply # "decline"
     /\ kind[d] \in Standing => words # None /\ words.reply = "approval"

\* How the approval is known.  Only an approval of one draft, recorded as it
\* was drafted, reads approved.
Mode(s, d, states) ==
  LET words == Excerpt(s, d)
  IN IF words = None THEN "agent-attested"
     ELSE IF words.reply = "approval" /\ words.single /\ (kind[d] \in Standing \/ states)
          THEN "approved"
          ELSE "agent-judged"

\* The evaluation, on a connection of its own.  The history notes what the
\* operator's last word was, and whether it was heard.
Evaluate(c, s, d, states) ==
  /\ call[c].at = "unused"
  /\ kind[d] \in Standing => states   \* a standing kind is written as drafted
  /\ Recordable(s, d)
  /\ call' = [call EXCEPT ![c] = [at |-> "evaluated", draft |-> d, by |-> s, from |-> d,
                                  mode |-> Mode(s, d, states), states |-> states,
                                  existing |-> None, covers |-> {}]]
  /\ UNCHANGED <<store, age, runtime, hook, talk, history>>

\* findExistingDecisionId: a decision of this author with this very text.
ExistingDecision(s, d, states) ==
  IF states /\ \E r \in records : r.text = d /\ r.by = s
  THEN (CHOOSE r \in records : r.text = d /\ r.by = s).call
  ELSE None

Look(c) ==
  /\ call[c].at = "evaluated" /\ kind[call[c].draft] = "decision"
  /\ call' = [call EXCEPT ![c].at = "ready",
                          ![c].existing = ExistingDecision(call[c].by, call[c].draft, call[c].states)]
  /\ UNCHANGED <<store, age, runtime, hook, talk, history>>

\* A record without fromDraft, with the text of draft d: it answers the drafts of
\* the open window that it covers.  (A text that is no draft's meets no other.)
Direct(c, s, d, covers) ==
  /\ call[c].at = "unused" /\ d \in Created
  /\ covers \subseteq (IF s = NoHooks THEN {} ELSE window[s] \cap Live)
  /\ call' = [call EXCEPT ![c] = [at |-> "ready", draft |-> d, by |-> s, from |-> None,
                                  mode |-> None, states |-> TRUE,
                                  existing |-> ExistingDecision(s, d, TRUE),
                                  covers |-> covers]]
  /\ UNCHANGED <<store, age, runtime, hook, talk, history>>

\* What call c writes.  Only a decision has a text that another call looks up.
Record(c) == [call |-> c, from |-> call[c].from, by |-> call[c].by,
              text |-> IF call[c].at = "ready" /\ call[c].states THEN call[c].draft
                       ELSE None]

\* markAnswered: only drafts still pending.
AnsweredBy(r, ds) ==
  /\ outcome' = [d \in Drafts |-> IF d \in ds \cap Pending THEN "answered" ELSE outcome[d]]
  /\ named' = [d \in Drafts |-> IF d \in ds \cap Pending THEN r ELSE named[d]]

\* The transaction of a decision.  A draft that another call answered first rolls
\* the row back; a text that is already recorded answers the draft instead.
Commit(c) ==
  LET d == call[c].from
      old == call[c].existing
  IN /\ call[c].at = "ready"
     /\ \/ /\ old = None /\ d # None /\ d \in Pending
           /\ outcome' = [outcome EXCEPT ![d] = "approved"]
           /\ named' = [named EXCEPT ![d] = c]
           /\ records' = records \cup {Record(c)}
        \/ /\ old = None /\ d # None /\ d \notin Pending
           /\ UNCHANGED <<outcome, named, records>>
        \/ /\ old = None /\ d = None
           /\ AnsweredBy(c, call[c].covers)
           /\ records' = records \cup {Record(c)}
        \/ /\ old # None
           /\ AnsweredBy(old, IF d = None THEN call[c].covers ELSE {d})
           /\ UNCHANGED records
     /\ call' = [call EXCEPT ![c] = Done]
     /\ UNCHANGED <<kind, age, runtime, hook, talk, history>>

\* Mutant: a claim that does not look at the outcome.
ClaimAnyway(c) ==
  LET d == call[c].draft
  IN /\ call[c].at = "evaluated" /\ kind[d] \in Standing
     /\ outcome' = [outcome EXCEPT ![d] = "approved"]
     /\ call' = [call EXCEPT ![c].at = "claimed"]
     /\ UNCHANGED <<kind, named, records, age, runtime, hook, talk, history>>

\* recordDraftOfKind: the draft is claimed before the record is written.
Claim(c) ==
  LET d == call[c].draft
  IN /\ call[c].at = "evaluated" /\ kind[d] \in Standing
     /\ IF d \in Pending
        THEN /\ outcome' = [outcome EXCEPT ![d] = "approved"]
             /\ call' = [call EXCEPT ![c].at = "claimed"]
        ELSE /\ call' = [call EXCEPT ![c] = Done]
             /\ UNCHANGED outcome
     /\ UNCHANGED <<kind, named, records, age, runtime, hook, talk, history>>

\* The profile line or the evergreen learning is written, in one piece, or not.
Write(c) ==
  /\ call[c].at = "claimed" /\ kind[call[c].draft] = "rule"
  /\ \/ /\ records' = records \cup {Record(c)}
        /\ call' = [call EXCEPT ![c].at = "written"]
     \/ /\ call' = [call EXCEPT ![c].at = "failed"]
        /\ UNCHANGED records
  /\ UNCHANGED <<outcome, kind, named, age, runtime, hook, talk, history>>

\* A constraint is captured outside a transaction: the capture answers success
\* also when its INSERT was rejected, and when the row is there already.  A
\* capture that is refused wrote nothing.
WriteConstraint(c) ==
  /\ call[c].at = "claimed" /\ kind[call[c].draft] = "constraint"
  /\ \/ /\ records' \in {records, records \cup {Record(c)}}
        /\ call' = [call EXCEPT ![c].at = "captured"]
     \/ /\ call' = [call EXCEPT ![c].at = "failed"]
        /\ UNCHANGED records
  /\ UNCHANGED <<outcome, kind, named, age, runtime, hook, talk, history>>

Release(c) ==
  LET d == call[c].draft
  IN /\ call[c].at = "failed"
     /\ outcome' = IF outcome[d] = "approved" /\ named[d] = None
                   THEN [outcome EXCEPT ![d] = "pending"] ELSE outcome
     /\ call' = [call EXCEPT ![c] = Done]
     /\ UNCHANGED <<kind, named, records, age, runtime, hook, talk, history>>

\* A rule or a profile line is named by what its write returned.
NameRecord(c) ==
  /\ call[c].at = "written"
  /\ named' = [named EXCEPT ![call[c].draft] = c]
  /\ call' = [call EXCEPT ![c] = Done]
  /\ UNCHANGED <<outcome, kind, records, age, runtime, hook, talk, history>>

\* Mutant: a look-up that finds nothing leaves record_id as it is.
NameOrLeave(c) ==
  /\ call[c].at = "captured"
  /\ \/ \E r \in records : /\ r.from = call[c].draft
                          /\ named' = [named EXCEPT ![call[c].draft] = r.call]
     \/ UNCHANGED named
  /\ call' = [call EXCEPT ![c] = Done]
  /\ UNCHANGED <<outcome, kind, records, age, runtime, hook, talk, history>>

\* A constraint is looked up by its text.  No active row, or no store to look in:
\* the draft names no record, and stays approved.  A look-up that throws is taken
\* for a write that failed.
NameConstraint(c) ==
  LET d == call[c].draft
  IN /\ call[c].at = "captured"
     /\ \/ /\ \E r \in records : r.from = d /\ named' = [named EXCEPT ![d] = r.call]
           /\ call' = [call EXCEPT ![c] = Done]
        \/ /\ named' = [named EXCEPT ![d] = Unknown]
           /\ call' = [call EXCEPT ![c] = Done]
        \/ /\ call' = [call EXCEPT ![c].at = "failed"]
           /\ UNCHANGED named
     /\ UNCHANGED <<outcome, kind, records, age, runtime, hook, talk, history>>

\* The server dies, or a statement fails without a retry: after the claim the
\* draft is left as it is.
Die(c) ==
  /\ call[c].at \in {"evaluated", "ready", "claimed", "captured", "failed", "written"}
  /\ call' = [call EXCEPT ![c] = IF @.at \in {"claimed", "captured", "failed"}
                                 THEN [Unused EXCEPT !.at = "orphaned", !.draft = call[c].draft]
                                 ELSE Done]
  /\ UNCHANGED <<store, age, runtime, hook, talk, history>>

-----------------------------------------------------------------------------
HookStep(s) ==
  \/ \E repeats, names \in SUBSET Drafts : StopBegin(s, repeats, names)
  \/ StopStore(s) \/ StopShow(s)
  \/ \E class \in Classes : Message(s, class)
  \/ Take(s) \/ Bind(s) \/ Decline(s) \/ Kill(s)
  \/ SessionStart(s) \/ SessionEnd(s)

CallStep(c) ==
  \/ \E s \in Sessions \cup {NoHooks}, d \in Drafts :
       \/ \E states \in BOOLEAN : Evaluate(c, s, d, states)
       \/ \E covers \in SUBSET Drafts : Direct(c, s, d, covers)
  \/ Look(c) \/ Commit(c)
  \/ Claim(c) \/ Write(c) \/ WriteConstraint(c) \/ Release(c)
  \/ NameRecord(c) \/ NameConstraint(c)
  \/ Die(c)

Next ==
  \/ \E s \in Sessions : HookStep(s)
  \/ \E days \in BOOLEAN : TimePasses(days)
  \/ \E c \in Calls : CallStep(c)

Spec == Init /\ [][Next]_vars

-----------------------------------------------------------------------------
(* Properties. *)

\* Types of all variables.
TypeOK ==
  /\ outcome \in [Drafts -> Outcomes]
  /\ kind \in [Drafts -> Kinds]
  /\ named \in [Drafts -> Calls \cup {None, Unknown}]
  /\ records \subseteq [call : Calls, from : Drafts \cup {None}, by : Sessions \cup {NoHooks},
                        text : Drafts \cup {None}]
  /\ age \in [Drafts -> 0..ExpiryStarts]
  /\ shown \in [Sessions -> SUBSET Drafts]
  /\ excerpt \in [Sessions -> [Drafts -> Words \cup {None}]]
  /\ window \in [Sessions -> SUBSET Drafts]
  /\ hook \in [Sessions -> [at : {"idle", "store", "show", "take", "bind", "decline"},
                            ids : SUBSET Drafts, names : SUBSET Drafts,
                            window : SUBSET Drafts, reply : Classes \cup {None}]]
  /\ call \in [Calls -> [at : {"unused", "evaluated", "ready", "claimed", "captured",
                               "written", "failed", "done", "orphaned"},
                         draft : Drafts \cup {None}, by : Sessions \cup {NoHooks, None},
                         from : Drafts \cup {None}, mode : Modes \cup {None},
                         states : BOOLEAN, existing : Calls \cup {None},
                         covers : SUBSET Drafts]]
  /\ talk \in [replies : 0..MaxReplies, messages : 0..MaxMessages]
  /\ display \in [Sessions -> SUBSET Drafts]
  /\ said \in [Sessions -> [Drafts -> Classes \cup {None}]]
  /\ unheard \in [Sessions -> SUBSET Drafts]

\* What an approved draft became.  At most one call holds a claim, and only of an
\* approved draft; an approved draft has a record, or a call that holds its claim,
\* or lost its holder, or says that its record is unknown; a draft that names a
\* record names one that exists.  Of a decision, a rule or a profile line more is
\* true: a draft is one record or none, a record means that the draft is approved
\* and held by nobody, none is unknown, and the record of a decision is named.  A
\* constraint, written outside a transaction, has only the first half: it may be
\* pending with a record, have two, or be approved with none
\* (rbook-decisions-record.ts, draft-approval.ts: calls of several servers,
\* revisions and declines race).
RecordMatchesOutcome ==
  \A d \in Drafts :
    LET made == {r \in records : r.from = d}
        held == {c \in Calls : call[c].draft = d
                                 /\ call[c].at \in {"claimed", "captured", "failed", "orphaned"}}
    IN /\ \A c1, c2 \in held : c1 = c2
       /\ held # {} => outcome[d] = "approved"
       /\ outcome[d] = "approved" => made # {} \/ held # {} \/ named[d] = Unknown
       /\ named[d] \notin {None, Unknown} => \E r \in records : r.call = named[d]
       /\ kind[d] # "constraint" =>
            /\ \A r1, r2 \in made : r1 = r2
            /\ made = {} \/ held = {}
            /\ made # {} => outcome[d] = "approved"
            /\ named[d] # Unknown
            /\ made # {} /\ kind[d] = "decision" => named[d] # None

\* A draft that names a record names one that exists (proposals.ts:41: record_id
\* is "the record it became: d:N, c:N, l:N or profile").
NamesARecord ==
  \A d \in Drafts : named[d] # None => \E r \in records : r.call = named[d]

\* What the runtime keeps as the operator's words on a draft in a conversation
\* is what the operator answered, there, to a reply that showed the draft, and it
\* is their last answer unless the hook that should have kept a later one died
\* or found the draft claimed (draft-runtime.ts: "an operator's 'proceed' or 'no'
\* never lands on a draft they were not shown").
WordsAreTheOperators ==
  \A s \in Sessions, d \in Drafts :
    /\ excerpt[s][d] # None \/ d \in window[s] => said[s][d] # None
    /\ excerpt[s][d] # None /\ d \notin unheard[s] => said[s][d] = excerpt[s][d].reply

\* The first half of it on its own, for the hooks that may die.
LandsOnlyOnWhatWasShown ==
  \A s \in Sessions, d \in Drafts : excerpt[s][d] # None => said[s][d] # None

\* A record call made from a draft is evaluated by what the operator of that very
\* conversation last said of it: a standing kind is written, and a decision reads
\* approved, only on a plain approval, and after a decline that a hook kept the
\* call is refused even when the store never learnt of the decline.
HeardBeforeRecorded ==
  [][\A c \in Calls :
       call[c].at = "unused" /\ call'[c].at = "evaluated" =>
         LET d == call'[c].draft
             s == call'[c].by
         IN /\ kind[d] \in Standing => call'[c].mode # "agent-attested"
            /\ s \in Sessions /\ d \notin unheard[s] =>
                 /\ said[s][d] \in Classes \ {"decline"}
                 /\ call'[c].mode = "approved" \/ kind[d] \in Standing => said[s][d] = "approval"]_vars

\* A draft is replaced by a revision only in a conversation whose operator answered
\* it, and the revision takes its place: one of its kind, pending after it.
ReplacedByARevision ==
  [][\A d \in Drafts :
       outcome[d] # "replaced" /\ outcome'[d] = "replaced" =>
         /\ \E s \in Sessions : said[s][d] # None
         /\ \E e \in Drafts : /\ outcome[e] = "none" /\ outcome'[e] = "pending"
                              /\ kind'[e] = kind[d]]_vars
=============================================================================
