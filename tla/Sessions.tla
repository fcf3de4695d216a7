------------------------------ MODULE Sessions ------------------------------
(***************************************************************************)
(* Work sessions in one store: server processes resolve the session that a *)
(* call writes to, open implicit ones, capture into them, and close them by *)
(* hand, before an explicit start, at reconcile, at exit and when a harness *)
(* session ends.                                                           *)
(*                                                                         *)
(* Every SQL statement outside a transaction is a step of its own, since   *)
(* other processes run between two statements; the calls of one process    *)
(* share its event loop, and alternate only where a handler awaits.        *)
(***************************************************************************)
EXTENDS Naturals, FiniteSets

CONSTANTS
  Processes,  \* server (and hook) processes on one host
  Linked,     \* those that write as the conversation of one harness session
  Harness,    \* the owner key of that harness session
  Calls,      \* tool calls in flight
  Sessions,   \* the session ids that are minted
  Decisions,  \* texts captured as decisions: rows at once
  Steps,      \* texts captured as next steps: rows when the session closes
  None,       \* SQL NULL; a parameter that is not given
  MaxCalls    \* bound: the calls begun in a behaviour

ASSUME LinkedAreProcesses == Linked \subseteq Processes
ASSUME NamesDiffer ==
  /\ Harness \notin Processes
  /\ None \notin Processes \cup Sessions \cup Decisions \cup Steps \cup {Harness}
  /\ Decisions \cap Steps = {}
ASSUME MaxCallsIsNat == MaxCalls \in Nat

VARIABLES
  session,       \* the sessions table
  rows,          \* how many strategic_decisions or next_steps rows hold a text for a session
  call,          \* where each call is, and what it has read
  begun,         \* how many calls were begun
  alive,         \* processes that run
  reconciled,    \* processes that have reconciled the store
  acknowledged,  \* history: the captures that were answered as captured
  undisturbed,   \* history: those of them that no other call overlapped
  torn           \* history: sessions whose closer died before it had extracted

vars == <<session, rows, call, begun, alive, reconciled, acknowledged, undisturbed, torn>>
history == <<acknowledged, undisturbed, torn>>

Items == Decisions \cup Steps

\* currentSessionOwner: the harness session's key, or that of the process.
KeyOf(p) == IF p \in Linked THEN Harness ELSE p

\* "rest" is what the newest activity says of the idle bound: never past it,
\* past it now, or past it once and active since.
Session == [status : {"absent", "active", "completed"},
            kind : {"explicit", "implicit"},
            owner : Processes \cup {Harness, None},
            captures : SUBSET Items,
            rest : {"fresh", "idle", "resumed"}]

NoSession == [status |-> "absent", kind |-> "explicit", owner |-> None,
              captures |-> {}, rest |-> "fresh"]

Call == [pc : {"idle", "own", "open", "row", "decide", "defer", "batch",
               "embedding", "close", "seek", "insertStep", "reconcile", "closing", "insert"},
         does : {"nothing", "capture", "complete"},
         by : Processes \cup {None},
         session : Sessions \cup {None},
         item : Items \cup {None},
         items : SUBSET Items,      \* the captures read; then the steps to extract
         queue : SUBSET Sessions,   \* the sessions still to close automatically
         then : {"return", "start", "exit", "reconciled"}]

IdleCall == [pc |-> "idle", does |-> "nothing", by |-> None, session |-> None,
             item |-> None, items |-> {}, queue |-> {}, then |-> "return"]

TypeOK ==
  /\ session \in [Sessions -> Session]
  /\ rows \in [Items \X Sessions -> Nat]
  /\ call \in [Calls -> Call]
  /\ begun \in Nat
  /\ alive \subseteq Processes
  /\ reconciled \subseteq Processes
  /\ acknowledged \subseteq Items \X Sessions
  /\ undisturbed \subseteq acknowledged
  /\ torn \subseteq Sessions

Init ==
  /\ session = [s \in Sessions |-> NoSession]
  /\ rows = [r \in Items \X Sessions |-> 0]
  /\ call = [c \in Calls |-> IdleCall]
  /\ begun = 0
  /\ alive = Processes
  /\ reconciled = {}
  /\ acknowledged = {}
  /\ undisturbed = {}
  /\ torn = {}

-----------------------------------------------------------------------------
(* What the lookups find.                                                  *)

Active(s) == session[s].status = "active"

ActiveOf(kind, owner) ==
  {s \in Sessions : Active(s) /\ session[s].kind = kind /\ session[s].owner = owner}

\* The explicit session that absorbs p's writes: its own before a keyless one.
CallerExplicit(p) ==
  IF ActiveOf("explicit", KeyOf(p)) # {} THEN ActiveOf("explicit", KeyOf(p))
  ELSE ActiveOf("explicit", None)

\* Only a process of this host can be seen to be gone.
Dead(owner) == owner \in Processes \ alive

\* Mutant: what the caller wants with the session is not looked at.
HeldUnlessIdle(s, p, purpose) ==
  /\ session[s].kind = "implicit"
  /\ session[s].owner # KeyOf(p)
  /\ ~Dead(session[s].owner)
  /\ session[s].rest # "idle"

\* Another running process writes to s; its owner stays the only one to write
\* however idle it is, but an idle session may be completed by anyone.
HeldByAnotherProcess(s, p, purpose) ==
  /\ session[s].kind = "implicit"
  /\ session[s].owner # KeyOf(p)
  /\ ~Dead(session[s].owner)
  /\ purpose = "write" \/ session[s].rest # "idle"

ImplicitSessionsToClose(p) ==
  {s \in Sessions : /\ Active(s)
                    /\ session[s].kind = "implicit"
                    /\ session[s].owner # KeyOf(p)
                    /\ Dead(session[s].owner) \/ session[s].rest = "idle"}

IdleExplicit == {s \in Sessions : Active(s) /\ session[s].kind = "explicit"
                                            /\ session[s].rest = "idle"}

LiveExplicit(p) ==
  (ActiveOf("explicit", KeyOf(p)) \cup ActiveOf("explicit", None)) \ IdleExplicit

-----------------------------------------------------------------------------
(* Calls.                                                                  *)

Awaiting == {"idle", "reconcile", "closing", "embedding"}

\* Mutant: every statement is awaited.
LoopAlwaysFree(p, c) == p \in alive

\* The event loop of p can run c: each other call of p waits at an await.
LoopFree(p, c) ==
  /\ p \in alive
  /\ \A d \in Calls \ {c} : call[d].by = p => call[d].pc \in Awaiting

At(c, pc) == call[c].pc = pc /\ LoopFree(call[c].by, c)

Begins(c, p) ==
  /\ call[c].pc = "idle"
  /\ LoopFree(p, c)
  /\ begun < MaxCalls
  /\ begun' = begun + 1

Goes(c, pc) == call' = [call EXCEPT ![c].pc = pc]

\* A capture reconciles the store if its process has not; an automatic close goes
\* on to the next candidate or to what it was for; other calls return.
Returned(c) ==
  IF call[c].does = "capture" /\ call[c].by \notin reconciled
  THEN [IdleCall EXCEPT !.pc = "reconcile", !.by = call[c].by]
  ELSE IF call[c].queue # {} \/ call[c].then # "return"
       THEN [call[c] EXCEPT !.pc = "closing", !.session = None, !.items = {}]
       ELSE IdleCall

Returns(c) == call' = [call EXCEPT ![c] = Returned(c)]

\* A row in, with this activity's time.
Touched(s) ==
  [session[s] EXCEPT !.rest = IF @ = "idle" THEN "resumed" ELSE @]

\* Calls that will write from the captures of s that they have read.
HoldsCaptures(d, s) ==
  call[d].session = s /\ call[d].pc \in {"defer", "batch", "embedding", "close"}

\* Calls that extract the next steps of s, which they have completed.
Closing(d, s) == call[d].session = s /\ call[d].pc \in {"seek", "insertStep"}

\* The call starts with the lookup of the session it writes to, unless that is
\* named.  With several sessions the newest is taken; here, any.
Resolve(c, k, named) ==
  LET found == IF named # None THEN {named} ELSE CallerExplicit(k.by)
  IN \/ found = {} /\ call' = [call EXCEPT ![c] = [k EXCEPT !.pc = "own"]]
     \/ \E s \in found : call' = [call EXCEPT ![c] = [k EXCEPT !.pc = "row", !.session = s]]

Capture(c, p, i, named) ==
  /\ Begins(c, p)
  /\ Resolve(c, [IdleCall EXCEPT !.does = "capture", !.by = p, !.item = i], named)
  /\ UNCHANGED <<session, rows, alive, reconciled, history>>

\* given: the decisions and next steps passed to the completion itself.
Complete(c, p, given, named) ==
  /\ Begins(c, p)
  /\ Resolve(c, [IdleCall EXCEPT !.does = "complete", !.by = p, !.items = given], named)
  /\ UNCHANGED <<session, rows, alive, reconciled, history>>

\* A completion opens nothing.
FindOwn(c) ==
  /\ At(c, "own")
  /\ LET found == ActiveOf("implicit", KeyOf(call[c].by))
     IN \/ \E s \in found : call' = [call EXCEPT ![c].pc = "row", ![c].session = s]
        \/ found = {} /\ call[c].does = "capture" /\ Goes(c, "open")
        \/ found = {} /\ call[c].does = "complete" /\ Returns(c)
  /\ UNCHANGED <<begun, session, rows, alive, reconciled, history>>

\* Mutant: the two columns are bound in the wrong order.
OpenedSwapped(kind, owner) ==
  [NoSession EXCEPT !.status = "active", !.kind = owner, !.owner = kind]

Opened(kind, owner) == [NoSession EXCEPT !.status = "active", !.kind = kind, !.owner = owner]

\* insertNewSession tries the next number when another process took this one.
Open(c) ==
  /\ At(c, "open")
  /\ \E s \in Sessions :
       /\ session[s].status = "absent"
       /\ session' = [session EXCEPT ![s] = Opened("implicit", KeyOf(call[c].by))]
       /\ call' = [call EXCEPT ![c].pc = "row", ![c].session = s]
  /\ UNCHANGED <<begun, rows, alive, reconciled, history>>

Refused(c, purpose) ==
  \/ ~Active(call[c].session)
  \/ HeldByAnotherProcess(call[c].session, call[c].by, purpose)

\* The row is read; from here on its captures are those in "items".
ReadRow(c) ==
  /\ At(c, "row")
  /\ LET captures == session[call[c].session].captures
     IN \/ call[c].does = "capture" /\ Refused(c, "write") /\ Returns(c)
        \/ call[c].does = "complete" /\ Refused(c, "complete") /\ Returns(c)
        \/ /\ call[c].does = "capture" /\ ~Refused(c, "write")
           /\ call' = [call EXCEPT ![c].pc = IF call[c].item \in Decisions THEN "decide" ELSE "defer",
                                   ![c].items = captures]
        \/ /\ call[c].does = "complete" /\ ~Refused(c, "complete")
           /\ call' = [call EXCEPT ![c].pc = "batch", ![c].items = @ \cup captures]
  /\ UNCHANGED <<begun, session, rows, alive, reconciled, history>>

\* Mutant: the transaction does not look for the row that is already there.
InsertAlways(s, texts) ==
  [r \in Items \X Sessions |-> IF r[1] \in texts /\ r[2] = s THEN rows[r] + 1 ELSE rows[r]]

\* Rows for those of the texts that have none for this session.
InsertMissing(s, texts) ==
  [r \in Items \X Sessions |->
     IF r[1] \in texts /\ r[2] = s /\ rows[r] = 0 THEN 1 ELSE rows[r]]

\* Mutant: the transaction goes on from the row that was read before it.
DecideFromRow(c) ==
  /\ At(c, "decide")
  /\ LET s == call[c].session
         i == call[c].item
     IN /\ session' = [session EXCEPT ![s] = [Touched(s) EXCEPT !.captures = call[c].items \cup {i}]]
        /\ rows' = InsertMissing(s, {i})
        /\ acknowledged' = acknowledged \cup {<<i, s>>}
  /\ Returns(c)
  /\ UNCHANGED <<begun, alive, reconciled, undisturbed, torn>>

\* The capture of a decision: one immediate transaction, which reads again.
Decide(c) ==
  /\ At(c, "decide")
  /\ LET s == call[c].session
         i == call[c].item
     IN \/ Refused(c, "write") /\ UNCHANGED <<session, rows, acknowledged>>
        \/ /\ ~Refused(c, "write")
           /\ session' = [session EXCEPT ![s] = [Touched(s) EXCEPT !.captures = @ \cup {i}]]
           /\ rows' = InsertMissing(s, {i})
           /\ acknowledged' = acknowledged \cup {<<i, s>>}
  /\ Returns(c)
  /\ UNCHANGED <<begun, alive, reconciled, undisturbed, torn>>

\* The capture of a next step writes the whole blob back, whatever became of the
\* row meanwhile.
Defer(c) ==
  /\ At(c, "defer")
  /\ LET s == call[c].session
         i == call[c].item
     IN /\ session' = [session EXCEPT ![s] = [Touched(s) EXCEPT !.captures = call[c].items \cup {i}]]
        /\ acknowledged' = acknowledged \cup {<<i, s>>}
        /\ undisturbed' = IF /\ Active(s)
                               /\ \A d \in Calls \ {c} : ~HoldsCaptures(d, s) /\ ~Closing(d, s)
                          THEN undisturbed \cup {<<i, s>>} ELSE undisturbed
  /\ Returns(c)
  /\ UNCHANGED <<begun, rows, alive, reconciled, torn>>

\* The decisions of the completion, in one transaction; each new row is then
\* embedded, which is awaited.
RecordDecisions(c) ==
  /\ At(c, "batch")
  /\ LET s == call[c].session
     IN /\ rows' = InsertMissing(s, call[c].items \cap Decisions)
        /\ IF rows' = rows
           THEN session' = session /\ Goes(c, "close")
           ELSE session' = [session EXCEPT ![s] = Touched(s)] /\ Goes(c, "embedding")
  /\ UNCHANGED <<begun, alive, reconciled, history>>

\* status = 'completed', whatever the status was.
CloseSession(c) ==
  /\ At(c, "close") \/ At(c, "embedding")
  /\ session' = [session EXCEPT ![call[c].session].status = "completed"]
  /\ call' = [call EXCEPT ![c].pc = "seek", ![c].items = @ \cap Steps]
  /\ UNCHANGED <<begun, rows, alive, reconciled, history>>

\* The extraction: for each step, look for its row, then insert it.
SeekStep(c) ==
  /\ At(c, "seek")
  /\ \/ call[c].items = {} /\ Returns(c)
     \/ \E i \in call[c].items :
          \/ /\ rows[<<i, call[c].session>>] > 0
             /\ call' = [call EXCEPT ![c].items = @ \ {i}]
          \/ /\ rows[<<i, call[c].session>>] = 0
             /\ call' = [call EXCEPT ![c].pc = "insertStep", ![c].item = i]
  /\ UNCHANGED <<begun, session, rows, alive, reconciled, history>>

InsertStep(c) ==
  /\ At(c, "insertStep")
  /\ rows' = [rows EXCEPT ![<<call[c].item, call[c].session>>] = @ + 1]
  /\ call' = [call EXCEPT ![c].pc = "seek", ![c].item = None, ![c].items = @ \ {call[c].item}]
  /\ UNCHANGED <<begun, session, alive, reconciled, history>>

-----------------------------------------------------------------------------
(* Automatic closes: the candidates are read in one connection, then each is *)
(* completed by the handler above.                                          *)

CloseEach(c, p, candidates, then) ==
  call' = [call EXCEPT ![c] = [IdleCall EXCEPT !.pc = "closing", !.does = "complete", !.by = p,
                                               !.queue = candidates, !.then = then]]

Reconcile(c) ==
  /\ At(c, "reconcile")
  /\ CloseEach(c, call[c].by, ImplicitSessionsToClose(call[c].by), "reconciled")
  /\ UNCHANGED <<begun, session, rows, alive, reconciled, history>>

\* A start that will be refused closes nothing.
Start(c, p) ==
  /\ Begins(c, p)
  /\ CloseEach(c, p, IF LiveExplicit(p) # {} THEN {}
                     ELSE IdleExplicit \cup ImplicitSessionsToClose(p), "start")
  /\ UNCHANGED <<session, rows, alive, reconciled, history>>

\* SIGINT, SIGTERM or the end of stdin: the session of this process's own key.
Leave(c, p) ==
  /\ Begins(c, p)
  /\ CloseEach(c, p, ActiveOf("implicit", p), "exit")
  /\ UNCHANGED <<session, rows, alive, reconciled, history>>

\* SessionEnd: every session of the harness session.
EndHarnessSession(c, p) ==
  /\ Begins(c, p)
  /\ p \in Linked
  /\ {s \in Sessions : Active(s) /\ session[s].owner = Harness} # {}
  /\ CloseEach(c, p, {s \in Sessions : Active(s) /\ session[s].owner = Harness}, "return")
  /\ UNCHANGED <<session, rows, alive, reconciled, history>>

CloseNext(c) ==
  /\ At(c, "closing")
  /\ \E s \in call[c].queue :
       call' = [call EXCEPT ![c].pc = "row", ![c].session = s, ![c].queue = @ \ {s}]
  /\ UNCHANGED <<begun, session, rows, alive, reconciled, history>>

Closed(c, then) == At(c, "closing") /\ call[c].queue = {} /\ call[c].then = then

FinishReconcile(c) ==
  /\ Closed(c, "reconciled")
  /\ reconciled' = reconciled \cup {call[c].by}
  /\ call' = [call EXCEPT ![c] = IdleCall]
  /\ UNCHANGED <<begun, session, rows, alive, history>>

\* The start proper: refused when an explicit session of the caller is open.
StartExplicit(c) ==
  /\ Closed(c, "start")
  /\ IF CallerExplicit(call[c].by) # {}
     THEN call' = [call EXCEPT ![c] = IdleCall]
     ELSE Goes(c, "insert")
  /\ UNCHANGED <<begun, session, rows, alive, reconciled, history>>

InsertExplicit(c) ==
  /\ At(c, "insert")
  /\ \E s \in Sessions :
       /\ session[s].status = "absent"
       /\ session' = [session EXCEPT ![s] =
            Opened("explicit", IF call[c].by \in Linked THEN Harness ELSE None)]
  /\ call' = [call EXCEPT ![c] = IdleCall]
  /\ UNCHANGED <<begun, rows, alive, reconciled, history>>

CallsWithout(p) == [c \in Calls |-> IF call[c].by = p THEN IdleCall ELSE call[c]]

Exit(c) ==
  /\ Closed(c, "exit")
  /\ alive' = alive \ {call[c].by}
  /\ call' = CallsWithout(call[c].by)
  /\ UNCHANGED <<begun, session, rows, reconciled, history>>

\* The process dies between two statements.
Crash(p) ==
  /\ p \in alive
  /\ alive' = alive \ {p}
  /\ call' = CallsWithout(p)
  /\ torn' = torn \cup {s \in Sessions : \E c \in Calls : /\ call[c].by = p
                                                           /\ call[c].session = s
                                                           /\ call[c].pc \in {"seek", "insertStep"}}
  /\ UNCHANGED <<begun, session, rows, reconciled, acknowledged, undisturbed>>

\* Twelve hours without activity, longer than any call.
GoIdle(s) ==
  /\ Active(s)
  /\ session[s].rest # "idle"
  /\ \A c \in Calls : call[c].session # s
  /\ session' = [session EXCEPT ![s].rest = "idle"]
  /\ UNCHANGED <<begun, rows, call, alive, reconciled, history>>

Existing == {s \in Sessions : session[s].status # "absent"}

\* The completions that callers make: with nothing, one decision or one step.
Given == {{}} \cup {{i} : i \in Items}

Next ==
  \/ \E c \in Calls, p \in Processes, named \in Existing \cup {None} :
       \/ \E i \in Items : Capture(c, p, i, named)
       \/ \E given \in Given : Complete(c, p, given, named)
  \/ \E c \in Calls, p \in Processes : Start(c, p) \/ Leave(c, p) \/ EndHarnessSession(c, p)
  \/ \E c \in Calls :
       \/ FindOwn(c) \/ Open(c) \/ ReadRow(c)
       \/ Decide(c) \/ Defer(c)
       \/ RecordDecisions(c) \/ CloseSession(c) \/ SeekStep(c) \/ InsertStep(c)
       \/ Reconcile(c) \/ CloseNext(c) \/ FinishReconcile(c)
       \/ StartExplicit(c) \/ InsertExplicit(c) \/ Exit(c)
  \/ \E p \in Processes : Crash(p)
  \/ \E s \in Sessions : GoIdle(s)

Spec == Init /\ [][Next]_vars

-----------------------------------------------------------------------------

\* A decision that was answered as captured has exactly one row for its session,
\* and no interleaving of captures and completions makes a second one.
DecisionRecordedOnce ==
  \A d \in Decisions, s \in Sessions :
    /\ rows[<<d, s>>] <= 1
    /\ <<d, s>> \in acknowledged => rows[<<d, s>>] = 1

\* A process that writes under its own key never has two implicit sessions open,
\* however many of its calls are under way.
OneImplicitSession ==
  \A p \in Processes \ Linked : \A s, t \in ActiveOf("implicit", p) : s = t

\* The implicit session of a process that runs is written by its calls alone, and
\* closed by another process only after twelve hours of silence.
OthersLeaveItAlone ==
  [][\A s \in Sessions :
       LET own == \E c \in Calls : call[c].by = session[s].owner /\ call'[c] # call[c]
       IN Active(s) /\ session[s].kind = "implicit" /\ session[s].owner \in alive =>
            /\ session'[s].captures # session[s].captures => own
            /\ session'[s].status # session[s].status => own \/ session[s].rest # "fresh"]_vars

\* s is closed, and every call that closed it has extracted its next steps.
Settled(s) == session[s].status = "completed" /\ \A c \in Calls : ~Closing(c, s)

\* A next step captured while no other call was at work on the captures of its
\* session stays in the session, and is a row once the session is closed, unless
\* the closer died on the way.
StepKeptUnlessOverlapped ==
  \A n \in Steps, s \in Sessions :
    <<n, s>> \in undisturbed =>
      /\ n \in session[s].captures
      /\ Settled(s) /\ s \notin torn => rows[<<n, s>>] > 0

\* "A deferred category (next-step, constraint, context) materializes at session
\* close": whoever else was at work.
StepMaterializes ==
  \A n \in Steps, s \in Sessions :
    <<n, s>> \in acknowledged /\ Settled(s) /\ s \notin torn => rows[<<n, s>>] > 0

=============================================================================
