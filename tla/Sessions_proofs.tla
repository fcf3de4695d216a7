--------------------------- MODULE Sessions_proofs ---------------------------
(***************************************************************************)
(* Proofs about Sessions, for any number of processes, calls, sessions and *)
(* texts.  Fits says what a call at each point has found; Kept, what the   *)
(* calls under way owe to the captures that nothing overlapped; Own, what  *)
(* the calls of a process know of the session that is its own.             *)
(***************************************************************************)
EXTENDS Sessions, TLAPS

-----------------------------------------------------------------------------
(* Types.                                                                  *)

\* The points at which a call has its session.
Located == {"row", "decide", "defer", "batch", "embedding", "close", "seek", "insertStep"}

\* What a call has found when it is where it is.
Fits(k) ==
  /\ k.pc # "idle" => k.by \in Processes
  /\ k.pc \in Located => k.session \in Sessions
  /\ k.does = "capture" => k.item \in Items
  /\ k.pc \in {"decide", "defer"} => k.does = "capture"
  /\ k.pc = "defer" => k.item \notin Decisions
  /\ k.pc = "open" => k.does = "capture"
  /\ k.pc \in {"batch", "embedding", "close", "seek", "insertStep"} => k.does = "complete"
  /\ k.pc = "insertStep" => k.item \in k.items

Typed == TypeOK /\ \A c \in Calls : Fits(call[c])

LEMMA IdleCallTyped == IdleCall \in Call /\ Fits(IdleCall)
BY DEF IdleCall, Call, Fits, Located

\* A step that replaces one call's record by a fitting one keeps all of them so.
LEMMA CallStep ==
  ASSUME Typed, NEW c \in Calls, NEW k \in Call, Fits(k), call' = [call EXCEPT ![c] = k]
  PROVE  call' \in [Calls -> Call] /\ \A d \in Calls : Fits(call'[d])
<1>1. call \in [Calls -> Call]
  BY DEF Typed, TypeOK
<1>2. \A d \in Calls : call'[d] = IF d = c THEN k ELSE call[d]
  BY <1>1
<1>3. QED
  BY <1>1, <1>2 DEF Typed

LEMMA CallTyped ==
  ASSUME Typed, NEW c \in Calls
  PROVE  call[c] \in Call /\ Fits(call[c])
BY DEF Typed, TypeOK

LEMMA ReturnedTyped ==
  ASSUME Typed, NEW c \in Calls, call[c].pc # "idle"
  PROVE  Returned(c) \in Call /\ Fits(Returned(c))
<1> DEFINE k == call[c]
<1>1. k \in Call /\ Fits(k) /\ k.by \in Processes
  BY CallTyped DEF Fits
<1>2. CASE k.does = "capture" /\ k.by \notin reconciled
  <2>1. Returned(c) = [IdleCall EXCEPT !.pc = "reconcile", !.by = k.by]
    BY <1>2 DEF Returned
  <2>2. QED
    BY <1>1, <2>1 DEF IdleCall, Call, Fits, Located
<1>3. CASE /\ ~(k.does = "capture" /\ k.by \notin reconciled)
           /\ k.queue # {} \/ k.then # "return"
  <2>1. Returned(c) = [k EXCEPT !.pc = "closing", !.session = None, !.items = {}]
    BY <1>3 DEF Returned
  <2> HIDE DEF k
  <2>2. QED
    BY <1>1, <2>1 DEF Call, Fits, Located
<1>4. CASE /\ ~(k.does = "capture" /\ k.by \notin reconciled)
           /\ ~(k.queue # {} \/ k.then # "return")
  <2>1. Returned(c) = IdleCall
    BY <1>4 DEF Returned
  <2>2. QED
    BY <2>1, IdleCallTyped
<1>5. QED
  BY <1>2, <1>3, <1>4

\* What a call that moves on from its own record becomes.
LEMMA MovedTyped ==
  ASSUME Typed, NEW c \in Calls, call[c].pc # "idle"
  PROVE  /\ \A s \in Sessions, q \in SUBSET Sessions :
              LET k == [call[c] EXCEPT !.pc = "row", !.session = s, !.queue = q]
              IN k \in Call /\ Fits(k)
         /\ call[c].does = "capture" =>
              LET k == [call[c] EXCEPT !.pc = "open"] IN k \in Call /\ Fits(k)
         /\ LET k == [call[c] EXCEPT !.pc = "insert"] IN k \in Call /\ Fits(k)
         /\ \A items \in SUBSET Items, pc \in {"decide", "defer"} :
              /\ call[c].does = "capture" /\ call[c].session \in Sessions
              /\ pc = "defer" => call[c].item \notin Decisions
              => LET k == [call[c] EXCEPT !.pc = pc, !.items = items] IN k \in Call /\ Fits(k)
         /\ \A items \in SUBSET Items, pc \in {"batch", "embedding", "close", "seek"} :
              call[c].does = "complete" /\ call[c].session \in Sessions =>
                LET k == [call[c] EXCEPT !.pc = pc, !.items = items] IN k \in Call /\ Fits(k)
         /\ \A i \in call[c].items :
              call[c].does = "complete" /\ call[c].session \in Sessions =>
                LET k == [call[c] EXCEPT !.pc = "insertStep", !.item = i] IN k \in Call /\ Fits(k)
         /\ \A items \in SUBSET Items :
              call[c].does = "complete" /\ call[c].session \in Sessions =>
                LET k == [call[c] EXCEPT !.pc = "seek", !.item = None, !.items = items]
                IN k \in Call /\ Fits(k)
<1> DEFINE j == call[c]
<1>1. j \in Call /\ Fits(j) /\ j.by \in Processes
  BY CallTyped DEF Fits
<1> HIDE DEF j
<1>2. ASSUME NEW s \in Sessions, NEW q \in SUBSET Sessions
      PROVE  LET k == [j EXCEPT !.pc = "row", !.session = s, !.queue = q] IN k \in Call /\ Fits(k)
  BY <1>1 DEF Call, Fits, Located
<1>3. j.does = "capture" => LET k == [j EXCEPT !.pc = "open"] IN k \in Call /\ Fits(k)
  BY <1>1 DEF Call, Fits, Located
<1>4. LET k == [j EXCEPT !.pc = "insert"] IN k \in Call /\ Fits(k)
  BY <1>1 DEF Call, Fits, Located
<1>5. ASSUME NEW items \in SUBSET Items, NEW pc \in {"decide", "defer"},
             j.does = "capture", j.session \in Sessions, pc = "defer" => j.item \notin Decisions
      PROVE  LET k == [j EXCEPT !.pc = pc, !.items = items] IN k \in Call /\ Fits(k)
  BY <1>1, <1>5 DEF Call, Fits, Located
<1>6. ASSUME NEW items \in SUBSET Items, NEW pc \in {"batch", "embedding", "close", "seek"},
             j.does = "complete", j.session \in Sessions
      PROVE  LET k == [j EXCEPT !.pc = pc, !.items = items] IN k \in Call /\ Fits(k)
  BY <1>1, <1>6 DEF Call, Fits, Located
<1>7. ASSUME NEW i \in j.items, j.does = "complete", j.session \in Sessions
      PROVE  LET k == [j EXCEPT !.pc = "insertStep", !.item = i] IN k \in Call /\ Fits(k)
  BY <1>1, <1>7 DEF Call, Fits, Located
<1>8. ASSUME NEW items \in SUBSET Items, j.does = "complete", j.session \in Sessions
      PROVE  LET k == [j EXCEPT !.pc = "seek", !.item = None, !.items = items]
             IN k \in Call /\ Fits(k)
  BY <1>1, <1>8 DEF Call, Fits, Located
<1>9. QED
  BY <1>2, <1>3, <1>4, <1>5, <1>6, <1>7, <1>8 DEF j

LEMMA SessionTyped ==
  ASSUME TypeOK, NEW s \in Sessions
  PROVE  session[s] \in Session /\ Touched(s) \in Session
BY DEF TypeOK, Session, Touched

LEMMA KeyTyped == \A p \in Processes : KeyOf(p) \in Processes \cup {Harness}
BY DEF KeyOf

LEMMA OpenedTyped ==
  ASSUME NEW kind \in {"explicit", "implicit"}, NEW owner \in Processes \cup {Harness, None}
  PROVE  Opened(kind, owner) \in Session
BY DEF Opened, NoSession, Session

LEMMA TypedInit == Init => Typed
<1> SUFFICES ASSUME Init PROVE Typed
  OBVIOUS
<1>1. NoSession \in Session
  BY DEF NoSession, Session
<1>2. TypeOK
  BY <1>1, IdleCallTyped DEF Init, TypeOK
<1>3. QED
  BY <1>2, IdleCallTyped DEF Init, Typed

\* The rows after a transaction: none is removed.
LEMMA RowsTyped ==
  ASSUME TypeOK, NEW s \in Sessions, NEW texts
  PROVE  /\ InsertMissing(s, texts) \in [Items \X Sessions -> Nat]
         /\ \A r \in Items \X Sessions : InsertMissing(s, texts)[r] >= rows[r]
BY DEF TypeOK, InsertMissing

\* A call that gives up the sessions of a process sets out to close them.
LEMMA ClosingCall ==
  ASSUME NEW c, NEW p, Start(c, p) \/ Leave(c, p) \/ EndHarnessSession(c, p)
  PROVE  \E k : k.pc = "closing" /\ k.by = p /\ call' = [call EXCEPT ![c] = k]
<1>1. ASSUME NEW candidates, NEW then, CloseEach(c, p, candidates, then)
      PROVE  \E k : k.pc = "closing" /\ k.by = p /\ call' = [call EXCEPT ![c] = k]
  <2> DEFINE k == [IdleCall EXCEPT !.pc = "closing", !.does = "complete", !.by = p,
                                   !.queue = candidates, !.then = then]
  <2>1. k.pc = "closing" /\ k.by = p
    BY DEF IdleCall
  <2>2. call' = [call EXCEPT ![c] = k]
    BY <1>1 DEF CloseEach
  <2>3. QED
    BY <2>1, <2>2
<1>2. QED
  BY <1>1 DEF Start, Leave, EndHarnessSession

LEMMA ResolveTyped ==
  ASSUME Typed, NEW c \in Calls, NEW k \in Call, Fits(k), k.by \in Processes,
         NEW named \in Sessions \cup {None}, Resolve(c, k, named)
  PROVE  call' \in [Calls -> Call] /\ \A d \in Calls : Fits(call'[d])
<1>1. CASE call' = [call EXCEPT ![c] = [k EXCEPT !.pc = "own"]]
  <2>1. [k EXCEPT !.pc = "own"] \in Call /\ Fits([k EXCEPT !.pc = "own"])
    BY DEF Call, Fits, Located
  <2>2. QED
    BY <1>1, <2>1, CallStep
<1>2. ASSUME NEW s \in Sessions,
             call' = [call EXCEPT ![c] = [k EXCEPT !.pc = "row", !.session = s]]
      PROVE  call' \in [Calls -> Call] /\ \A d \in Calls : Fits(call'[d])
  <2> DEFINE j == [k EXCEPT !.pc = "row", !.session = s]
  <2>1. j \in Call /\ Fits(j)
    BY DEF Call, Fits, Located
  <2> HIDE DEF j
  <2>2. QED
    BY <1>2, <2>1, CallStep DEF j
<1>3. CallerExplicit(k.by) \subseteq Sessions
  BY DEF CallerExplicit, ActiveOf
<1>4. QED
  BY <1>1, <1>2, <1>3 DEF Resolve

LEMMA CloseEachTyped ==
  ASSUME Typed, NEW c \in Calls, NEW p \in Processes, NEW candidates \in SUBSET Sessions,
         NEW then \in {"return", "start", "exit", "reconciled"}, CloseEach(c, p, candidates, then)
  PROVE  call' \in [Calls -> Call] /\ \A d \in Calls : Fits(call'[d])
<1> DEFINE k == [IdleCall EXCEPT !.pc = "closing", !.does = "complete", !.by = p,
                                 !.queue = candidates, !.then = then]
<1>1. k \in Call /\ Fits(k)
  BY DEF IdleCall, Call, Fits, Located
<1>2. call' = [call EXCEPT ![c] = k]
  BY DEF CloseEach
<1> HIDE DEF k
<1>3. QED
  BY <1>1, <1>2, CallStep

\* The steps that begin a call.
LEMMA BeginTyped ==
  ASSUME Typed, NEW c \in Calls, NEW p \in Processes
  PROVE  /\ \A i \in Items, named \in Existing \cup {None} : Capture(c, p, i, named) => Typed'
         /\ \A given \in Given, named \in Existing \cup {None} : Complete(c, p, given, named) => Typed'
         /\ Start(c, p) \/ Leave(c, p) \/ EndHarnessSession(c, p) => Typed'
<1>1. Existing \subseteq Sessions
  BY DEF Existing
<1>2. ASSUME NEW i \in Items, NEW named \in Existing \cup {None}, Capture(c, p, i, named)
      PROVE  Typed'
  <2> DEFINE k == [IdleCall EXCEPT !.does = "capture", !.by = p, !.item = i]
  <2>1. k \in Call /\ Fits(k) /\ k.by \in Processes
    BY DEF IdleCall, Call, Fits, Located
  <2>2. Resolve(c, k, named)
    BY <1>2 DEF Capture
  <2> HIDE DEF k
  <2>3. call' \in [Calls -> Call] /\ \A d \in Calls : Fits(call'[d])
    BY <1>1, <2>1, <2>2, ResolveTyped
  <2>4. QED
    BY <1>2, <2>3 DEF Capture, Begins, Typed, TypeOK, history
<1>3. ASSUME NEW given \in Given, NEW named \in Existing \cup {None}, Complete(c, p, given, named)
      PROVE  Typed'
  <2> DEFINE k == [IdleCall EXCEPT !.does = "complete", !.by = p, !.items = given]
  <2>1. k \in Call /\ Fits(k) /\ k.by \in Processes
    BY DEF IdleCall, Call, Fits, Located, Given
  <2>2. Resolve(c, k, named)
    BY <1>3 DEF Complete
  <2> HIDE DEF k
  <2>3. call' \in [Calls -> Call] /\ \A d \in Calls : Fits(call'[d])
    BY <1>1, <2>1, <2>2, ResolveTyped
  <2>4. QED
    BY <1>3, <2>3 DEF Complete, Begins, Typed, TypeOK, history
<1>4. CASE Start(c, p)
  <2> DEFINE candidates == IF LiveExplicit(p) # {} THEN {}
                           ELSE IdleExplicit \cup ImplicitSessionsToClose(p)
  <2>1. candidates \in SUBSET Sessions
    BY DEF IdleExplicit, ImplicitSessionsToClose
  <2>2. CloseEach(c, p, candidates, "start")
    BY <1>4 DEF Start
  <2> HIDE DEF candidates
  <2>3. call' \in [Calls -> Call] /\ \A d \in Calls : Fits(call'[d])
    BY <2>1, <2>2, CloseEachTyped
  <2>4. QED
    BY <1>4, <2>3 DEF Start, Begins, Typed, TypeOK, history
<1>5. CASE Leave(c, p)
  <2>1. ActiveOf("implicit", p) \in SUBSET Sessions
    BY DEF ActiveOf
  <2>2. call' \in [Calls -> Call] /\ \A d \in Calls : Fits(call'[d])
    BY <1>5, <2>1, CloseEachTyped DEF Leave
  <2>3. QED
    BY <1>5, <2>2 DEF Leave, Begins, Typed, TypeOK, history
<1>6. CASE EndHarnessSession(c, p)
  <2>1. {s \in Sessions : Active(s) /\ session[s].owner = Harness} \in SUBSET Sessions
    OBVIOUS
  <2>2. call' \in [Calls -> Call] /\ \A d \in Calls : Fits(call'[d])
    BY <1>6, <2>1, CloseEachTyped DEF EndHarnessSession
  <2>3. QED
    BY <1>6, <2>2 DEF EndHarnessSession, Begins, Typed, TypeOK, history
<1>7. QED
  BY <1>2, <1>3, <1>4, <1>5, <1>6

LEMMA ReturnsTyped ==
  ASSUME Typed, NEW c \in Calls, call[c].pc # "idle", Returns(c)
  PROVE  call' \in [Calls -> Call] /\ \A d \in Calls : Fits(call'[d])
BY ReturnedTyped, CallStep DEF Returns

LEMMA MoveStep ==
  ASSUME Typed, NEW c \in Calls, NEW k, k \in Call /\ Fits(k), call' = [call EXCEPT ![c] = k],
         UNCHANGED <<begun, session, rows, alive, reconciled, history>>
  PROVE  Typed'
<1>1. call' \in [Calls -> Call] /\ \A d \in Calls : Fits(call'[d])
  BY CallStep
<1>2. QED
  BY <1>1 DEF Typed, TypeOK, history

\* The steps that look for a session, open one and read its row.
LEMMA LocateTyped ==
  ASSUME Typed, NEW c \in Calls, FindOwn(c) \/ Open(c) \/ ReadRow(c)
  PROVE  Typed'
<1> DEFINE j == call[c]
<1>1. j \in Call /\ Fits(j) /\ call \in [Calls -> Call]
  BY CallTyped DEF Typed, TypeOK
<1>2. j.queue \in SUBSET Sessions /\ j = [j EXCEPT !.queue = j.queue]
  <2> HIDE DEF j
  <2>1. QED
    BY <1>1 DEF Call
<1>3. CASE FindOwn(c)
  <2>1. j.pc # "idle" /\ ActiveOf("implicit", KeyOf(j.by)) \subseteq Sessions
    BY <1>3 DEF FindOwn, At, ActiveOf
  <2>2. ASSUME NEW s \in Sessions, call' = [call EXCEPT ![c].pc = "row", ![c].session = s]
        PROVE  Typed'
    <3> DEFINE k == [j EXCEPT !.pc = "row", !.session = s, !.queue = j.queue]
    <3>1. k \in Call /\ Fits(k)
      BY <1>2, <2>1, MovedTyped
    <3>2. k = [j EXCEPT !.pc = "row", !.session = s]
      BY <1>2
    <3>3. call' = [call EXCEPT ![c] = k]
      BY <1>1, <2>2, <3>2
    <3> HIDE DEF k
    <3>4. QED
      BY <1>3, <3>1, <3>3, MoveStep DEF FindOwn
  <2>3. CASE j.does = "capture" /\ Goes(c, "open")
    <3> DEFINE k == [j EXCEPT !.pc = "open"]
    <3>1. k \in Call /\ Fits(k)
      BY <2>1, <2>3, MovedTyped
    <3>2. call' = [call EXCEPT ![c] = k]
      BY <1>1, <2>3 DEF Goes
    <3> HIDE DEF k
    <3>3. QED
      BY <1>3, <3>1, <3>2, MoveStep DEF FindOwn
  <2>4. CASE Returns(c)
    BY <1>3, <2>1, <2>4, ReturnedTyped, MoveStep DEF FindOwn, Returns
  <2>5. QED
    BY <1>3, <2>1, <2>2, <2>3, <2>4 DEF FindOwn
<1>4. CASE Open(c)
  <2>1. PICK s \in Sessions :
          /\ session' = [session EXCEPT ![s] = Opened("implicit", KeyOf(j.by))]
          /\ call' = [call EXCEPT ![c].pc = "row", ![c].session = s]
    BY <1>4 DEF Open
  <2>2. j.pc # "idle" /\ j.by \in Processes
    BY <1>1, <1>4 DEF Open, At, Fits
  <2>3. session' \in [Sessions -> Session]
    <3>1. Opened("implicit", KeyOf(j.by)) \in Session
      BY <2>2, KeyTyped, OpenedTyped
    <3>2. QED
      BY <2>1, <3>1 DEF Typed, TypeOK
  <2>4. call' \in [Calls -> Call] /\ \A d \in Calls : Fits(call'[d])
    <3> DEFINE k == [j EXCEPT !.pc = "row", !.session = s, !.queue = j.queue]
    <3>1. k \in Call /\ Fits(k)
      BY <1>2, <2>2, MovedTyped
    <3>2. k = [j EXCEPT !.pc = "row", !.session = s]
      BY <1>2
    <3>3. call' = [call EXCEPT ![c] = k]
      BY <1>1, <2>1, <3>2
    <3> HIDE DEF k
    <3>4. QED
      BY <3>1, <3>3, CallStep
  <2>5. QED
    BY <1>4, <2>3, <2>4 DEF Open, Typed, TypeOK, history
<1>5. CASE ReadRow(c)
  <2>1. j.pc = "row" /\ j.session \in Sessions
    BY <1>1, <1>5 DEF ReadRow, At, Fits, Located
  <2>2. session[j.session].captures \in SUBSET Items /\ j.items \in SUBSET Items
    BY <1>1, <2>1 DEF Typed, TypeOK, Session, Call
  <2>3. CASE Returns(c)
    BY <1>5, <2>1, <2>3, ReturnedTyped, MoveStep DEF ReadRow, Returns
  <2>4. ASSUME NEW pc \in {"decide", "defer"}, j.does = "capture",
               pc = "defer" => j.item \notin Decisions,
               call' = [call EXCEPT ![c].pc = pc, ![c].items = session[j.session].captures]
        PROVE  Typed'
    <3> DEFINE k == [j EXCEPT !.pc = pc, !.items = session[j.session].captures]
    <3>1. k \in Call /\ Fits(k)
      BY <2>1, <2>2, <2>4, MovedTyped
    <3>2. call' = [call EXCEPT ![c] = k]
      BY <1>1, <2>4
    <3> HIDE DEF k
    <3>3. QED
      BY <1>5, <3>1, <3>2, MoveStep DEF ReadRow
  <2>5. CASE j.does = "complete" /\ call' = [call EXCEPT ![c].pc = "batch",
                                            ![c].items = @ \cup session[j.session].captures]
    <3> DEFINE items == j.items \cup session[j.session].captures
               k == [j EXCEPT !.pc = "batch", !.items = items]
    <3>1. items \in SUBSET Items
      BY <2>2
    <3>2. k \in Call /\ Fits(k)
      BY <2>1, <2>5, <3>1, MovedTyped
    <3>3. call' = [call EXCEPT ![c] = k]
      BY <1>1, <2>5
    <3> HIDE DEF k
    <3>4. QED
      BY <1>5, <3>2, <3>3, MoveStep DEF ReadRow
  <2>6. QED
    BY <1>5, <2>3, <2>4, <2>5 DEF ReadRow
<1>6. QED
  BY <1>3, <1>4, <1>5

\* The captures.
LEMMA WriteTyped ==
  ASSUME Typed, NEW c \in Calls, Decide(c) \/ Defer(c)
  PROVE  Typed'
<1> DEFINE j == call[c]
           s == call[c].session
           i == call[c].item
<1>1. j \in Call /\ Fits(j) /\ j.pc \in {"decide", "defer"}
  BY CallTyped DEF Decide, Defer, At
<1>2. s \in Sessions /\ i \in Items /\ j.items \in SUBSET Items
  <2> HIDE DEF j
  <2>1. j.session \in Sessions /\ j.item \in Items /\ j.items \in SUBSET Items
    BY <1>1 DEF Fits, Located, Call
  <2>2. QED
    BY <2>1 DEF j
<1>3. call' \in [Calls -> Call] /\ \A d \in Calls : Fits(call'[d])
  BY <1>1, ReturnsTyped DEF Decide, Defer
<1>4. Touched(s) \in Session /\ session[s] \in Session
  BY <1>2, SessionTyped DEF Typed
<1>5. ASSUME NEW captures \in SUBSET Items
      PROVE  [session EXCEPT ![s] = [Touched(s) EXCEPT !.captures = captures]] \in [Sessions -> Session]
  <2>1. [Touched(s) EXCEPT !.captures = captures] \in Session
    BY <1>4 DEF Session
  <2>2. QED
    BY <1>2, <2>1 DEF Typed, TypeOK
<1>6. CASE Decide(c)
  <2>1. Touched(s).captures \cup {i} \in SUBSET Items
    BY <1>2, <1>4 DEF Session
  <2>2. session' \in [Sessions -> Session]
    BY <1>5, <1>6, <2>1 DEF Decide, Typed, TypeOK
  <2>3. rows' \in [Items \X Sessions -> Nat]
    BY <1>2, <1>6, RowsTyped DEF Decide, Typed, TypeOK
  <2>4. QED
    BY <1>2, <1>3, <1>6, <2>2, <2>3 DEF Decide, Typed, TypeOK
<1>7. CASE Defer(c)
  <2>1. session' \in [Sessions -> Session]
    BY <1>2, <1>5, <1>7 DEF Defer
  <2>2. acknowledged' \subseteq Items \X Sessions /\ undisturbed' \subseteq acknowledged'
    BY <1>2, <1>7 DEF Defer, Typed, TypeOK
  <2>3. QED
    BY <1>3, <1>7, <2>1, <2>2 DEF Defer, Typed, TypeOK
<1>8. QED
  BY <1>6, <1>7

\* The steps of a completion.
LEMMA CompletionTyped ==
  ASSUME Typed, NEW c \in Calls,
         RecordDecisions(c) \/ CloseSession(c) \/ SeekStep(c) \/ InsertStep(c)
  PROVE  Typed'
<1> DEFINE j == call[c]
           s == call[c].session
<1>1. /\ j \in Call /\ Fits(j) /\ call \in [Calls -> Call]
      /\ j.pc \in {"batch", "close", "embedding", "seek", "insertStep"}
  BY CallTyped DEF RecordDecisions, CloseSession, SeekStep, InsertStep, At, Typed, TypeOK
<1>2. s \in Sessions /\ j.items \in SUBSET Items /\ j.does = "complete"
  <2> HIDE DEF j
  <2>1. j.session \in Sessions /\ j.items \in SUBSET Items /\ j.does = "complete"
    BY <1>1 DEF Fits, Located, Call
  <2>2. QED
    BY <2>1 DEF j
<1>3. Touched(s) \in Session /\ session[s] \in Session
  BY <1>2, SessionTyped DEF Typed
<1>4. ASSUME NEW items \in SUBSET Items, NEW pc \in {"batch", "embedding", "close", "seek"},
             call' = [call EXCEPT ![c] = [j EXCEPT !.pc = pc, !.items = items]]
      PROVE  call' \in [Calls -> Call] /\ \A d \in Calls : Fits(call'[d])
  <2> DEFINE k == [j EXCEPT !.pc = pc, !.items = items]
  <2>1. k \in Call /\ Fits(k)
    BY <1>1, <1>2, MovedTyped
  <2>2. call' = [call EXCEPT ![c] = k]
    BY <1>4
  <2> HIDE DEF k
  <2>3. QED
    BY <2>1, <2>2, CallStep
<1>5. CASE RecordDecisions(c)
  <2>1. rows' \in [Items \X Sessions -> Nat]
    BY <1>2, <1>5, RowsTyped DEF RecordDecisions, Typed, TypeOK
  <2>2. session' \in [Sessions -> Session]
    BY <1>2, <1>3, <1>5 DEF RecordDecisions, Typed, TypeOK
  <2>3. PICK pc \in {"close", "embedding"} : Goes(c, pc)
    BY <1>5 DEF RecordDecisions
  <2>4. call' = [call EXCEPT ![c] = [j EXCEPT !.pc = pc, !.items = j.items]]
    <3>1. call' = [call EXCEPT ![c] = [j EXCEPT !.pc = pc]]
      BY <1>1, <2>3 DEF Goes
    <3>2. [j EXCEPT !.pc = pc] = [j EXCEPT !.pc = pc, !.items = j.items]
      <4> HIDE DEF j
      <4>1. QED
        BY <1>1 DEF Call
    <3>3. QED
      BY <3>1, <3>2
  <2>5. call' \in [Calls -> Call] /\ \A d \in Calls : Fits(call'[d])
    BY <1>2, <1>4, <2>4
  <2>6. QED
    BY <1>5, <2>1, <2>2, <2>5 DEF RecordDecisions, Typed, TypeOK, history
<1>6. CASE CloseSession(c)
  <2>1. session' \in [Sessions -> Session]
    <3>1. [session[s] EXCEPT !.status = "completed"] \in Session
      BY <1>3 DEF Session
    <3>2. session' = [session EXCEPT ![s] = [session[s] EXCEPT !.status = "completed"]]
      BY <1>2, <1>6 DEF CloseSession, Typed, TypeOK
    <3>3. QED
      BY <1>2, <3>1, <3>2 DEF Typed, TypeOK
  <2>2. call' = [call EXCEPT ![c] = [j EXCEPT !.pc = "seek", !.items = j.items \cap Steps]]
    BY <1>1, <1>6 DEF CloseSession
  <2>3. call' \in [Calls -> Call] /\ \A d \in Calls : Fits(call'[d])
    BY <1>2, <1>4, <2>2
  <2>4. QED
    BY <1>6, <2>1, <2>3 DEF CloseSession, Typed, TypeOK, history
<1>7. CASE SeekStep(c)
  <2>1. CASE Returns(c)
    BY <1>1, <1>7, <2>1, ReturnedTyped, MoveStep DEF SeekStep, Returns
  <2>2. ASSUME NEW i \in j.items, call' = [call EXCEPT ![c].items = @ \ {i}]
        PROVE  Typed'
    <3>1. j.pc = "seek"
      BY <1>7 DEF SeekStep, At
    <3>2. [j EXCEPT !.items = j.items \ {i}] = [j EXCEPT !.pc = "seek", !.items = j.items \ {i}]
      <4> HIDE DEF j
      <4>1. QED
        BY <1>1, <3>1 DEF Call
    <3>3. call' = [call EXCEPT ![c] = [j EXCEPT !.pc = "seek", !.items = j.items \ {i}]]
      BY <1>1, <2>2, <3>2
    <3>4. call' \in [Calls -> Call] /\ \A d \in Calls : Fits(call'[d])
      BY <1>2, <1>4, <3>3
    <3>5. QED
      BY <1>7, <3>4 DEF SeekStep, Typed, TypeOK, history
  <2>3. ASSUME NEW i \in j.items, call' = [call EXCEPT ![c].pc = "insertStep", ![c].item = i]
        PROVE  Typed'
    <3> DEFINE k == [j EXCEPT !.pc = "insertStep", !.item = i]
    <3>1. k \in Call /\ Fits(k)
      BY <1>1, <1>2, MovedTyped
    <3>2. call' = [call EXCEPT ![c] = k]
      BY <1>1, <2>3
    <3> HIDE DEF k
    <3>3. QED
      BY <1>7, <3>1, <3>2, MoveStep DEF SeekStep
  <2>4. QED
    BY <1>7, <2>1, <2>2, <2>3 DEF SeekStep
<1>8. CASE InsertStep(c)
  <2>1. j.item \in Items
    <3> HIDE DEF j
    <3>1. j.pc = "insertStep"
      BY <1>8 DEF InsertStep, At, j
    <3>2. QED
      BY <1>1, <1>2, <3>1 DEF Fits
  <2>2. rows' \in [Items \X Sessions -> Nat]
    BY <1>2, <1>8, <2>1 DEF InsertStep, Typed, TypeOK
  <2>3. call' \in [Calls -> Call] /\ \A d \in Calls : Fits(call'[d])
    <3> DEFINE items == j.items \ {j.item}
               k == [j EXCEPT !.pc = "seek", !.item = None, !.items = items]
    <3>1. k \in Call /\ Fits(k)
      BY <1>1, <1>2, MovedTyped
    <3>2. call' = [call EXCEPT ![c] = k]
      BY <1>1, <1>8 DEF InsertStep
    <3> HIDE DEF k
    <3>3. QED
      BY <3>1, <3>2, CallStep
  <2>4. QED
    BY <1>8, <2>2, <2>3 DEF InsertStep, Typed, TypeOK, history
<1>9. QED
  BY <1>5, <1>6, <1>7, <1>8

\* The automatic closes, and what they were for.
LEMMA AutomaticTyped ==
  ASSUME Typed, NEW c \in Calls,
         \/ Reconcile(c) \/ CloseNext(c) \/ FinishReconcile(c)
         \/ StartExplicit(c) \/ InsertExplicit(c)
  PROVE  Typed'
<1> DEFINE j == call[c]
<1>1. /\ j \in Call /\ Fits(j) /\ call \in [Calls -> Call]
      /\ j.pc \in {"reconcile", "closing", "insert"}
  BY CallTyped DEF Reconcile, CloseNext, FinishReconcile, StartExplicit, InsertExplicit,
                   Closed, At, Typed, TypeOK
<1>2. j.queue \in SUBSET Sessions /\ j.by \in Processes
  <2> HIDE DEF j
  <2>1. QED
    BY <1>1 DEF Fits, Call
<1>3. CASE Reconcile(c)
  <2>1. ImplicitSessionsToClose(j.by) \in SUBSET Sessions
    BY DEF ImplicitSessionsToClose
  <2>2. call' \in [Calls -> Call] /\ \A d \in Calls : Fits(call'[d])
    BY <1>2, <1>3, <2>1, CloseEachTyped DEF Reconcile
  <2>3. QED
    BY <1>3, <2>2 DEF Reconcile, Typed, TypeOK, history
<1>4. CASE CloseNext(c)
  <2>1. PICK s \in j.queue :
          call' = [call EXCEPT ![c].pc = "row", ![c].session = s, ![c].queue = @ \ {s}]
    BY <1>4 DEF CloseNext
  <2> DEFINE queue == j.queue \ {s}
             k == [j EXCEPT !.pc = "row", !.session = s, !.queue = queue]
  <2>2. k \in Call /\ Fits(k)
    BY <1>1, <1>2, MovedTyped
  <2>3. call' = [call EXCEPT ![c] = k]
    BY <1>1, <2>1
  <2> HIDE DEF k
  <2>4. QED
    BY <1>4, <2>2, <2>3, MoveStep DEF CloseNext
<1>5. CASE FinishReconcile(c)
  <2>1. call' \in [Calls -> Call] /\ \A d \in Calls : Fits(call'[d])
    BY <1>5, IdleCallTyped, CallStep DEF FinishReconcile
  <2>2. QED
    BY <1>2, <1>5, <2>1 DEF FinishReconcile, Typed, TypeOK, history
<1>6. CASE StartExplicit(c)
  <2>1. CASE call' = [call EXCEPT ![c] = IdleCall]
    BY <1>6, <2>1, IdleCallTyped, MoveStep DEF StartExplicit
  <2>2. CASE Goes(c, "insert")
    <3> DEFINE k == [j EXCEPT !.pc = "insert"]
    <3>1. k \in Call /\ Fits(k)
      BY <1>1, MovedTyped
    <3>2. call' = [call EXCEPT ![c] = k]
      BY <1>1, <2>2 DEF Goes
    <3> HIDE DEF k
    <3>3. QED
      BY <1>6, <3>1, <3>2, MoveStep DEF StartExplicit
  <2>3. QED
    BY <1>6, <2>1, <2>2 DEF StartExplicit
<1>7. CASE InsertExplicit(c)
  <2> DEFINE owner == IF j.by \in Linked THEN Harness ELSE None
  <2>1. Opened("explicit", owner) \in Session
    BY OpenedTyped
  <2>2. PICK s \in Sessions : session' = [session EXCEPT ![s] = Opened("explicit", owner)]
    BY <1>7 DEF InsertExplicit
  <2> HIDE DEF owner
  <2>3. session' \in [Sessions -> Session]
    BY <2>1, <2>2 DEF Typed, TypeOK
  <2>4. call' \in [Calls -> Call] /\ \A d \in Calls : Fits(call'[d])
    BY <1>7, IdleCallTyped, CallStep DEF InsertExplicit
  <2>5. QED
    BY <1>7, <2>3, <2>4 DEF InsertExplicit, Typed, TypeOK, history
<1>8. QED
  BY <1>3, <1>4, <1>5, <1>6, <1>7

\* The end of a process, and the passing of time.
LEMMA CallsWithoutTyped ==
  ASSUME Typed, NEW p
  PROVE  CallsWithout(p) \in [Calls -> Call] /\ \A d \in Calls : Fits(CallsWithout(p)[d])
<1>1. \A d \in Calls : CallsWithout(p)[d] \in {IdleCall, call[d]}
  BY DEF CallsWithout
<1>2. QED
  BY <1>1, IdleCallTyped DEF Typed, TypeOK, CallsWithout

LEMMA EndTyped ==
  ASSUME Typed,
         \/ \E c \in Calls : Exit(c)
         \/ \E p \in Processes : Crash(p)
         \/ \E s \in Sessions : GoIdle(s)
  PROVE  Typed'
<1>1. ASSUME NEW c \in Calls, Exit(c) PROVE Typed'
  BY <1>1, CallsWithoutTyped DEF Exit, Typed, TypeOK, history
<1>2. ASSUME NEW p \in Processes, Crash(p) PROVE Typed'
  BY <1>2, CallsWithoutTyped DEF Crash, Typed, TypeOK, history
<1>3. ASSUME NEW s \in Sessions, GoIdle(s) PROVE Typed'
  <2>1. [session[s] EXCEPT !.rest = "idle"] \in Session
    BY SessionTyped DEF Typed, Session
  <2>2. session' = [session EXCEPT ![s] = [session[s] EXCEPT !.rest = "idle"]]
    BY <1>3 DEF GoIdle
  <2>3. QED
    BY <1>3, <2>1, <2>2 DEF GoIdle, Typed, TypeOK, history
<1>4. QED
  BY <1>1, <1>2, <1>3

LEMMA TypedStep == Typed /\ [Next]_vars => Typed'
<1> SUFFICES ASSUME Typed, [Next]_vars PROVE Typed'
  OBVIOUS
<1>1. CASE UNCHANGED vars
  BY <1>1 DEF vars, Typed, TypeOK
<1>2. CASE Next
  BY <1>2, BeginTyped, LocateTyped, WriteTyped, CompletionTyped, AutomaticTyped, EndTyped DEF Next
<1>3. QED
  BY <1>1, <1>2

\* The tables, the calls in flight and the histories are well formed at every
\* step, and a call has found what it needs where it is.
THEOREM TypeCorrect == Spec => []TypeOK
<1>1. Typed => TypeOK
  BY DEF Typed
<1>2. QED
  BY <1>1, TypedInit, TypedStep, PTL DEF Spec

-----------------------------------------------------------------------------
(* What nothing overlapped is kept.                                        *)

\* Next step n of session s is in the row, in what every call at work on s has
\* read of it, and among the rows once all its closers are done.
KeptAt(n, s) ==
  /\ session[s].status # "absent"
  /\ n \in session[s].captures
  /\ \A c \in Calls : HoldsCaptures(c, s) => n \in call[c].items
  /\ \A c \in Calls : Closing(c, s) => n \in call[c].items \/ rows[<<n, s>>] > 0
  /\ Settled(s) /\ s \notin torn => rows[<<n, s>>] > 0

Kept == \A n \in Steps, s \in Sessions : <<n, s>> \in undisturbed => KeptAt(n, s)

\* A step of call c alone keeps n, if what c holds afterwards has it.
LEMMA KeptStep ==
  ASSUME Typed, Typed', NEW n \in Steps, NEW s \in Sessions, KeptAt(n, s), NEW c \in Calls,
         \A d \in Calls \ {c} : call'[d] = call[d],
         HoldsCaptures(c, s)' => n \in call'[c].items,
         Closing(c, s)' => n \in call'[c].items \/ rows'[<<n, s>>] > 0,
         Closing(c, s) => Closing(c, s)' \/ rows'[<<n, s>>] > 0,
         n \in session'[s].captures,
         \/ session'[s].status = session[s].status
         \/ session'[s].status = "completed" /\ Closing(c, s)',
         rows'[<<n, s>>] >= rows[<<n, s>>],
         torn \subseteq torn'
  PROVE  KeptAt(n, s)'
<1>1. rows[<<n, s>>] \in Nat /\ rows'[<<n, s>>] \in Nat
  BY DEF Typed, TypeOK, Items
<1>2. \A d \in Calls \ {c} :
        /\ HoldsCaptures(d, s)' <=> HoldsCaptures(d, s)
        /\ Closing(d, s)' <=> Closing(d, s)
  BY DEF HoldsCaptures, Closing
<1>3. session'[s].status # "absent"
  BY DEF KeptAt
<1>4. \A d \in Calls : HoldsCaptures(d, s)' => n \in call'[d].items
  BY <1>2 DEF KeptAt
<1>5. \A d \in Calls : Closing(d, s)' => n \in call'[d].items \/ rows'[<<n, s>>] > 0
  BY <1>1, <1>2 DEF KeptAt
<1>6. Settled(s)' /\ s \notin torn' => rows'[<<n, s>>] > 0
  <2>1. SUFFICES ASSUME Settled(s)', s \notin torn', ~(rows'[<<n, s>>] > 0)
                 PROVE  FALSE
    OBVIOUS
  <2>2. ~Closing(c, s)' /\ session'[s].status = "completed"
    BY <2>1 DEF Settled
  <2>3. session[s].status = "completed" /\ ~Closing(c, s)
    BY <2>1, <2>2
  <2>4. \A d \in Calls : ~Closing(d, s)
    BY <1>2, <2>1, <2>3 DEF Settled
  <2>5. QED
    BY <1>1, <2>1, <2>3, <2>4 DEF Settled, KeptAt
<1>7. QED
  BY <1>3, <1>4, <1>5, <1>6 DEF KeptAt

\* A step after which c is not at work on any captures, and was not closing.
LEMMA KeptAway ==
  ASSUME Typed, Typed', NEW n \in Steps, NEW s \in Sessions, KeptAt(n, s), NEW c \in Calls,
         \A d \in Calls \ {c} : call'[d] = call[d],
         call'[c].pc \in {"idle", "own", "open", "row", "reconcile", "closing", "insert", "decide"},
         call[c].pc \notin {"seek", "insertStep"},
         session'[s] = session[s], rows' = rows, torn' = torn
  PROVE  KeptAt(n, s)'
<1>1. ~HoldsCaptures(c, s)' /\ ~Closing(c, s)' /\ ~Closing(c, s)
  BY DEF HoldsCaptures, Closing
<1>2. rows'[<<n, s>>] >= rows[<<n, s>>]
  BY DEF Typed, TypeOK, Items
<1>3. n \in session'[s].captures
  BY DEF KeptAt
<1>4. QED
  BY <1>1, <1>2, <1>3, KeptStep

LEMMA ReturnedAway ==
  ASSUME NEW c \in Calls, call \in [Calls -> Call], Returns(c)
  PROVE  /\ call'[c].pc \in {"idle", "reconcile", "closing"}
         /\ \A d \in Calls \ {c} : call'[d] = call[d]
<1>1. Returned(c).pc \in {"idle", "reconcile", "closing"}
  BY DEF Returned, IdleCall, Call
<1>2. QED
  BY <1>1 DEF Returns

LEMMA ResolveAway ==
  ASSUME NEW c \in Calls, call \in [Calls -> Call], NEW k \in Call, NEW named, Resolve(c, k, named)
  PROVE  /\ call'[c].pc \in {"own", "row"}
         /\ \A d \in Calls \ {c} : call'[d] = call[d]
<1>1. [k EXCEPT !.pc = "own"].pc = "own"
  BY DEF Call
<1>2. \A s : [k EXCEPT !.pc = "row", !.session = s].pc = "row"
  BY DEF Call
<1>3. CASE call' = [call EXCEPT ![c] = [k EXCEPT !.pc = "own"]]
  BY <1>1, <1>3
<1>4. ASSUME NEW s, call' = [call EXCEPT ![c] = [k EXCEPT !.pc = "row", !.session = s]]
      PROVE  /\ call'[c].pc = "row"
             /\ \A d \in Calls \ {c} : call'[d] = call[d]
  BY <1>2, <1>4
<1>5. QED
  BY <1>3, <1>4 DEF Resolve

LEMMA BeginKeeps ==
  ASSUME Typed, Typed', NEW n \in Steps, NEW s \in Sessions, KeptAt(n, s),
         NEW c \in Calls, NEW p \in Processes,
         \/ \E i \in Items, named \in Existing \cup {None} : Capture(c, p, i, named)
         \/ \E given \in Given, named \in Existing \cup {None} : Complete(c, p, given, named)
         \/ Start(c, p) \/ Leave(c, p) \/ EndHarnessSession(c, p)
  PROVE  KeptAt(n, s)'
<1>1. call[c].pc = "idle" /\ session' = session /\ rows' = rows /\ torn' = torn
  BY DEF Capture, Complete, Start, Leave, EndHarnessSession, Begins, history
<1>2. call \in [Calls -> Call]
  BY DEF Typed, TypeOK
<1>3. /\ call'[c].pc \in {"own", "row", "closing"}
      /\ \A d \in Calls \ {c} : call'[d] = call[d]
  <2>1. CASE \E i \in Items, named \in Existing \cup {None} : Capture(c, p, i, named)
    <3>1. ASSUME NEW i \in Items, NEW named, Capture(c, p, i, named)
          PROVE  /\ call'[c].pc \in {"own", "row"}
                 /\ \A d \in Calls \ {c} : call'[d] = call[d]
      <4>1. [IdleCall EXCEPT !.does = "capture", !.by = p, !.item = i] \in Call
        BY DEF IdleCall, Call
      <4>2. QED
        BY <1>2, <3>1, <4>1, ResolveAway DEF Capture
    <3>2. QED
      BY <2>1, <3>1
  <2>2. CASE \E given \in Given, named \in Existing \cup {None} : Complete(c, p, given, named)
    <3>1. ASSUME NEW given \in Given, NEW named, Complete(c, p, given, named)
          PROVE  /\ call'[c].pc \in {"own", "row"}
                 /\ \A d \in Calls \ {c} : call'[d] = call[d]
      <4>1. [IdleCall EXCEPT !.does = "complete", !.by = p, !.items = given] \in Call
        BY DEF IdleCall, Call, Given
      <4>2. QED
        BY <1>2, <3>1, <4>1, ResolveAway DEF Complete
    <3>2. QED
      BY <2>2, <3>1
  <2>3. CASE Start(c, p) \/ Leave(c, p) \/ EndHarnessSession(c, p)
    <3>1. PICK k : k.pc = "closing" /\ call' = [call EXCEPT ![c] = k]
      BY <2>3, ClosingCall
    <3>2. QED
      BY <1>2, <3>1
  <2>4. QED
    BY <2>1, <2>2, <2>3
<1>4. QED
  BY <1>1, <1>3, KeptAway

LEMMA LocateKeeps ==
  ASSUME Typed, Typed', NEW n \in Steps, NEW s \in Sessions, KeptAt(n, s),
         NEW c \in Calls, FindOwn(c) \/ Open(c) \/ ReadRow(c)
  PROVE  KeptAt(n, s)'
<1>1. call \in [Calls -> Call] /\ rows' = rows /\ torn' = torn
  BY DEF Typed, TypeOK, FindOwn, Open, ReadRow, history
<1>2. CASE FindOwn(c)
  <2>1. /\ call'[c].pc \in {"own", "open", "row", "idle", "reconcile", "closing"}
        /\ \A d \in Calls \ {c} : call'[d] = call[d]
    BY <1>1, <1>2, ReturnedAway DEF FindOwn, Goes, Call
  <2>2. QED
    BY <1>1, <1>2, <2>1, KeptAway DEF FindOwn, At
<1>3. CASE Open(c)
  <2>1. /\ call'[c].pc = "row"
        /\ \A d \in Calls \ {c} : call'[d] = call[d]
    <3>1. PICK t \in Sessions : call' = [call EXCEPT ![c].pc = "row", ![c].session = t]
      BY <1>3 DEF Open
    <3>2. [call[c] EXCEPT !.pc = "row", !.session = t].pc = "row"
      BY <1>1 DEF Call
    <3>3. call' = [call EXCEPT ![c] = [call[c] EXCEPT !.pc = "row", !.session = t]]
      BY <1>1, <3>1
    <3>4. QED
      BY <1>1, <3>2, <3>3
  <2>2. session'[s] = session[s]
    BY <1>3 DEF Open, KeptAt, Typed, TypeOK
  <2>3. QED
    BY <1>1, <1>3, <2>1, <2>2, KeptAway DEF Open, At
<1>4. CASE ReadRow(c)
  <2>1. session' = session /\ call[c].pc = "row"
    BY <1>4 DEF ReadRow, At
  <2>2. CASE Returns(c)
    BY <1>1, <2>1, <2>2, ReturnedAway, KeptAway
  <2>3. CASE call' = [call EXCEPT ![c].pc = IF call[c].item \in Decisions THEN "decide" ELSE "defer",
                                  ![c].items = session[call[c].session].captures]
    <3>1. /\ \A d \in Calls \ {c} : call'[d] = call[d]
          /\ call'[c].session = call[c].session
          /\ call'[c].items = session[call[c].session].captures
          /\ call'[c].pc \in {"decide", "defer"}
      BY <1>1, <2>3 DEF Call
    <3>2. HoldsCaptures(c, s)' => n \in call'[c].items
      BY <2>1, <3>1 DEF HoldsCaptures, KeptAt
    <3>3. ~Closing(c, s)' /\ ~Closing(c, s)
      BY <2>1, <3>1 DEF Closing
    <3>4. rows'[<<n, s>>] >= rows[<<n, s>>]
      BY <1>1 DEF Typed, TypeOK, Items
    <3>5. QED
      BY <1>1, <2>1, <3>1, <3>2, <3>3, <3>4, KeptStep DEF KeptAt
  <2>4. CASE call' = [call EXCEPT ![c].pc = "batch",
                                  ![c].items = @ \cup session[call[c].session].captures]
    <3>1. /\ \A d \in Calls \ {c} : call'[d] = call[d]
          /\ call'[c].session = call[c].session
          /\ call'[c].items = call[c].items \cup session[call[c].session].captures
          /\ call'[c].pc = "batch"
      BY <1>1, <2>4 DEF Call
    <3>2. HoldsCaptures(c, s)' => n \in call'[c].items
      BY <2>1, <3>1 DEF HoldsCaptures, KeptAt
    <3>3. ~Closing(c, s)' /\ ~Closing(c, s)
      BY <2>1, <3>1 DEF Closing
    <3>4. rows'[<<n, s>>] >= rows[<<n, s>>]
      BY <1>1 DEF Typed, TypeOK, Items
    <3>5. QED
      BY <1>1, <2>1, <3>1, <3>2, <3>3, <3>4, KeptStep DEF KeptAt
  <2>5. QED
    BY <1>4, <2>2, <2>3, <2>4 DEF ReadRow
<1>5. QED
  BY <1>2, <1>3, <1>4

LEMMA AutomaticKeeps ==
  ASSUME Typed, Typed', NEW n \in Steps, NEW s \in Sessions, KeptAt(n, s), NEW c \in Calls,
         \/ Reconcile(c) \/ CloseNext(c) \/ FinishReconcile(c)
         \/ StartExplicit(c) \/ InsertExplicit(c)
  PROVE  KeptAt(n, s)'
<1>1. /\ call \in [Calls -> Call] /\ rows' = rows /\ torn' = torn
      /\ call[c].pc \in {"reconcile", "closing", "insert"}
  BY DEF Typed, TypeOK, Reconcile, CloseNext, FinishReconcile, StartExplicit, InsertExplicit,
         Closed, At, history
<1>2. session'[s] = session[s]
  BY DEF Typed, TypeOK, KeptAt, Reconcile, CloseNext, FinishReconcile, StartExplicit, InsertExplicit
<1>3. /\ call'[c].pc \in {"idle", "closing", "row", "insert"}
      /\ \A d \in Calls \ {c} : call'[d] = call[d]
  <2>1. CASE Reconcile(c)
    BY <1>1, <2>1 DEF Reconcile, CloseEach, IdleCall
  <2>2. CASE CloseNext(c)
    <3> DEFINE k(t) == [call[c] EXCEPT !.pc = "row", !.session = t, !.queue = @ \ {t}]
    <3>1. PICK t \in call[c].queue :
            call' = [call EXCEPT ![c].pc = "row", ![c].session = t, ![c].queue = @ \ {t}]
      BY <2>2 DEF CloseNext
    <3>2. k(t).pc = "row"
      BY <1>1 DEF Call
    <3>3. call' = [call EXCEPT ![c] = k(t)]
      BY <1>1, <3>1
    <3>4. QED
      BY <1>1, <3>2, <3>3
  <2>3. CASE call' = [call EXCEPT ![c] = IdleCall]
    BY <1>1, <2>3 DEF IdleCall
  <2>4. CASE Goes(c, "insert")
    BY <1>1, <2>4 DEF Goes, Call
  <2>5. QED
    BY <2>1, <2>2, <2>3, <2>4 DEF FinishReconcile, StartExplicit, InsertExplicit
<1>4. QED
  BY <1>1, <1>2, <1>3, KeptAway

\* A capture of a decision adds to the row as it is; a capture of a next step
\* writes back what it has read, which has n.
LEMMA WriteKeeps ==
  ASSUME Typed, Typed', NEW n \in Steps, NEW s \in Sessions, KeptAt(n, s),
         NEW c \in Calls, Decide(c) \/ Defer(c)
  PROVE  KeptAt(n, s)'
<1> DEFINE t == call[c].session
           i == call[c].item
<1>1. call \in [Calls -> Call] /\ session \in [Sessions -> Session] /\ torn' = torn
  BY DEF Typed, TypeOK, Decide, Defer, history
<1>2. call[c].pc \in {"decide", "defer"} /\ t \in Sessions
  BY CallTyped DEF Decide, Defer, At, Fits, Located
<1>3. /\ call'[c].pc \in {"idle", "reconcile", "closing"}
      /\ \A d \in Calls \ {c} : call'[d] = call[d]
  BY <1>1, ReturnedAway DEF Decide, Defer
<1>4. ~HoldsCaptures(c, s)' /\ ~Closing(c, s)' /\ ~Closing(c, s)
  BY <1>2, <1>3 DEF HoldsCaptures, Closing
<1>5. /\ Touched(t).captures = session[t].captures
      /\ Touched(t).status = session[t].status
      /\ \A captures : /\ [Touched(t) EXCEPT !.captures = captures].captures = captures
                       /\ [Touched(t) EXCEPT !.captures = captures].status = session[t].status
  BY <1>1, <1>2 DEF Touched, Session
<1>6. CASE Decide(c)
  <2>1. rows'[<<n, s>>] >= rows[<<n, s>>]
    <3>1. <<n, s>> \in Items \X Sessions
      BY DEF Items
    <3>2. rows' = InsertMissing(t, {i}) \/ rows' = rows
      BY <1>6 DEF Decide
    <3>3. QED
      BY <1>2, <3>1, <3>2, RowsTyped DEF Typed, TypeOK
  <2>2. \/ session' = session
        \/ session' = [session EXCEPT ![t] = [Touched(t) EXCEPT !.captures = Touched(t).captures \cup {i}]]
    BY <1>6 DEF Decide
  <2>3. n \in session'[s].captures /\ session'[s].status = session[s].status
    <3> DEFINE w == [Touched(t) EXCEPT !.captures = session[t].captures \cup {i}]
    <3>1. n \in session[s].captures
      BY DEF KeptAt
    <3>2. w.captures = session[t].captures \cup {i} /\ w.status = session[t].status
      BY <1>5
    <3>3. w = [Touched(t) EXCEPT !.captures = Touched(t).captures \cup {i}]
      BY <1>5
    <3> HIDE DEF w
    <3>4. session' = session \/ session' = [session EXCEPT ![t] = w]
      BY <2>2, <3>3
    <3>5. session'[s] = session[s] \/ (t = s /\ session'[s] = w)
      <4>1. CASE session' = session
        BY <4>1
      <4>2. CASE session' = [session EXCEPT ![t] = w]
        BY <1>1, <4>2
      <4>3. QED
        BY <3>4, <4>1, <4>2
    <3>6. QED
      BY <3>1, <3>2, <3>5
  <2>4. QED
    BY <1>1, <1>3, <1>4, <2>1, <2>3, KeptStep
<1>7. CASE Defer(c)
  <2>1. session' = [session EXCEPT ![t] = [Touched(t) EXCEPT !.captures = call[c].items \cup {i}]]
    BY <1>7 DEF Defer
  <2>2. t = s => n \in call[c].items
    BY <1>7 DEF Defer, At, KeptAt, HoldsCaptures
  <2>3. n \in session'[s].captures /\ session'[s].status = session[s].status
    BY <1>1, <1>2, <1>5, <2>1, <2>2 DEF KeptAt
  <2>4. rows'[<<n, s>>] >= rows[<<n, s>>]
    BY <1>7 DEF Defer, Typed, TypeOK, Items
  <2>5. QED
    BY <1>1, <1>3, <1>4, <2>3, <2>4, KeptStep
<1>8. QED
  BY <1>6, <1>7

\* A completion inserts the steps it has read, one row each, before it is done.
LEMMA CompletionKeeps ==
  ASSUME Typed, Typed', NEW n \in Steps, NEW s \in Sessions, KeptAt(n, s), NEW c \in Calls,
         RecordDecisions(c) \/ CloseSession(c) \/ SeekStep(c) \/ InsertStep(c)
  PROVE  KeptAt(n, s)'
<1> DEFINE j == call[c]
           t == call[c].session
<1>1. /\ call \in [Calls -> Call] /\ session \in [Sessions -> Session] /\ torn' = torn
      /\ rows \in [Items \X Sessions -> Nat] /\ <<n, s>> \in Items \X Sessions
  BY DEF Typed, TypeOK, RecordDecisions, CloseSession, SeekStep, InsertStep, history, Items
<1>2. /\ j \in Call /\ t \in Sessions /\ j.items \in SUBSET Items
      /\ j.pc \in {"batch", "close", "embedding", "seek", "insertStep"}
  <2>1. j \in Call /\ Fits(j) /\ j.pc \in {"batch", "close", "embedding", "seek", "insertStep"}
    BY CallTyped DEF RecordDecisions, CloseSession, SeekStep, InsertStep, At
  <2> HIDE DEF j
  <2>2. j.session \in Sessions /\ j.items \in SUBSET Items
    BY <2>1 DEF Fits, Located, Call
  <2>3. QED
    BY <2>1, <2>2 DEF j
<1>3. CASE RecordDecisions(c)
  <2>1. PICK pc \in {"close", "embedding"} : Goes(c, pc)
    BY <1>3 DEF RecordDecisions
  <2>2. /\ \A d \in Calls \ {c} : call'[d] = call[d]
        /\ call'[c].pc = pc /\ call'[c].session = t /\ call'[c].items = j.items
    BY <1>1, <2>1 DEF Goes, Call
  <2>3. j.pc = "batch"
    BY <1>3 DEF RecordDecisions, At
  <2>4. HoldsCaptures(c, s)' => n \in call'[c].items
    BY <2>2, <2>3 DEF HoldsCaptures, KeptAt
  <2>5. ~Closing(c, s)' /\ ~Closing(c, s)
    BY <2>2, <2>3 DEF Closing
  <2>6. rows'[<<n, s>>] >= rows[<<n, s>>]
    BY <1>1, <1>2, <1>3, RowsTyped DEF RecordDecisions, Typed
  <2>7. Touched(t).captures = session[t].captures /\ Touched(t).status = session[t].status
    BY <1>1, <1>2 DEF Touched, Session
  <2>8. session' = session \/ session' = [session EXCEPT ![t] = Touched(t)]
    BY <1>3 DEF RecordDecisions
  <2>9. n \in session'[s].captures /\ session'[s].status = session[s].status
    BY <1>1, <2>7, <2>8 DEF KeptAt
  <2>10. QED
    BY <1>1, <2>2, <2>4, <2>5, <2>6, <2>9, KeptStep
<1>4. CASE CloseSession(c)
  <2>1. /\ \A d \in Calls \ {c} : call'[d] = call[d]
        /\ call'[c].pc = "seek" /\ call'[c].session = t /\ call'[c].items = j.items \cap Steps
    BY <1>1, <1>4 DEF CloseSession, Call
  <2>2. j.pc \in {"close", "embedding"}
    BY <1>4 DEF CloseSession, At
  <2>3. Closing(c, s)' => n \in call'[c].items
    BY <2>1, <2>2 DEF Closing, HoldsCaptures, KeptAt
  <2>4. ~HoldsCaptures(c, s)' /\ ~Closing(c, s) /\ (t = s => Closing(c, s)')
    BY <2>1, <2>2 DEF Closing, HoldsCaptures
  <2>5. /\ [session[t] EXCEPT !.status = "completed"].captures = session[t].captures
        /\ [session[t] EXCEPT !.status = "completed"].status = "completed"
    BY <1>1, <1>2 DEF Session
  <2>6. session' = [session EXCEPT ![t] = [session[t] EXCEPT !.status = "completed"]]
    BY <1>1, <1>2, <1>4 DEF CloseSession
  <2>7. /\ n \in session'[s].captures
        /\ \/ session'[s].status = session[s].status
           \/ session'[s].status = "completed" /\ Closing(c, s)'
    BY <1>1, <1>2, <2>4, <2>5, <2>6 DEF KeptAt
  <2>8. rows'[<<n, s>>] >= rows[<<n, s>>]
    BY <1>1, <1>4 DEF CloseSession
  <2>9. QED
    BY <1>1, <2>1, <2>3, <2>4, <2>7, <2>8, KeptStep
<1>5. CASE SeekStep(c)
  <2>1. j.pc = "seek" /\ session' = session /\ rows' = rows
    BY <1>5 DEF SeekStep, At
  <2>2. n \in session'[s].captures /\ session'[s].status = session[s].status
    BY <2>1 DEF KeptAt
  <2>3. rows'[<<n, s>>] >= rows[<<n, s>>] /\ ~HoldsCaptures(c, s)
    BY <1>1, <2>1 DEF HoldsCaptures
  <2>4. CASE j.items = {} /\ Returns(c)
    <3>1. /\ call'[c].pc \in {"idle", "reconcile", "closing"}
          /\ \A d \in Calls \ {c} : call'[d] = call[d]
      BY <1>1, <2>4, ReturnedAway
    <3>2. ~HoldsCaptures(c, s)' /\ ~Closing(c, s)'
      BY <3>1 DEF HoldsCaptures, Closing
    <3>3. Closing(c, s) => rows'[<<n, s>>] > 0
      BY <2>1, <2>4 DEF KeptAt
    <3>4. QED
      BY <1>1, <2>2, <2>3, <3>1, <3>2, <3>3, KeptStep
  <2>5. ASSUME NEW i \in j.items, rows[<<i, t>>] > 0,
               call' = [call EXCEPT ![c].items = @ \ {i}]
        PROVE  KeptAt(n, s)'
    <3>1. /\ \A d \in Calls \ {c} : call'[d] = call[d]
          /\ call'[c].pc = "seek" /\ call'[c].session = t /\ call'[c].items = j.items \ {i}
      BY <1>1, <2>1, <2>5 DEF Call
    <3>2. ~HoldsCaptures(c, s)' /\ (Closing(c, s)' <=> Closing(c, s))
      BY <2>1, <3>1 DEF HoldsCaptures, Closing
    <3>3. Closing(c, s)' => n \in call'[c].items \/ rows'[<<n, s>>] > 0
      BY <2>1, <2>5, <3>1, <3>2 DEF KeptAt, Closing
    <3>4. QED
      BY <1>1, <2>2, <2>3, <3>1, <3>2, <3>3, KeptStep
  <2>6. ASSUME NEW i \in j.items, call' = [call EXCEPT ![c].pc = "insertStep", ![c].item = i]
        PROVE  KeptAt(n, s)'
    <3>1. /\ \A d \in Calls \ {c} : call'[d] = call[d]
          /\ call'[c].pc = "insertStep" /\ call'[c].session = t /\ call'[c].items = j.items
      BY <1>1, <2>6 DEF Call
    <3>2. ~HoldsCaptures(c, s)' /\ (Closing(c, s)' <=> Closing(c, s))
      BY <2>1, <3>1 DEF HoldsCaptures, Closing
    <3>3. Closing(c, s)' => n \in call'[c].items \/ rows'[<<n, s>>] > 0
      BY <2>1, <3>1, <3>2 DEF KeptAt
    <3>4. QED
      BY <1>1, <2>2, <2>3, <3>1, <3>2, <3>3, KeptStep
  <2>7. QED
    BY <1>5, <2>4, <2>5, <2>6 DEF SeekStep
<1>6. CASE InsertStep(c)
  <2>1. j.pc = "insertStep" /\ session' = session /\ j.item \in j.items
    BY <1>6, CallTyped DEF InsertStep, At, Fits
  <2>2. /\ \A d \in Calls \ {c} : call'[d] = call[d]
        /\ call'[c].pc = "seek" /\ call'[c].session = t /\ call'[c].items = j.items \ {j.item}
    BY <1>1, <1>6 DEF InsertStep, Call
  <2>3. <<j.item, t>> \in Items \X Sessions
    BY <1>2, <2>1
  <2>4. /\ rows'[<<n, s>>] >= rows[<<n, s>>]
        /\ <<n, s>> = <<j.item, t>> => rows'[<<n, s>>] > 0
    BY <1>1, <1>6, <2>3 DEF InsertStep
  <2>5. ~HoldsCaptures(c, s)' /\ (Closing(c, s)' <=> Closing(c, s))
    BY <2>1, <2>2 DEF HoldsCaptures, Closing
  <2>6. Closing(c, s)' => n \in call'[c].items \/ rows'[<<n, s>>] > 0
    <3>1. SUFFICES ASSUME Closing(c, s)', n # j.item
                   PROVE  n \in call'[c].items \/ rows'[<<n, s>>] > 0
      BY <2>2, <2>4 DEF Closing
    <3>2. n \in j.items \/ rows[<<n, s>>] > 0
      BY <2>5, <3>1 DEF KeptAt
    <3>3. rows[<<n, s>>] \in Nat /\ rows'[<<n, s>>] \in Nat
      BY <1>1 DEF Typed, TypeOK
    <3>4. QED
      BY <2>2, <2>4, <3>1, <3>2, <3>3
  <2>7. n \in session'[s].captures /\ session'[s].status = session[s].status
    BY <2>1 DEF KeptAt
  <2>8. QED
    BY <1>1, <2>2, <2>4, <2>5, <2>6, <2>7, KeptStep
<1>7. QED
  BY <1>3, <1>4, <1>5, <1>6

LEMMA EndKeeps ==
  ASSUME Typed, Typed', NEW n \in Steps, NEW s \in Sessions, KeptAt(n, s),
         \/ \E c \in Calls : Exit(c)
         \/ \E p \in Processes : Crash(p)
         \/ \E t \in Sessions : GoIdle(t)
  PROVE  KeptAt(n, s)'
<1>1. ASSUME NEW p, call' = CallsWithout(p), session' = session, rows' = rows, torn \subseteq torn',
             \/ \A d \in Calls : call[d].by = p => ~Closing(d, s)
             \/ s \in torn'
      PROVE  KeptAt(n, s)'
  <2>1. \A d \in Calls : call'[d] = IF call[d].by = p THEN IdleCall ELSE call[d]
    BY <1>1 DEF CallsWithout
  <2>2. \A d \in Calls : /\ HoldsCaptures(d, s)' => HoldsCaptures(d, s) /\ call'[d] = call[d]
                         /\ Closing(d, s)' <=> Closing(d, s) /\ call[d].by # p
                         /\ Closing(d, s)' => call'[d] = call[d]
    BY <2>1 DEF HoldsCaptures, Closing, IdleCall
  <2>3. Settled(s)' /\ s \notin torn' => Settled(s) /\ s \notin torn
    BY <1>1, <2>2 DEF Settled
  <2>4. QED
    BY <1>1, <2>2, <2>3 DEF KeptAt
<1>2. ASSUME NEW c \in Calls, Exit(c) PROVE KeptAt(n, s)'
  <2>1. \A d \in Calls : call[d].by = call[c].by => ~Closing(d, s)
    BY <1>2 DEF Exit, Closed, At, LoopFree, Awaiting, Closing
  <2>2. QED
    BY <1>1, <1>2, <2>1 DEF Exit, history
<1>3. ASSUME NEW p \in Processes, Crash(p) PROVE KeptAt(n, s)'
  <2>1. (\A d \in Calls : call[d].by = p => ~Closing(d, s)) \/ s \in torn'
    BY <1>3 DEF Crash, Closing
  <2>2. QED
    BY <1>1, <1>3, <2>1 DEF Crash
<1>4. ASSUME NEW t \in Sessions, GoIdle(t) PROVE KeptAt(n, s)'
  <2>1. session \in [Sessions -> Session]
    BY DEF Typed, TypeOK
  <2>2. /\ [session[t] EXCEPT !.rest = "idle"].captures = session[t].captures
        /\ [session[t] EXCEPT !.rest = "idle"].status = session[t].status
    BY <2>1 DEF Session
  <2>3. session' = [session EXCEPT ![t] = [session[t] EXCEPT !.rest = "idle"]]
    BY <1>4 DEF GoIdle
  <2>4. session'[s].captures = session[s].captures /\ session'[s].status = session[s].status
    BY <2>1, <2>2, <2>3
  <2>5. UNCHANGED <<call, rows, torn>>
    BY <1>4 DEF GoIdle, history
  <2>6. QED
    BY <2>4, <2>5 DEF KeptAt, HoldsCaptures, Closing, Settled
<1>5. QED
  BY <1>2, <1>3, <1>4

\* A step other than a capture of n into s keeps what was undisturbed so.
LEMMA NextKeeps ==
  ASSUME Typed, Typed', Next, NEW n \in Steps, NEW s \in Sessions, KeptAt(n, s)
  PROVE  KeptAt(n, s)'
BY BeginKeeps, LocateKeeps, WriteKeeps, CompletionKeeps, AutomaticKeeps, EndKeeps DEF Next

\* Only a capture is answered as captured.
LEMMA CapturesAnswer ==
  ASSUME Next
  PROVE  \/ acknowledged' = acknowledged /\ undisturbed' = undisturbed
         \/ \E c \in Calls : Decide(c) /\ undisturbed' = undisturbed
         \/ \E c \in Calls : Defer(c)
<1> DEFINE Same == acknowledged' = acknowledged /\ undisturbed' = undisturbed
<1>1. ASSUME NEW c, NEW p, NEW named, \/ \E i \in Items : Capture(c, p, i, named)
                                      \/ \E given \in Given : Complete(c, p, given, named)
      PROVE  Same
  BY <1>1 DEF Capture, Complete, history
<1>2. ASSUME NEW c, NEW p, Start(c, p) \/ Leave(c, p) \/ EndHarnessSession(c, p) PROVE Same
  BY <1>2 DEF Start, Leave, EndHarnessSession, history
<1>3. ASSUME NEW c, FindOwn(c) \/ Open(c) \/ ReadRow(c) PROVE Same
  BY <1>3 DEF FindOwn, Open, ReadRow, history
<1>4. ASSUME NEW c, RecordDecisions(c) \/ CloseSession(c) \/ SeekStep(c) \/ InsertStep(c) PROVE Same
  BY <1>4 DEF RecordDecisions, CloseSession, SeekStep, InsertStep, history
<1>5. ASSUME NEW c, Reconcile(c) \/ CloseNext(c) \/ FinishReconcile(c) PROVE Same
  BY <1>5 DEF Reconcile, CloseNext, FinishReconcile, history
<1>6. ASSUME NEW c, StartExplicit(c) \/ InsertExplicit(c) \/ Exit(c) PROVE Same
  BY <1>6 DEF StartExplicit, InsertExplicit, Exit, history
<1>7. ASSUME NEW p, Crash(p) PROVE Same
  BY <1>7 DEF Crash, history
<1>8. ASSUME NEW t, GoIdle(t) PROVE Same
  BY <1>8 DEF GoIdle, history
<1>9. ASSUME NEW c, Decide(c) PROVE undisturbed' = undisturbed
  BY <1>9 DEF Decide
<1>10. QED
  BY <1>1, <1>2, <1>3, <1>4, <1>5, <1>6, <1>7, <1>8, <1>9 DEF Next

\* What an undisturbed capture has just written is in the row, which is open, and
\* nobody else is at work on it.
LEMMA CapturedKept ==
  ASSUME Typed, Typed', NEW n \in Steps, NEW s \in Sessions, Next,
         <<n, s>> \in undisturbed', <<n, s>> \notin undisturbed
  PROVE  KeptAt(n, s)'
<1>1. PICK c \in Calls : Defer(c)
  BY CapturesAnswer
<1> DEFINE t == call[c].session
           i == call[c].item
<1>2. /\ t = s /\ i = n /\ Active(s)
      /\ \A d \in Calls \ {c} : ~HoldsCaptures(d, s) /\ ~Closing(d, s)
  BY <1>1 DEF Defer
<1>3. call \in [Calls -> Call] /\ session \in [Sessions -> Session]
  BY DEF Typed, TypeOK
<1>4. /\ call'[c].pc \in {"idle", "reconcile", "closing"}
      /\ \A d \in Calls \ {c} : call'[d] = call[d]
  BY <1>1, <1>3, ReturnedAway DEF Defer
<1>5. \A d \in Calls : ~HoldsCaptures(d, s)' /\ ~Closing(d, s)'
  BY <1>2, <1>4 DEF HoldsCaptures, Closing
<1>6. session'[s] = [Touched(s) EXCEPT !.captures = call[c].items \cup {n}]
  BY <1>1, <1>2, <1>3 DEF Defer
<1>7. session'[s].status = "active" /\ n \in session'[s].captures
  BY <1>2, <1>3, <1>6 DEF Touched, Session, Active
<1>8. QED
  BY <1>5, <1>7 DEF KeptAt, Settled

\* A next step captured while no other call was at work on the captures of its
\* session stays in the session, and is a row once the session is closed, unless
\* the closer died on the way.
THEOREM UndisturbedStepsAreKept == Spec => []StepKeptUnlessOverlapped
<1> DEFINE Inv == Typed /\ Kept
<1>1. Init => Inv
  BY TypedInit DEF Init, Kept
<1>2. Inv /\ [Next]_vars => Inv'
  <2> SUFFICES ASSUME Inv, [Next]_vars PROVE Inv'
    OBVIOUS
  <2>1. Typed'
    BY TypedStep
  <2>2. CASE Next
    <3>1. ASSUME NEW n \in Steps, NEW s \in Sessions, <<n, s>> \in undisturbed'
          PROVE  KeptAt(n, s)'
      <4>1. CASE <<n, s>> \in undisturbed
        BY <2>1, <2>2, <4>1, NextKeeps DEF Kept
      <4>2. CASE <<n, s>> \notin undisturbed
        BY <2>1, <2>2, <3>1, <4>2, CapturedKept
      <4>3. QED
        BY <4>1, <4>2
    <3>2. QED
      BY <2>1, <3>1 DEF Kept
  <2>3. CASE UNCHANGED vars
    BY <2>1, <2>3 DEF vars, Kept, KeptAt, HoldsCaptures, Closing, Settled
  <2>4. QED
    BY <2>2, <2>3
<1>3. Inv => StepKeptUnlessOverlapped
  BY DEF Kept, KeptAt, StepKeptUnlessOverlapped
<1>4. QED
  BY <1>1, <1>2, <1>3, PTL DEF Spec

-----------------------------------------------------------------------------
(* One row for a decision.                                                 *)

\* What is left to extract are next steps: rows of decisions come from the
\* transactions alone, which look first.
StepsLeft == \A c \in Calls : call[c].pc \in {"seek", "insertStep"} => call[c].items \subseteq Steps

\* Where the steps of the actions that extract nothing lead to.
Elsewhere == {"idle", "own", "open", "row", "decide", "defer", "batch", "embedding", "close",
              "reconcile", "closing", "insert"}

LEMMA LeftStep ==
  ASSUME StepsLeft, NEW c \in Calls, \A d \in Calls \ {c} : call'[d] = call[d],
         call'[c].pc \in Elsewhere \/ call'[c].items \subseteq Steps
  PROVE  StepsLeft'
BY DEF StepsLeft, Elsewhere

LEMMA BeginElsewhere ==
  ASSUME Typed, NEW c \in Calls, NEW p \in Processes,
         \/ \E i \in Items, named \in Existing \cup {None} : Capture(c, p, i, named)
         \/ \E given \in Given, named \in Existing \cup {None} : Complete(c, p, given, named)
         \/ Start(c, p) \/ Leave(c, p) \/ EndHarnessSession(c, p)
  PROVE  /\ call'[c].pc \in Elsewhere
         /\ \A d \in Calls \ {c} : call'[d] = call[d]
<1>1. call \in [Calls -> Call]
  BY DEF Typed, TypeOK
<1>2. ASSUME NEW i \in Items, NEW named, Capture(c, p, i, named)
      PROVE  /\ call'[c].pc \in Elsewhere
             /\ \A d \in Calls \ {c} : call'[d] = call[d]
  <2>1. [IdleCall EXCEPT !.does = "capture", !.by = p, !.item = i] \in Call
    BY DEF IdleCall, Call
  <2>2. QED
    BY <1>1, <1>2, <2>1, ResolveAway DEF Capture, Elsewhere
<1>3. ASSUME NEW given \in Given, NEW named, Complete(c, p, given, named)
      PROVE  /\ call'[c].pc \in Elsewhere
             /\ \A d \in Calls \ {c} : call'[d] = call[d]
  <2>1. [IdleCall EXCEPT !.does = "complete", !.by = p, !.items = given] \in Call
    BY DEF IdleCall, Call, Given
  <2>2. QED
    BY <1>1, <1>3, <2>1, ResolveAway DEF Complete, Elsewhere
<1>4. ASSUME Start(c, p) \/ Leave(c, p) \/ EndHarnessSession(c, p)
      PROVE  /\ call'[c].pc \in Elsewhere
             /\ \A d \in Calls \ {c} : call'[d] = call[d]
  <2>1. PICK k : k.pc = "closing" /\ call' = [call EXCEPT ![c] = k]
    BY <1>4, ClosingCall
  <2>2. QED
    BY <1>1, <2>1 DEF Elsewhere
<1>5. QED
  BY <1>2, <1>3, <1>4

LEMMA LocateElsewhere ==
  ASSUME Typed, NEW c \in Calls, FindOwn(c) \/ Open(c) \/ ReadRow(c)
  PROVE  /\ call'[c].pc \in Elsewhere
         /\ \A d \in Calls \ {c} : call'[d] = call[d]
<1>1. call \in [Calls -> Call]
  BY DEF Typed, TypeOK
<1>2. CASE Returns(c)
  BY <1>1, <1>2, ReturnedAway DEF Elsewhere
<1>3. CASE Goes(c, "open")
  BY <1>1, <1>3 DEF Goes, Call, Elsewhere
<1>4. ASSUME NEW s, call' = [call EXCEPT ![c].pc = "row", ![c].session = s]
      PROVE  /\ call'[c].pc \in Elsewhere
             /\ \A d \in Calls \ {c} : call'[d] = call[d]
  <2>1. [call[c] EXCEPT !.pc = "row", !.session = s].pc = "row"
    BY <1>1 DEF Call
  <2>2. call' = [call EXCEPT ![c] = [call[c] EXCEPT !.pc = "row", !.session = s]]
    BY <1>1, <1>4
  <2>3. QED
    BY <1>1, <2>1, <2>2 DEF Elsewhere
<1>5. ASSUME NEW pc \in {"decide", "defer", "batch"}, NEW items,
             call' = [call EXCEPT ![c].pc = pc, ![c].items = items]
      PROVE  /\ call'[c].pc \in Elsewhere
             /\ \A d \in Calls \ {c} : call'[d] = call[d]
  <2>1. [call[c] EXCEPT !.pc = pc, !.items = items].pc = pc
    BY <1>1 DEF Call
  <2>2. call' = [call EXCEPT ![c] = [call[c] EXCEPT !.pc = pc, !.items = items]]
    BY <1>1, <1>5
  <2>3. QED
    BY <1>1, <2>1, <2>2 DEF Elsewhere
<1>6. CASE FindOwn(c)
  BY <1>2, <1>3, <1>4, <1>6 DEF FindOwn
<1>7. CASE Open(c)
  BY <1>4, <1>7 DEF Open
<1>8. CASE ReadRow(c)
  <2>1. CASE call' = [call EXCEPT ![c].pc = IF call[c].item \in Decisions THEN "decide" ELSE "defer",
                                  ![c].items = session[call[c].session].captures]
    BY <1>5, <2>1
  <2>2. CASE call' = [call EXCEPT ![c].pc = "batch",
                                  ![c].items = @ \cup session[call[c].session].captures]
    <3>1. call' = [call EXCEPT ![c].pc = "batch",
                               ![c].items = call[c].items \cup session[call[c].session].captures]
      BY <1>1, <2>2
    <3>2. QED
      BY <1>5, <3>1
  <2>3. QED
    BY <1>2, <1>8, <2>1, <2>2 DEF ReadRow
<1>9. QED
  BY <1>6, <1>7, <1>8

LEMMA AutomaticElsewhere ==
  ASSUME Typed, NEW c \in Calls,
         \/ Reconcile(c) \/ CloseNext(c) \/ FinishReconcile(c)
         \/ StartExplicit(c) \/ InsertExplicit(c) \/ Decide(c) \/ Defer(c) \/ RecordDecisions(c)
  PROVE  /\ call'[c].pc \in Elsewhere
         /\ \A d \in Calls \ {c} : call'[d] = call[d]
<1>1. call \in [Calls -> Call]
  BY DEF Typed, TypeOK
<1>2. CASE Reconcile(c)
  BY <1>1, <1>2 DEF Reconcile, CloseEach, IdleCall, Elsewhere
<1>3. CASE CloseNext(c)
  <2> DEFINE k(t) == [call[c] EXCEPT !.pc = "row", !.session = t, !.queue = @ \ {t}]
  <2>1. PICK t \in call[c].queue :
          call' = [call EXCEPT ![c].pc = "row", ![c].session = t, ![c].queue = @ \ {t}]
    BY <1>3 DEF CloseNext
  <2>2. k(t).pc = "row"
    BY <1>1 DEF Call
  <2>3. call' = [call EXCEPT ![c] = k(t)]
    BY <1>1, <2>1
  <2>4. QED
    BY <1>1, <2>2, <2>3 DEF Elsewhere
<1>4. CASE call' = [call EXCEPT ![c] = IdleCall]
  BY <1>1, <1>4 DEF IdleCall, Elsewhere
<1>5. ASSUME NEW pc \in {"insert", "close", "embedding"}, Goes(c, pc)
      PROVE  /\ call'[c].pc \in Elsewhere
             /\ \A d \in Calls \ {c} : call'[d] = call[d]
  BY <1>1, <1>5 DEF Goes, Call, Elsewhere
<1>6. CASE Decide(c) \/ Defer(c)
  BY <1>1, <1>6, ReturnedAway DEF Decide, Defer, Elsewhere
<1>7. QED
  BY <1>2, <1>3, <1>4, <1>5, <1>6
     DEF FinishReconcile, StartExplicit, InsertExplicit, RecordDecisions

\* The extraction goes on with a part of the steps it had.
LEMMA ExtractionLeaves ==
  ASSUME Typed, StepsLeft, NEW c \in Calls, CloseSession(c) \/ SeekStep(c) \/ InsertStep(c)
  PROVE  StepsLeft'
<1> DEFINE j == call[c]
<1>1. call \in [Calls -> Call] /\ j \in Call
  BY DEF Typed, TypeOK
<1>2. CASE CloseSession(c)
  <2>1. /\ \A d \in Calls \ {c} : call'[d] = call[d]
        /\ call'[c].items = j.items \cap Steps
    BY <1>1, <1>2 DEF CloseSession, Call
  <2>2. QED
    BY <2>1, LeftStep
<1>3. CASE InsertStep(c)
  <2>1. /\ \A d \in Calls \ {c} : call'[d] = call[d]
        /\ call'[c].items = j.items \ {j.item}
    BY <1>1, <1>3 DEF InsertStep, Call
  <2>2. QED
    BY <1>3, <2>1, LeftStep DEF StepsLeft, InsertStep, At
<1>4. CASE SeekStep(c)
  <2>1. j.items \subseteq Steps
    BY <1>4 DEF SeekStep, At, StepsLeft
  <2>2. CASE Returns(c)
    BY <1>1, <2>2, ReturnedAway, LeftStep DEF Elsewhere
  <2>3. ASSUME NEW i, call' = [call EXCEPT ![c].items = @ \ {i}]
        PROVE  StepsLeft'
    <3>1. /\ \A d \in Calls \ {c} : call'[d] = call[d]
          /\ call'[c].items = j.items \ {i}
      BY <1>1, <2>3 DEF Call
    <3>2. QED
      BY <2>1, <3>1, LeftStep
  <2>4. ASSUME NEW i, call' = [call EXCEPT ![c].pc = "insertStep", ![c].item = i]
        PROVE  StepsLeft'
    <3>1. /\ \A d \in Calls \ {c} : call'[d] = call[d]
          /\ call'[c].items = j.items
      BY <1>1, <2>4 DEF Call
    <3>2. QED
      BY <2>1, <3>1, LeftStep
  <2>5. QED
    BY <1>4, <2>2, <2>3, <2>4 DEF SeekStep
<1>5. QED
  BY <1>2, <1>3, <1>4

LEMMA StepsLeftKept ==
  ASSUME Typed, StepsLeft, Next
  PROVE  StepsLeft'
<1>1. ASSUME NEW p, call' = CallsWithout(p) PROVE StepsLeft'
  BY <1>1 DEF StepsLeft, CallsWithout, IdleCall
<1>2. CASE \E c \in Calls : Exit(c)
  BY <1>1, <1>2 DEF Exit
<1>3. CASE \E p \in Processes : Crash(p)
  BY <1>1, <1>3 DEF Crash
<1>4. CASE \E s \in Sessions : GoIdle(s)
  BY <1>4 DEF GoIdle, StepsLeft
<1>5. QED
  BY <1>2, <1>3, <1>4, BeginElsewhere, LocateElsewhere, AutomaticElsewhere, ExtractionLeaves,
     LeftStep DEF Next

\* The rows of a decision only go from none to one, and a capture of it is not
\* answered before.
LEMMA DecisionStep ==
  ASSUME Typed, StepsLeft, Next, NEW d \in Decisions, NEW s \in Sessions,
         rows[<<d, s>>] <= 1,
         <<d, s>> \in acknowledged => rows[<<d, s>>] = 1
  PROVE  /\ rows'[<<d, s>>] <= 1
         /\ <<d, s>> \in acknowledged' => rows'[<<d, s>>] = 1
<1>1. <<d, s>> \in Items \X Sessions /\ rows \in [Items \X Sessions -> Nat]
  BY DEF Typed, TypeOK, Items
<1>2. CASE UNCHANGED <<rows, acknowledged>>
  BY <1>2
<1>3. ASSUME NEW t, NEW texts
      PROVE  /\ InsertMissing(t, texts)[<<d, s>>] <= 1
             /\ rows[<<d, s>>] = 1 => InsertMissing(t, texts)[<<d, s>>] = 1
             /\ d \in texts /\ t = s => InsertMissing(t, texts)[<<d, s>>] = 1
  BY <1>1 DEF InsertMissing
<1>4. ASSUME NEW c \in Calls, Decide(c)
      PROVE  /\ rows'[<<d, s>>] <= 1
             /\ <<d, s>> \in acknowledged' => rows'[<<d, s>>] = 1
  <2>1. \/ UNCHANGED <<rows, acknowledged>>
        \/ /\ rows' = InsertMissing(call[c].session, {call[c].item})
           /\ acknowledged' = acknowledged \cup {<<call[c].item, call[c].session>>}
    BY <1>4 DEF Decide
  <2>2. QED
    BY <1>2, <1>3, <2>1
<1>5. ASSUME NEW c \in Calls, Defer(c)
      PROVE  /\ rows'[<<d, s>>] <= 1
             /\ <<d, s>> \in acknowledged' => rows'[<<d, s>>] = 1
  <2>1. <<d, s>> # <<call[c].item, call[c].session>>
    <3>1. call[c].item \notin Decisions
      BY <1>5, CallTyped DEF Defer, At, Fits
    <3>2. QED
      BY <3>1
  <2>2. QED
    BY <1>5, <2>1 DEF Defer
<1>6. ASSUME NEW c \in Calls, RecordDecisions(c)
      PROVE  /\ rows'[<<d, s>>] <= 1
             /\ <<d, s>> \in acknowledged' => rows'[<<d, s>>] = 1
  <2>1. rows' = InsertMissing(call[c].session, call[c].items \cap Decisions) /\ acknowledged' = acknowledged
    BY <1>6 DEF RecordDecisions, history
  <2>2. QED
    BY <1>3, <2>1
<1>7. ASSUME NEW c \in Calls, InsertStep(c)
      PROVE  /\ rows'[<<d, s>>] <= 1
             /\ <<d, s>> \in acknowledged' => rows'[<<d, s>>] = 1
  <2>1. call[c].item \in Steps
    BY <1>7, CallTyped DEF InsertStep, At, Fits, StepsLeft
  <2>2. d # call[c].item
    BY <2>1, NamesDiffer
  <2>3. rows'[<<d, s>>] = rows[<<d, s>>] /\ acknowledged' = acknowledged
    BY <1>1, <1>7, <2>2 DEF InsertStep, history
  <2>4. QED
    BY <2>3
<1>8. QED
  BY <1>2, <1>4, <1>5, <1>6, <1>7
     DEF Next, Capture, Complete, Start, Leave, EndHarnessSession, FindOwn, Open, ReadRow,
         CloseSession, SeekStep, Reconcile, CloseNext, FinishReconcile, StartExplicit,
         InsertExplicit, Exit, Crash, GoIdle, history

\* A decision that was answered as captured has exactly one row for its session.
THEOREM DecisionsAreRecordedOnce == Spec => []DecisionRecordedOnce
<1> DEFINE Inv == Typed /\ StepsLeft /\ DecisionRecordedOnce
<1>1. Init => Inv
  BY TypedInit DEF Init, IdleCall, StepsLeft, DecisionRecordedOnce, Items
<1>2. Inv /\ [Next]_vars => Inv'
  <2> SUFFICES ASSUME Inv, [Next]_vars PROVE Inv'
    OBVIOUS
  <2>1. Typed'
    BY TypedStep
  <2>2. CASE Next
    BY <2>1, <2>2, StepsLeftKept, DecisionStep DEF DecisionRecordedOnce
  <2>3. CASE UNCHANGED vars
    BY <2>1, <2>3 DEF vars, StepsLeft, DecisionRecordedOnce
  <2>4. QED
    BY <2>2, <2>3
<1>3. QED
  BY <1>1, <1>2, PTL DEF Spec

-----------------------------------------------------------------------------
(* Who opens a session, and who writes it.                                 *)

\* The calls of one process wait for each other, but at the awaits.
Alone ==
  \A c, d \in Calls : c # d /\ call[c].by = call[d].by =>
    call[c].pc \in Awaiting \/ call[d].pc \in Awaiting

\* A call about to open a session has found none of its process's own.
Opening ==
  \A c \in Calls : call[c].pc = "open" /\ call[c].by \notin Linked =>
    ActiveOf("implicit", call[c].by) = {}

\* s is no implicit session of a running process other than p.
Admits(s, p) ==
  session[s].kind = "implicit" /\ session[s].owner \in alive => session[s].owner = KeyOf(p)

\* What a call that will write to its session has read of it, as far as it lasts.
Granted(k) ==
  /\ k.pc \in {"decide", "defer"} =>
       session[k.session].status # "absent" /\ Admits(k.session, k.by)
  /\ k.pc \in {"batch", "embedding", "close"} =>
       /\ session[k.session].status # "absent"
       /\ Admits(k.session, k.by) \/ session[k.session].rest # "fresh"

Own == Alone /\ Opening /\ OneImplicitSession /\ \A c \in Calls : Granted(call[c])

\* What a step of call c does to the calls.
Turn(c) ==
  LET k == call'[c]
  IN /\ \A d \in Calls \ {c} : call'[d] = call[d]
     /\ k.pc # "idle" => LoopFree(k.by, c)
     /\ k.pc = "open" => ActiveOf("implicit", KeyOf(k.by)) = {}
     /\ k.pc \in {"decide", "defer"} =>
          /\ k.session \in Sessions /\ session' = session
          /\ Active(k.session) /\ ~HeldByAnotherProcess(k.session, k.by, "write")
     /\ k.pc = "decide" => k.item \in Decisions
     /\ k.pc \in {"batch", "embedding", "close"} =>
          \/ /\ k.session \in Sessions /\ session' = session
             /\ Active(k.session) /\ ~HeldByAnotherProcess(k.session, k.by, "complete")
          \/ call[c].pc = "batch" /\ k.session = call[c].session /\ k.by = call[c].by

Quiet == {"own", "row", "seek", "insertStep", "reconcile", "closing", "insert"}

\* A step to a point at which nothing has been granted.
LEMMA QuietTurn ==
  ASSUME Typed, NEW c \in Calls, NEW k, call' = [call EXCEPT ![c] = k],
         k.pc = "idle" \/ (k.pc \in Quiet /\ LoopFree(k.by, c))
  PROVE  Turn(c)
<1>1. call'[c] = k /\ \A d \in Calls \ {c} : call'[d] = call[d]
  BY DEF Typed, TypeOK
<1>2. QED
  BY <1>1 DEF Turn, Quiet

LEMMA ReturnsTurn ==
  ASSUME Typed, NEW c \in Calls, LoopFree(call[c].by, c), Returns(c)
  PROVE  Turn(c)
<1>1. call[c] \in Call
  BY CallTyped
<1>2. Returned(c).pc = "idle" \/ (Returned(c).pc \in Quiet /\ Returned(c).by = call[c].by)
  <2>1. CASE Returned(c) = [IdleCall EXCEPT !.pc = "reconcile", !.by = call[c].by]
    BY <2>1 DEF IdleCall, Quiet
  <2>2. CASE Returned(c) = [call[c] EXCEPT !.pc = "closing", !.session = None, !.items = {}]
    BY <1>1, <2>2 DEF Call, Quiet
  <2>3. CASE Returned(c) = IdleCall
    BY <2>3 DEF IdleCall
  <2>4. QED
    BY <2>1, <2>2, <2>3 DEF Returned
<1>3. call'[c] = Returned(c) /\ \A d \in Calls \ {c} : call'[d] = call[d]
  BY DEF Returns, Typed, TypeOK
<1>4. QED
  BY <1>2, <1>3 DEF Turn, Quiet

LEMMA ResolveTurn ==
  ASSUME Typed, NEW c \in Calls, NEW k \in Call, NEW named, LoopFree(k.by, c), Resolve(c, k, named)
  PROVE  Turn(c)
<1>1. CASE call' = [call EXCEPT ![c] = [k EXCEPT !.pc = "own"]]
  <2> DEFINE j == [k EXCEPT !.pc = "own"]
  <2>1. j.pc = "own" /\ j.by = k.by
    BY DEF Call
  <2>2. call' = [call EXCEPT ![c] = j]
    BY <1>1
  <2> HIDE DEF j
  <2>3. QED
    BY <2>1, <2>2, QuietTurn DEF Quiet
<1>2. ASSUME NEW s, call' = [call EXCEPT ![c] = [k EXCEPT !.pc = "row", !.session = s]]
      PROVE  Turn(c)
  <2> DEFINE j == [k EXCEPT !.pc = "row", !.session = s]
  <2>1. j.pc = "row" /\ j.by = k.by
    BY DEF Call
  <2>2. call' = [call EXCEPT ![c] = j]
    BY <1>2
  <2> HIDE DEF j
  <2>3. QED
    BY <2>1, <2>2, QuietTurn DEF Quiet
<1>3. QED
  BY <1>1, <1>2 DEF Resolve

LEMMA BeginTurn ==
  ASSUME Typed, NEW c \in Calls, NEW p \in Processes,
         \/ \E i \in Items, named \in Existing \cup {None} : Capture(c, p, i, named)
         \/ \E given \in Given, named \in Existing \cup {None} : Complete(c, p, given, named)
         \/ Start(c, p) \/ Leave(c, p) \/ EndHarnessSession(c, p)
  PROVE  Turn(c)
<1>1. LoopFree(p, c)
  BY DEF Capture, Complete, Start, Leave, EndHarnessSession, Begins
<1>2. ASSUME NEW i \in Items, NEW named, Capture(c, p, i, named)
      PROVE  Turn(c)
  <2> DEFINE k == [IdleCall EXCEPT !.does = "capture", !.by = p, !.item = i]
  <2>1. k \in Call /\ k.by = p
    BY DEF IdleCall, Call
  <2>2. Resolve(c, k, named)
    BY <1>2 DEF Capture
  <2> HIDE DEF k
  <2>3. QED
    BY <1>1, <2>1, <2>2, ResolveTurn
<1>3. ASSUME NEW given \in Given, NEW named, Complete(c, p, given, named)
      PROVE  Turn(c)
  <2> DEFINE k == [IdleCall EXCEPT !.does = "complete", !.by = p, !.items = given]
  <2>1. k \in Call /\ k.by = p
    BY DEF IdleCall, Call, Given
  <2>2. Resolve(c, k, named)
    BY <1>3 DEF Complete
  <2> HIDE DEF k
  <2>3. QED
    BY <1>1, <2>1, <2>2, ResolveTurn
<1>4. CASE Start(c, p) \/ Leave(c, p) \/ EndHarnessSession(c, p)
  <2>1. PICK k : k.pc = "closing" /\ k.by = p /\ call' = [call EXCEPT ![c] = k]
    BY <1>4, ClosingCall
  <2>2. QED
    BY <1>1, <2>1, QuietTurn DEF Quiet
<1>5. QED
  BY <1>2, <1>3, <1>4

LEMMA LocateTurn ==
  ASSUME Typed, NEW c \in Calls, FindOwn(c) \/ Open(c) \/ ReadRow(c)
  PROVE  Turn(c)
<1>1. /\ LoopFree(call[c].by, c) /\ call \in [Calls -> Call] /\ call[c] \in Call
  BY CallTyped DEF FindOwn, Open, ReadRow, At, Typed, TypeOK
<1>2. ASSUME NEW s, call' = [call EXCEPT ![c].pc = "row", ![c].session = s]
      PROVE  Turn(c)
  <2>1. /\ call'[c].pc = "row" /\ call'[c].by = call[c].by
        /\ \A d \in Calls \ {c} : call'[d] = call[d]
    BY <1>1, <1>2 DEF Call
  <2>2. QED
    BY <1>1, <2>1 DEF Turn
<1>3. CASE FindOwn(c)
  <2>1. ASSUME ActiveOf("implicit", KeyOf(call[c].by)) = {}, Goes(c, "open")
        PROVE  Turn(c)
    <3>1. /\ call'[c].pc = "open" /\ call'[c].by = call[c].by
          /\ \A d \in Calls \ {c} : call'[d] = call[d]
      BY <1>1, <2>1 DEF Goes, Call
    <3>2. QED
      BY <1>1, <2>1, <3>1 DEF Turn
  <2>2. CASE Returns(c)
    BY <1>1, <2>2, ReturnsTurn
  <2>3. QED
    BY <1>2, <1>3, <2>1, <2>2 DEF FindOwn
<1>4. CASE Open(c)
  BY <1>2, <1>4 DEF Open
<1>5. CASE ReadRow(c)
  <2>1. session' = session /\ call[c].session \in Sessions
    BY <1>5, CallTyped DEF ReadRow, At, Fits, Located
  <2>2. CASE Returns(c)
    BY <1>1, <2>2, ReturnsTurn
  <2>3. CASE /\ ~Refused(c, "write")
             /\ call' = [call EXCEPT ![c].pc = IF call[c].item \in Decisions THEN "decide" ELSE "defer",
                                     ![c].items = session[call[c].session].captures]
    <3>1. /\ \A d \in Calls \ {c} : call'[d] = call[d]
          /\ call'[c].session = call[c].session /\ call'[c].by = call[c].by
          /\ call'[c].pc \in {"decide", "defer"}
          /\ call'[c].pc = "decide" => call'[c].item \in Decisions
      BY <1>1, <2>3 DEF Call
    <3>2. Active(call[c].session) /\ ~HeldByAnotherProcess(call[c].session, call[c].by, "write")
      BY <2>3 DEF Refused
    <3>3. QED
      BY <1>1, <2>1, <3>1, <3>2 DEF Turn
  <2>4. CASE /\ ~Refused(c, "complete")
             /\ call' = [call EXCEPT ![c].pc = "batch",
                                     ![c].items = @ \cup session[call[c].session].captures]
    <3>1. /\ \A d \in Calls \ {c} : call'[d] = call[d]
          /\ call'[c].session = call[c].session /\ call'[c].by = call[c].by
          /\ call'[c].pc = "batch"
      BY <1>1, <2>4 DEF Call
    <3>2. Active(call[c].session) /\ ~HeldByAnotherProcess(call[c].session, call[c].by, "complete")
      BY <2>4 DEF Refused
    <3>3. QED
      BY <1>1, <2>1, <3>1, <3>2 DEF Turn
  <2>5. QED
    BY <1>5, <2>2, <2>3, <2>4 DEF ReadRow
<1>6. QED
  BY <1>3, <1>4, <1>5

LEMMA WorkTurn ==
  ASSUME Typed, NEW c \in Calls,
         \/ Decide(c) \/ Defer(c)
         \/ RecordDecisions(c) \/ CloseSession(c) \/ SeekStep(c) \/ InsertStep(c)
  PROVE  Turn(c)
<1>1. /\ LoopFree(call[c].by, c) /\ call \in [Calls -> Call] /\ call[c] \in Call
  BY CallTyped DEF Decide, Defer, RecordDecisions, CloseSession, SeekStep, InsertStep, At, Typed, TypeOK
<1>2. CASE Returns(c)
  BY <1>1, <1>2, ReturnsTurn
<1>3. CASE RecordDecisions(c)
  <2>1. PICK pc \in {"close", "embedding"} : Goes(c, pc)
    BY <1>3 DEF RecordDecisions
  <2>2. /\ call'[c].pc = pc /\ call'[c].by = call[c].by /\ call'[c].session = call[c].session
        /\ \A d \in Calls \ {c} : call'[d] = call[d]
    BY <1>1, <2>1 DEF Goes, Call
  <2>3. call[c].pc = "batch"
    BY <1>3 DEF RecordDecisions, At
  <2>4. QED
    BY <1>1, <2>1, <2>2, <2>3 DEF Turn
<1>4. ASSUME NEW pc \in {"seek", "insertStep"}, NEW item, NEW items,
             \/ call' = [call EXCEPT ![c].pc = pc, ![c].items = items]
             \/ call' = [call EXCEPT ![c].pc = pc, ![c].item = item]
             \/ call' = [call EXCEPT ![c].pc = pc, ![c].item = item, ![c].items = items]
             \/ call[c].pc = pc /\ call' = [call EXCEPT ![c].items = items]
      PROVE  Turn(c)
  <2>1. /\ call'[c].pc = pc /\ call'[c].by = call[c].by
        /\ \A d \in Calls \ {c} : call'[d] = call[d]
    BY <1>1, <1>4 DEF Call
  <2>2. QED
    BY <1>1, <2>1 DEF Turn
<1>5. CASE CloseSession(c)
  BY <1>4, <1>5 DEF CloseSession
<1>6. CASE SeekStep(c)
  <2>1. call[c].pc = "seek"
    BY <1>6 DEF SeekStep, At
  <2>2. QED
    BY <1>2, <1>4, <1>6, <2>1 DEF SeekStep
<1>7. CASE InsertStep(c)
  BY <1>4, <1>7 DEF InsertStep
<1>8. QED
  BY <1>2, <1>3, <1>5, <1>6, <1>7 DEF Decide, Defer

LEMMA AutomaticTurn ==
  ASSUME Typed, NEW c \in Calls,
         \/ Reconcile(c) \/ CloseNext(c) \/ FinishReconcile(c)
         \/ StartExplicit(c) \/ InsertExplicit(c)
  PROVE  Turn(c)
<1>1. /\ LoopFree(call[c].by, c) /\ call \in [Calls -> Call] /\ call[c] \in Call
  BY CallTyped DEF Reconcile, CloseNext, FinishReconcile, StartExplicit, InsertExplicit,
                   Closed, At, Typed, TypeOK
<1>2. CASE call' = [call EXCEPT ![c] = IdleCall]
  <2>1. call'[c].pc = "idle" /\ \A d \in Calls \ {c} : call'[d] = call[d]
    BY <1>1, <1>2 DEF IdleCall
  <2>2. QED
    BY <2>1 DEF Turn
<1>3. CASE Reconcile(c)
  <2> DEFINE k == [IdleCall EXCEPT !.pc = "closing", !.does = "complete", !.by = call[c].by,
                      !.queue = ImplicitSessionsToClose(call[c].by), !.then = "reconciled"]
  <2>1. k.pc = "closing" /\ k.by = call[c].by
    BY DEF IdleCall
  <2>2. call' = [call EXCEPT ![c] = k]
    BY <1>3 DEF Reconcile, CloseEach
  <2> HIDE DEF k
  <2>3. QED
    BY <1>1, <2>1, <2>2, QuietTurn DEF Quiet
<1>4. CASE CloseNext(c)
  <2>1. PICK s \in call[c].queue :
          call' = [call EXCEPT ![c].pc = "row", ![c].session = s, ![c].queue = @ \ {s}]
    BY <1>4 DEF CloseNext
  <2>2. /\ call'[c].pc = "row" /\ call'[c].by = call[c].by
        /\ \A d \in Calls \ {c} : call'[d] = call[d]
    BY <1>1, <2>1 DEF Call
  <2>3. QED
    BY <1>1, <2>2 DEF Turn
<1>5. CASE Goes(c, "insert")
  <2>1. /\ call'[c].pc = "insert" /\ call'[c].by = call[c].by
        /\ \A d \in Calls \ {c} : call'[d] = call[d]
    BY <1>1, <1>5 DEF Goes, Call
  <2>2. QED
    BY <1>1, <2>1 DEF Turn
<1>6. QED
  BY <1>2, <1>3, <1>4, <1>5 DEF FinishReconcile, StartExplicit, InsertExplicit

LEMMA EndTurns ==
  ASSUME Typed,
         \/ \E c \in Calls : Exit(c)
         \/ \E p \in Processes : Crash(p)
         \/ \E s \in Sessions : GoIdle(s)
  PROVE  \A d \in Calls : call'[d] = call[d] \/ call'[d] = IdleCall
<1>1. ASSUME NEW p, call' = CallsWithout(p)
      PROVE  \A d \in Calls : call'[d] = call[d] \/ call'[d] = IdleCall
  BY <1>1 DEF CallsWithout
<1>2. QED
  BY <1>1 DEF Exit, Crash, GoIdle

LEMMA NextTurns ==
  ASSUME Typed, Next
  PROVE  \/ \E c \in Calls : Turn(c)
         \/ \A d \in Calls : call'[d] = call[d] \/ call'[d] = IdleCall
<1>1. CASE \E c \in Calls, p \in Processes, named \in Existing \cup {None} :
             \/ \E i \in Items : Capture(c, p, i, named)
             \/ \E given \in Given : Complete(c, p, given, named)
  BY <1>1, BeginTurn
<1>2. CASE \E c \in Calls, p \in Processes : Start(c, p) \/ Leave(c, p) \/ EndHarnessSession(c, p)
  BY <1>2, BeginTurn
<1>3. ASSUME NEW c \in Calls, FindOwn(c) \/ Open(c) \/ ReadRow(c) PROVE Turn(c)
  BY <1>3, LocateTurn
<1>4. ASSUME NEW c \in Calls, \/ Decide(c) \/ Defer(c) \/ RecordDecisions(c) \/ CloseSession(c)
                              \/ SeekStep(c) \/ InsertStep(c)
      PROVE  Turn(c)
  BY <1>4, WorkTurn
<1>5. ASSUME NEW c \in Calls, \/ Reconcile(c) \/ CloseNext(c) \/ FinishReconcile(c)
                              \/ StartExplicit(c) \/ InsertExplicit(c)
      PROVE  Turn(c)
  BY <1>5, AutomaticTurn
<1>6. CASE \/ \E c \in Calls : Exit(c)
           \/ \E p \in Processes : Crash(p)
           \/ \E s \in Sessions : GoIdle(s)
  BY <1>6, EndTurns
<1>7. QED
  BY <1>1, <1>2, <1>3, <1>4, <1>5, <1>6 DEF Next

\* What a step does to a row of the sessions table: it keeps kind and owner, it is
\* completed once, and it is new only where no row was.
RowMoves(s) ==
  /\ session[s].status # "absent" =>
       /\ session'[s].kind = session[s].kind /\ session'[s].owner = session[s].owner
       /\ \/ session'[s].status = session[s].status
          \/ /\ session'[s].status = "completed"
             /\ \E c \in Calls : CloseSession(c) /\ call[c].session = s
       /\ session[s].rest # "fresh" => session'[s].rest # "fresh"
       /\ \/ session'[s].captures = session[s].captures
          \/ \E c \in Calls : /\ call[c].session = s
                              /\ Defer(c) \/ (Decide(c) /\ ~Refused(c, "write"))
  /\ session[s].status = "absent" =>
       \/ session'[s].status = "absent" \/ session'[s].kind = "explicit"
       \/ \E c \in Calls : /\ Open(c) /\ session'[s] = Opened("implicit", KeyOf(call[c].by))
                           /\ \A t \in Sessions \ {s} : session'[t] = session[t]

LEMMA SameRow ==
  ASSUME NEW s \in Sessions, session'[s] = session[s]
  PROVE  RowMoves(s)
BY DEF RowMoves

\* An activity: a row keeps all but its time and perhaps its captures.
LEMMA TouchedRow ==
  ASSUME Typed, NEW s \in Sessions, NEW captures
  PROVE  /\ LET r == Touched(s)
            IN /\ r.kind = session[s].kind /\ r.owner = session[s].owner
               /\ r.status = session[s].status /\ r.captures = session[s].captures
               /\ session[s].rest # "fresh" => r.rest # "fresh"
         /\ LET r == [Touched(s) EXCEPT !.captures = captures]
            IN /\ r.kind = session[s].kind /\ r.owner = session[s].owner
               /\ r.status = session[s].status
               /\ session[s].rest # "fresh" => r.rest # "fresh"
<1>1. session[s] \in Session /\ Touched(s) \in Session
  BY SessionTyped DEF Typed
<1>2. LET r == Touched(s)
      IN /\ r.kind = session[s].kind /\ r.owner = session[s].owner
         /\ r.status = session[s].status /\ r.captures = session[s].captures
         /\ session[s].rest # "fresh" => r.rest # "fresh"
  BY <1>1 DEF Touched, Session
<1>3. LET r == [Touched(s) EXCEPT !.captures = captures]
      IN /\ r.kind = Touched(s).kind /\ r.owner = Touched(s).owner
         /\ r.status = Touched(s).status /\ r.rest = Touched(s).rest
  BY <1>1 DEF Session
<1>4. QED
  BY <1>2, <1>3

LEMMA WriteRow ==
  ASSUME Typed, NEW s \in Sessions, NEW c \in Calls, Decide(c) \/ Defer(c)
  PROVE  RowMoves(s)
<1>1. session \in [Sessions -> Session]
  BY DEF Typed, TypeOK
<1>2. CASE session' = session
  BY <1>2, SameRow
<1>3. ASSUME NEW captures, Defer(c) \/ (Decide(c) /\ ~Refused(c, "write")),
             session' = [session EXCEPT ![call[c].session] =
                           [Touched(call[c].session) EXCEPT !.captures = captures]]
      PROVE  RowMoves(s)
  <2>1. CASE call[c].session = s
    <3> DEFINE r == [Touched(s) EXCEPT !.captures = captures]
    <3>1. session'[s] = r
      BY <1>1, <1>3, <2>1
    <3>2. /\ r.kind = session[s].kind /\ r.owner = session[s].owner
          /\ r.status = session[s].status
          /\ session[s].rest # "fresh" => r.rest # "fresh"
      BY TouchedRow
    <3> HIDE DEF r
    <3>3. QED
      BY <1>3, <2>1, <3>1, <3>2 DEF RowMoves
  <2>2. CASE call[c].session # s
    BY <1>1, <1>3, <2>2, SameRow
  <2>3. QED
    BY <2>1, <2>2
<1>4. CASE Decide(c)
  BY <1>2, <1>3, <1>4 DEF Decide
<1>5. CASE Defer(c)
  BY <1>3, <1>5 DEF Defer
<1>6. QED
  BY <1>4, <1>5

LEMMA CompletionRow ==
  ASSUME Typed, Own, NEW s \in Sessions, NEW c \in Calls, RecordDecisions(c) \/ CloseSession(c)
  PROVE  RowMoves(s)
<1>1. session \in [Sessions -> Session] /\ session[s] \in Session
  BY DEF Typed, TypeOK
<1>2. CASE RecordDecisions(c)
  <2>1. CASE session' = session
    BY <2>1, SameRow
  <2>2. CASE session' = [session EXCEPT ![call[c].session] = Touched(call[c].session)]
    <3>1. session'[s] = session[s] \/ session'[s] = Touched(s)
      BY <1>1, <2>2
    <3>2. LET r == Touched(s)
          IN /\ r.kind = session[s].kind /\ r.owner = session[s].owner
             /\ r.status = session[s].status /\ r.captures = session[s].captures
             /\ session[s].rest # "fresh" => r.rest # "fresh"
      BY TouchedRow
    <3>3. CASE session'[s] = Touched(s)
      BY <3>2, <3>3 DEF RowMoves
    <3>4. QED
      BY <3>1, <3>3, SameRow
  <2>3. QED
    BY <1>2, <2>1, <2>2 DEF RecordDecisions
<1>3. CASE CloseSession(c)
  <2>1. session' = [session EXCEPT ![call[c].session].status = "completed"]
    BY <1>3 DEF CloseSession
  <2>2. CASE call[c].session = s
    <3>1. session'[s] = [session[s] EXCEPT !.status = "completed"]
      BY <1>1, <2>1, <2>2
    <3>2. /\ session'[s].kind = session[s].kind /\ session'[s].owner = session[s].owner
          /\ session'[s].rest = session[s].rest /\ session'[s].captures = session[s].captures
          /\ session'[s].status = "completed"
      BY <1>1, <3>1 DEF Session
    <3>3. session[s].status # "absent"
      BY <1>3, <2>2 DEF Own, Granted, CloseSession, At
    <3>4. QED
      BY <1>3, <2>2, <3>2, <3>3 DEF RowMoves
  <2>3. CASE call[c].session # s
    BY <1>1, <2>1, <2>3, SameRow
  <2>4. QED
    BY <2>2, <2>3
<1>4. QED
  BY <1>2, <1>3

\* New rows: an implicit one by Open, an explicit one by InsertExplicit.
LEMMA NewRow ==
  ASSUME Typed, NEW s \in Sessions, NEW c \in Calls, Open(c) \/ InsertExplicit(c)
  PROVE  RowMoves(s)
<1>1. session \in [Sessions -> Session]
  BY DEF Typed, TypeOK
<1>2. CASE Open(c)
  <2>1. PICK t \in Sessions :
          /\ session[t].status = "absent"
          /\ session' = [session EXCEPT ![t] = Opened("implicit", KeyOf(call[c].by))]
    BY <1>2 DEF Open
  <2>2. CASE t = s
    <3>1. /\ session'[s] = Opened("implicit", KeyOf(call[c].by))
          /\ \A r \in Sessions \ {s} : session'[r] = session[r]
      BY <1>1, <2>1, <2>2
    <3>2. QED
      BY <1>2, <2>1, <2>2, <3>1 DEF RowMoves
  <2>3. CASE t # s
    BY <1>1, <2>1, <2>3, SameRow
  <2>4. QED
    BY <2>2, <2>3
<1>3. CASE InsertExplicit(c)
  <2>1. PICK t \in Sessions, owner \in {Harness, None} :
          /\ session[t].status = "absent"
          /\ session' = [session EXCEPT ![t] = Opened("explicit", owner)]
    BY <1>3 DEF InsertExplicit
  <2>2. CASE t = s
    <3>1. session'[s].kind = "explicit"
      BY <1>1, <2>1, <2>2 DEF Opened, NoSession
    <3>2. QED
      BY <2>1, <2>2, <3>1 DEF RowMoves
  <2>3. CASE t # s
    BY <1>1, <2>1, <2>3, SameRow
  <2>4. QED
    BY <2>2, <2>3
<1>4. QED
  BY <1>2, <1>3

LEMMA IdleRow ==
  ASSUME Typed, NEW s \in Sessions, NEW t \in Sessions, GoIdle(t)
  PROVE  RowMoves(s)
<1>1. session \in [Sessions -> Session] /\ session[s] \in Session
  BY DEF Typed, TypeOK
<1>2. session' = [session EXCEPT ![t].rest = "idle"]
  BY DEF GoIdle
<1>3. CASE t = s
  <2>1. session'[s] = [session[s] EXCEPT !.rest = "idle"]
    BY <1>1, <1>2, <1>3
  <2>2. /\ session'[s].kind = session[s].kind /\ session'[s].owner = session[s].owner
        /\ session'[s].status = session[s].status /\ session'[s].captures = session[s].captures
        /\ session'[s].rest = "idle"
    BY <1>1, <2>1 DEF Session
  <2>3. QED
    BY <2>2 DEF RowMoves
<1>4. CASE t # s
  BY <1>1, <1>2, <1>4, SameRow
<1>5. QED
  BY <1>3, <1>4

LEMMA NextRows ==
  ASSUME Typed, Own, Next, NEW s \in Sessions
  PROVE  RowMoves(s)
<1>1. CASE session' = session
  BY <1>1, SameRow
<1>2. ASSUME NEW c \in Calls, NEW p \in Processes, NEW named,
             \/ \E i \in Items : Capture(c, p, i, named)
             \/ \E given \in Given : Complete(c, p, given, named)
             \/ Start(c, p) \/ Leave(c, p) \/ EndHarnessSession(c, p)
      PROVE  session' = session
  BY <1>2 DEF Capture, Complete, Start, Leave, EndHarnessSession
<1>3. ASSUME NEW c \in Calls,
             \/ FindOwn(c) \/ ReadRow(c) \/ SeekStep(c) \/ InsertStep(c) \/ Reconcile(c)
             \/ CloseNext(c) \/ FinishReconcile(c) \/ StartExplicit(c) \/ Exit(c)
      PROVE  session' = session
  BY <1>3 DEF FindOwn, ReadRow, SeekStep, InsertStep, Reconcile, CloseNext, FinishReconcile,
              StartExplicit, Exit
<1>4. ASSUME NEW p \in Processes, Crash(p)
      PROVE  session' = session
  BY <1>4 DEF Crash
<1>5. QED
  BY <1>1, <1>2, <1>3, <1>4, WriteRow, CompletionRow, NewRow, IdleRow DEF Next

\* A process that is gone stays gone.
LEMMA AliveShrinks == Next => alive' \subseteq alive
<1>1. ASSUME NEW c \in Calls, NEW p \in Processes, NEW named,
             \/ \E i \in Items : Capture(c, p, i, named)
             \/ \E given \in Given : Complete(c, p, given, named)
             \/ Start(c, p) \/ Leave(c, p) \/ EndHarnessSession(c, p)
      PROVE  alive' = alive
  BY <1>1 DEF Capture, Complete, Start, Leave, EndHarnessSession
<1>2. ASSUME NEW c \in Calls,
             \/ FindOwn(c) \/ Open(c) \/ ReadRow(c) \/ Decide(c) \/ Defer(c)
             \/ RecordDecisions(c) \/ CloseSession(c)
             \/ SeekStep(c) \/ InsertStep(c)
             \/ Reconcile(c) \/ CloseNext(c) \/ FinishReconcile(c)
             \/ StartExplicit(c) \/ InsertExplicit(c)
      PROVE  alive' = alive
  BY <1>2 DEF FindOwn, Open, ReadRow, Decide, Defer, RecordDecisions, CloseSession, SeekStep,
              InsertStep, Reconcile, CloseNext, FinishReconcile, StartExplicit, InsertExplicit
<1>3. CASE \/ \E c \in Calls : Exit(c)
           \/ \E p \in Processes : Crash(p)
           \/ \E s \in Sessions : GoIdle(s)
  BY <1>3 DEF Exit, Crash, GoIdle
<1>4. QED
  BY <1>1, <1>2, <1>3 DEF Next

\* What a call was granted lasts, whatever the others do to the row.
LEMMA GrantLasts ==
  ASSUME Typed, Own, Next, NEW c \in Calls,
         call'[c].session = call[c].session, call'[c].by = call[c].by,
         \/ call'[c].pc = call[c].pc
         \/ call[c].pc = "batch" /\ call'[c].pc \in {"batch", "embedding", "close"}
  PROVE  Granted(call[c])'
<1> DEFINE s == call[c].session
<1>1. SUFFICES ASSUME call[c].pc \in {"decide", "defer", "batch", "embedding", "close"}
               PROVE  Granted(call[c])'
  BY DEF Granted
<1>2. s \in Sessions /\ Granted(call[c])
  BY <1>1, CallTyped DEF Fits, Located, Own
<1>3. session[s].status # "absent"
  BY <1>1, <1>2 DEF Granted
<1>4. /\ session'[s].status # "absent"
      /\ session'[s].kind = session[s].kind /\ session'[s].owner = session[s].owner
      /\ session[s].rest # "fresh" => session'[s].rest # "fresh"
  BY <1>2, <1>3, NextRows DEF RowMoves
<1>5. Admits(s, call[c].by) =>
        (session'[s].kind = "implicit" /\ session'[s].owner \in alive' =>
           session'[s].owner = KeyOf(call[c].by))
  BY <1>4, AliveShrinks DEF Admits
<1>6. Admits(call[c].session, call[c].by)' <=>
        (session'[s].kind = "implicit" /\ session'[s].owner \in alive' =>
           session'[s].owner = KeyOf(call[c].by))
  BY DEF Admits, KeyOf
<1> HIDE DEF s
<1>7. CASE call[c].pc \in {"decide", "defer"}
  <2>1. Admits(s, call[c].by)
    BY <1>2, <1>7 DEF Granted, s
  <2>2. Admits(call[c].session, call[c].by)' /\ session'[call'[c].session].status # "absent"
    BY <2>1, <1>4, <1>5, <1>6 DEF s
  <2>3. call'[c].pc \notin {"batch", "embedding", "close"}
    BY <1>7
  <2>4. QED
    BY <2>2, <2>3 DEF Granted
<1>8. CASE call[c].pc \in {"batch", "embedding", "close"}
  <2>1. Admits(s, call[c].by) \/ session[s].rest # "fresh"
    BY <1>2, <1>8 DEF Granted, s
  <2>2. /\ Admits(call[c].session, call[c].by)' \/ session'[call'[c].session].rest # "fresh"
        /\ session'[call'[c].session].status # "absent"
    BY <2>1, <1>4, <1>5, <1>6 DEF s
  <2>3. call'[c].pc \notin {"decide", "defer"}
    BY <1>8
  <2>4. QED
    BY <2>2, <2>3 DEF Granted
<1>9. QED
  BY <1>1, <1>7, <1>8

\* What a call finds at the row is what Granted asks.
LEMMA GrantGiven ==
  ASSUME Typed, NEW c \in Calls, session' = session, alive' \subseteq alive,
         call'[c].session \in Sessions, Active(call'[c].session),
         \/ /\ call'[c].pc \in {"decide", "defer"}
            /\ ~HeldByAnotherProcess(call'[c].session, call'[c].by, "write")
         \/ /\ call'[c].pc \in {"batch", "embedding", "close"}
            /\ ~HeldByAnotherProcess(call'[c].session, call'[c].by, "complete")
  PROVE  Granted(call[c])'
<1> DEFINE s == call'[c].session
           p == call'[c].by
<1>1. session'[s].status # "absent"
  BY DEF Active
<1>2. Admits(call[c].session, call[c].by)' <=>
        (session[s].kind = "implicit" /\ session[s].owner \in alive' =>
           session[s].owner = KeyOf(p))
  BY DEF Admits, KeyOf
<1>3. CASE call'[c].pc \in {"decide", "defer"}
  <2>1. session[s].kind = "implicit" /\ session[s].owner \in alive => session[s].owner = KeyOf(p)
    BY <1>3 DEF HeldByAnotherProcess, Dead
  <2>2. QED
    BY <1>1, <1>2, <1>3, <2>1 DEF Granted
<1>4. CASE call'[c].pc \in {"batch", "embedding", "close"}
  <2>1. \/ session[s].kind = "implicit" /\ session[s].owner \in alive => session[s].owner = KeyOf(p)
        \/ session[s].rest = "idle"
    BY <1>4 DEF HeldByAnotherProcess, Dead
  <2>2. QED
    BY <1>1, <1>2, <1>4, <2>1 DEF Granted
<1>5. QED
  BY <1>3, <1>4

LEMMA GrantNext ==
  ASSUME Typed, Own, Next, NEW d \in Calls
  PROVE  Granted(call[d])'
<1>1. CASE call'[d] = call[d]
  BY <1>1, GrantLasts
<1>2. CASE call'[d] = IdleCall
  BY <1>2 DEF IdleCall, Granted
<1>3. CASE Turn(d)
  <2>1. CASE call'[d].pc \in {"decide", "defer"}
    BY <1>3, <2>1, GrantGiven, AliveShrinks DEF Turn
  <2>2. CASE call'[d].pc \in {"batch", "embedding", "close"}
    <3>1. CASE /\ call'[d].session \in Sessions /\ session' = session
               /\ Active(call'[d].session)
               /\ ~HeldByAnotherProcess(call'[d].session, call'[d].by, "complete")
      BY <2>2, <3>1, GrantGiven, AliveShrinks
    <3>2. CASE call[d].pc = "batch" /\ call'[d].session = call[d].session /\ call'[d].by = call[d].by
      BY <2>2, <3>2, GrantLasts
    <3>3. QED
      BY <1>3, <2>2, <3>1, <3>2 DEF Turn
  <2>3. CASE call'[d].pc \notin {"decide", "defer", "batch", "embedding", "close"}
    BY <2>3 DEF Granted
  <2>4. QED
    BY <2>1, <2>2, <2>3
<1>4. CASE \E c \in Calls \ {d} : Turn(c)
  <2>1. call'[d] = call[d]
    BY <1>4 DEF Turn
  <2>2. QED
    BY <1>1, <2>1
<1>5. QED
  BY <1>1, <1>2, <1>3, <1>4, NextTurns

LEMMA AloneNext ==
  ASSUME Typed, Own, Next
  PROVE  Alone'
<1>1. SUFFICES ASSUME NEW c \in Calls, NEW d \in Calls, c # d, call'[c].by = call'[d].by
               PROVE  call'[c].pc \in Awaiting \/ call'[d].pc \in Awaiting
  BY DEF Alone, Awaiting
<1>2. IdleCall.pc \in Awaiting
  BY DEF IdleCall, Awaiting
<1>3. CASE \A e \in Calls : call'[e] = call[e] \/ call'[e] = IdleCall
  BY <1>1, <1>2, <1>3 DEF Own, Alone
<1>4. ASSUME NEW e \in Calls, NEW f \in Calls, Turn(e), e # f, call'[e].by = call'[f].by
      PROVE  call'[e].pc \in Awaiting \/ call'[f].pc \in Awaiting
  BY <1>4 DEF Turn, LoopFree, Awaiting
<1>5. ASSUME NEW e \in Calls, Turn(e), e # c, e # d
      PROVE  call'[c].pc \in Awaiting \/ call'[d].pc \in Awaiting
  BY <1>1, <1>5 DEF Turn, Own, Alone
<1>6. QED
  BY <1>1, <1>3, <1>4, <1>5, NextTurns

\* An implicit session becomes one of q's only by a call of q's that opens it.
LEMMA ActiveMoves ==
  ASSUME Typed, Own, Next, NEW q, NEW s \in Sessions, s \in ActiveOf("implicit", q)'
  PROVE  \/ s \in ActiveOf("implicit", q)
         \/ \E c \in Calls : /\ Open(c) /\ KeyOf(call[c].by) = q
                             /\ \A t \in Sessions \ {s} : session'[t] = session[t]
<1>1. session'[s].status = "active" /\ session'[s].kind = "implicit" /\ session'[s].owner = q
  BY DEF ActiveOf, Active
<1>2. CASE session[s].status # "absent"
  <2>1. /\ session'[s].status = session[s].status
        /\ session'[s].kind = session[s].kind /\ session'[s].owner = session[s].owner
    BY <1>1, <1>2, NextRows DEF RowMoves
  <2>2. QED
    BY <1>1, <2>1 DEF ActiveOf, Active
<1>3. CASE session[s].status = "absent"
  <2>1. PICK c \in Calls : /\ Open(c) /\ session'[s] = Opened("implicit", KeyOf(call[c].by))
                           /\ \A t \in Sessions \ {s} : session'[t] = session[t]
    BY <1>1, <1>3, NextRows DEF RowMoves
  <2>2. session'[s].owner = KeyOf(call[c].by)
    BY <2>1 DEF Opened, NoSession
  <2>3. QED
    BY <1>1, <2>1, <2>2
<1>4. QED
  BY <1>2, <1>3

\* The call that opens a session for p's own key is one of p's, found none, and is
\* the only one of p's that is not at an await.
LEMMA OpenIsOwn ==
  ASSUME Typed, Own, NEW p \in Processes \ Linked, NEW c \in Calls, Open(c), KeyOf(call[c].by) = p
  PROVE  /\ call[c].by = p /\ ActiveOf("implicit", p) = {}
         /\ call'[c].pc = "row" /\ \A d \in Calls \ {c} : call'[d] = call[d]
         /\ \A d \in Calls \ {c} : call[d].by = p => call[d].pc # "open"
<1>1. call[c].pc = "open" /\ LoopFree(call[c].by, c) /\ call \in [Calls -> Call]
  BY DEF Open, At, Typed, TypeOK
<1>2. call[c].by = p
  BY <1>1, NamesDiffer DEF KeyOf
<1>3. ActiveOf("implicit", p) = {}
  BY <1>1, <1>2 DEF Own, Opening
<1>4. call'[c].pc = "row" /\ \A d \in Calls \ {c} : call'[d] = call[d]
  <2>1. PICK s \in Sessions : call' = [call EXCEPT ![c].pc = "row", ![c].session = s]
    BY DEF Open
  <2>2. call[c] \in Call
    BY <1>1
  <2>3. QED
    BY <1>1, <2>1, <2>2 DEF Call
<1>5. \A d \in Calls \ {c} : call[d].by = p => call[d].pc # "open"
  BY <1>1, <1>2 DEF LoopFree, Awaiting
<1>6. QED
  BY <1>2, <1>3, <1>4, <1>5

LEMMA OpeningNext ==
  ASSUME Typed, Own, Next, Typed'
  PROVE  Opening'
<1>1. SUFFICES ASSUME NEW d \in Calls, call'[d].pc = "open", call'[d].by \notin Linked
               PROVE  ActiveOf("implicit", call[d].by)' = {}
  BY DEF Opening
<1>2. PICK p \in Processes \ Linked : p = call'[d].by
  <2>1. Fits(call[d])'
    BY DEF Typed
  <2>2. QED
    BY <1>1, <2>1 DEF Fits
<1>3. KeyOf(p) = p
  BY <1>2 DEF KeyOf
<1>4. SUFFICES ASSUME NEW s \in Sessions, s \in ActiveOf("implicit", p)'
               PROVE  FALSE
  BY <1>2 DEF ActiveOf
<1>5. call'[d] # IdleCall
  BY <1>1 DEF IdleCall
<1>6. ASSUME NEW c \in Calls, Open(c), KeyOf(call[c].by) = p
      PROVE  FALSE
  <2>1. d # c /\ call'[d] = call[d]
    BY <1>1, <1>2, <1>6, OpenIsOwn
  <2>2. QED
    BY <1>1, <1>2, <1>6, <2>1, OpenIsOwn
<1>7. s \in ActiveOf("implicit", p)
  BY <1>4, <1>6, ActiveMoves
<1>8. CASE call'[d] = call[d]
  BY <1>1, <1>2, <1>7, <1>8 DEF Own, Opening
<1>9. CASE Turn(d)
  BY <1>1, <1>2, <1>3, <1>7, <1>9 DEF Turn
<1>10. QED
  BY <1>5, <1>8, <1>9, NextTurns DEF Turn

LEMMA OneNext ==
  ASSUME Typed, Own, Next
  PROVE  OneImplicitSession'
<1>1. SUFFICES ASSUME NEW p \in Processes \ Linked, NEW s \in Sessions, NEW t \in Sessions,
                      s \in ActiveOf("implicit", p)', t \in ActiveOf("implicit", p)', s # t
               PROVE  FALSE
  BY DEF OneImplicitSession, ActiveOf
<1>2. ASSUME NEW a \in Sessions, NEW b \in Sessions, a # b, b \in ActiveOf("implicit", p)',
             NEW c \in Calls, Open(c), KeyOf(call[c].by) = p,
             \A r \in Sessions \ {a} : session'[r] = session[r]
      PROVE  FALSE
  <2>1. b \in ActiveOf("implicit", p)
    BY <1>2 DEF ActiveOf, Active
  <2>2. QED
    BY <1>2, <2>1, OpenIsOwn
<1>3. s \in ActiveOf("implicit", p) /\ t \in ActiveOf("implicit", p)
  BY <1>1, <1>2, ActiveMoves
<1>4. QED
  BY <1>1, <1>3 DEF Own, OneImplicitSession

LEMMA OwnInit == Init => Own
<1> SUFFICES ASSUME Init PROVE Own
  OBVIOUS
<1>1. \A c \in Calls : call[c].pc = "idle"
  BY DEF Init, IdleCall
<1>2. \A s \in Sessions : session[s].status = "absent"
  BY DEF Init, NoSession
<1>3. Alone /\ Opening /\ \A c \in Calls : Granted(call[c])
  BY <1>1 DEF Alone, Awaiting, Opening, Granted
<1>4. OneImplicitSession
  BY <1>2 DEF OneImplicitSession, ActiveOf, Active
<1>5. QED
  BY <1>3, <1>4 DEF Own

LEMMA OwnStep ==
  ASSUME Typed, Own, [Next]_vars
  PROVE  Typed' /\ Own'
<1>1. Typed'
  BY TypedStep
<1>2. CASE Next
  BY <1>1, <1>2, GrantNext, AloneNext, OpeningNext, OneNext DEF Own
<1>3. CASE UNCHANGED vars
  <2>1. session' = session /\ call' = call /\ alive' = alive
    BY <1>3 DEF vars
  <2>2. Alone' /\ Opening' /\ OneImplicitSession'
    BY <2>1 DEF Own, Alone, Opening, OneImplicitSession, ActiveOf, Active
  <2>3. \A c \in Calls : Granted(call[c])'
    BY <2>1 DEF Own, Granted, Admits
  <2>4. QED
    BY <1>1, <2>2, <2>3 DEF Own
<1>4. QED
  BY <1>2, <1>3

\* A process that writes under its own key never has two implicit sessions open.
THEOREM OneSessionPerProcess == Spec => []OneImplicitSession
<1>1. Init => Typed /\ Own
  BY TypedInit, OwnInit
<1>2. (Typed /\ Own) /\ [Next]_vars => (Typed /\ Own)'
  BY OwnStep
<1>3. Typed /\ Own => OneImplicitSession
  BY DEF Own
<1>4. QED
  BY <1>1, <1>2, <1>3, PTL DEF Spec

\* Who writes to a session that a running process has opened for its own key.
LEMMA WriterIsOwner ==
  ASSUME Typed, Own, NEW s \in Sessions, NEW c \in Calls, call[c].session = s,
         session[s].kind = "implicit", session[s].owner \in alive,
         Defer(c) \/ (Decide(c) /\ ~Refused(c, "write"))
  PROVE  call[c].by = session[s].owner /\ call'[c] # call[c]
<1>1. call[c].pc \in {"decide", "defer"} /\ call[c].by \in Processes
  BY CallTyped DEF Defer, Decide, At, Fits
<1>2. session[s].owner = KeyOf(call[c].by)
  BY <1>1 DEF Own, Granted, Admits
<1>3. session[s].owner \in Processes
  BY DEF Typed, TypeOK
<1>4. call[c].by = session[s].owner
  BY <1>2, <1>3, NamesDiffer DEF KeyOf
<1>5. call'[c] = Returned(c)
  BY DEF Defer, Decide, Returns, Typed, TypeOK
<1>6. Returned(c).pc \in {"idle", "reconcile", "closing"}
  <2>1. call[c] \in Call
    BY CallTyped
  <2>2. CASE Returned(c) = [IdleCall EXCEPT !.pc = "reconcile", !.by = call[c].by]
    BY <2>2 DEF IdleCall
  <2>3. CASE Returned(c) = [call[c] EXCEPT !.pc = "closing", !.session = None, !.items = {}]
    BY <2>1, <2>3 DEF Call
  <2>4. CASE Returned(c) = IdleCall
    BY <2>4 DEF IdleCall
  <2>5. QED
    BY <2>2, <2>3, <2>4 DEF Returned
<1>7. QED
  BY <1>1, <1>4, <1>5, <1>6

LEMMA CloserIsOwner ==
  ASSUME Typed, Own, NEW s \in Sessions, NEW c \in Calls, call[c].session = s,
         session[s].kind = "implicit", session[s].owner \in alive, session[s].rest = "fresh",
         CloseSession(c)
  PROVE  call[c].by = session[s].owner /\ call'[c] # call[c]
<1>1. call[c].pc \in {"close", "embedding"} /\ call[c].by \in Processes /\ call[c] \in Call
  BY CallTyped DEF CloseSession, At, Fits
<1>2. session[s].owner = KeyOf(call[c].by)
  BY <1>1 DEF Own, Granted, Admits
<1>3. session[s].owner \in Processes
  BY DEF Typed, TypeOK
<1>4. call[c].by = session[s].owner
  BY <1>2, <1>3, NamesDiffer DEF KeyOf
<1>5. call'[c].pc = "seek"
  <2>1. call' = [call EXCEPT ![c].pc = "seek", ![c].items = @ \cap Steps]
    BY DEF CloseSession
  <2>2. call \in [Calls -> Call]
    BY DEF Typed, TypeOK
  <2>3. QED
    BY <1>1, <2>1, <2>2 DEF Call
<1>6. QED
  BY <1>1, <1>4, <1>5

\* The implicit session of a process that runs is written by its calls alone, and
\* closed by another process only after it was idle for twelve hours.
THEOREM OwnersSessionsAreLeftAlone == Spec => OthersLeaveItAlone
<1>1. Init => Typed /\ Own
  BY TypedInit, OwnInit
<1>2. (Typed /\ Own) /\ [Next]_vars => (Typed /\ Own)'
  BY OwnStep
<1> DEFINE Written(s) == \E c \in Calls : call[c].by = session[s].owner /\ call'[c] # call[c]
           Left == \A s \in Sessions :
                     Active(s) /\ session[s].kind = "implicit" /\ session[s].owner \in alive =>
                       /\ session'[s].captures # session[s].captures => Written(s)
                       /\ session'[s].status # session[s].status =>
                            Written(s) \/ session[s].rest # "fresh"
<1>3. (Typed /\ Own) /\ [Next]_vars => [Left]_vars
  <2>1. SUFFICES ASSUME Typed, Own, Next, NEW s \in Sessions,
                        Active(s), session[s].kind = "implicit", session[s].owner \in alive
                 PROVE  /\ session'[s].captures # session[s].captures => Written(s)
                        /\ session'[s].status # session[s].status =>
                             Written(s) \/ session[s].rest # "fresh"
    OBVIOUS
  <2>2. RowMoves(s) /\ session[s].status # "absent"
    BY <2>1, NextRows DEF Active
  <2>3. session'[s].captures # session[s].captures => Written(s)
    BY <2>1, <2>2, WriterIsOwner DEF RowMoves
  <2>4. session'[s].status # session[s].status => Written(s) \/ session[s].rest # "fresh"
    <3>1. SUFFICES ASSUME session'[s].status # session[s].status, session[s].rest = "fresh"
                   PROVE  Written(s)
      OBVIOUS
    <3>2. QED
      BY <2>1, <2>2, <3>1, CloserIsOwner DEF RowMoves
  <2>5. QED
    BY <2>3, <2>4
<1>4. QED
  BY <1>1, <1>2, <1>3, PTL DEF Spec, OthersLeaveItAlone

-----------------------------------------------------------------------------
(* Calls one at a time.  Every captured next step is kept where no call     *)
(* starts before the one before it has returned or died with its process.   *)

OneAtATime == \A c, d \in Calls : c = d

\* The session that a capture has found open is open when it writes there.
FoundOpen ==
  \A c \in Calls :
    /\ call[c].pc = "decide" => call[c].item \in Decisions
    /\ call[c].pc = "defer" => call[c].session \in Sessions /\ Active(call[c].session)

LEMMA FoundOpenStep ==
  ASSUME OneAtATime, Typed, Own, FoundOpen, [Next]_vars
  PROVE  FoundOpen'
<1>1. ASSUME NEW c \in Calls, Turn(c) PROVE FoundOpen'
  BY <1>1 DEF OneAtATime, FoundOpen, Turn, Active
<1>2. ASSUME Next, \A d \in Calls : call'[d] = call[d] \/ call'[d] = IdleCall
      PROVE  FoundOpen'
  <2>1. ASSUME NEW c \in Calls, call'[c].pc \in {"decide", "defer"} PROVE call'[c] = call[c]
    BY <1>2, <2>1 DEF IdleCall
  <2>2. ASSUME NEW c \in Calls, call[c].pc = "defer"
        PROVE  /\ call[c].session \in Sessions
               /\ session'[call[c].session].status = "active"
    <3> DEFINE s == call[c].session
    <3>1. s \in Sessions /\ session[s].status = "active"
      BY <2>2 DEF FoundOpen, Active
    <3>2. ASSUME NEW d \in Calls, CloseSession(d) PROVE FALSE
      BY <2>2, <3>2 DEF OneAtATime, CloseSession, At
    <3>3. RowMoves(s)
      BY <1>2, <3>1, NextRows
    <3>4. QED
      BY <3>1, <3>2, <3>3 DEF RowMoves
  <2>3. ASSUME NEW c \in Calls
        PROVE  /\ call'[c].pc = "decide" => call'[c].item \in Decisions
               /\ call'[c].pc = "defer" =>
                    /\ call'[c].session \in Sessions
                    /\ session'[call'[c].session].status = "active"
    BY <2>1, <2>2 DEF FoundOpen
  <2>4. QED
    BY <2>3 DEF FoundOpen, Active
<1>3. CASE UNCHANGED vars
  BY <1>3 DEF vars, FoundOpen, Active
<1>4. QED
  BY <1>1, <1>2, <1>3, NextTurns

\* Where calls do not overlap, a deferred capture materializes at session close,
\* unless the closer dies before it has extracted the steps.
THEOREM StepsMaterializeOneAtATime ==
  ASSUME OneAtATime
  PROVE  Spec => []StepMaterializes
<1> DEFINE Inv == FoundOpen /\ acknowledged \cap (Steps \X Sessions) \subseteq undisturbed
<1>1. Init => Inv
  BY DEF Init, IdleCall, FoundOpen
<1>2. Typed /\ Own /\ Inv /\ [Next]_vars => Inv'
  <2>1. SUFFICES ASSUME Typed, Own, Inv, [Next]_vars,
                        NEW n \in Steps, NEW s \in Sessions, <<n, s>> \in acknowledged'
                 PROVE  <<n, s>> \in undisturbed'
    BY FoundOpenStep
  <2>2. CASE acknowledged' = acknowledged /\ undisturbed' = undisturbed
    BY <2>1, <2>2
  <2>3. ASSUME NEW c \in Calls, Decide(c), undisturbed' = undisturbed
        PROVE  <<n, s>> \in undisturbed'
    <3>1. call[c].item \in Decisions
      BY <2>1, <2>3 DEF FoundOpen, Decide, At
    <3>2. <<n, s>> # <<call[c].item, call[c].session>>
      BY <3>1, NamesDiffer
    <3>3. <<n, s>> \in acknowledged
      BY <2>1, <2>3, <3>2 DEF Decide
    <3>4. QED
      BY <2>1, <2>3, <3>3
  <2>4. ASSUME NEW c \in Calls, Defer(c) PROVE <<n, s>> \in undisturbed'
    <3>1. Active(call[c].session)
      BY <2>1, <2>4 DEF FoundOpen, Defer, At
    <3>2. /\ undisturbed' = undisturbed \cup {<<call[c].item, call[c].session>>}
          /\ acknowledged' = acknowledged \cup {<<call[c].item, call[c].session>>}
      BY <2>4, <3>1 DEF Defer, OneAtATime
    <3>3. QED
      BY <2>1, <3>2
  <2>5. CASE UNCHANGED vars
    BY <2>1, <2>5 DEF vars
  <2>6. QED
    BY <2>1, <2>2, <2>3, <2>4, <2>5, CapturesAnswer
<1>3. Inv /\ StepKeptUnlessOverlapped => StepMaterializes
  BY DEF StepKeptUnlessOverlapped, StepMaterializes
<1>4. Spec => [](Typed /\ Own)
  <2>1. Init => Typed /\ Own
    BY TypedInit, OwnInit
  <2>2. (Typed /\ Own) /\ [Next]_vars => (Typed /\ Own)'
    BY OwnStep
  <2>3. QED
    BY <2>1, <2>2, PTL DEF Spec
<1>5. QED
  BY <1>1, <1>2, <1>3, <1>4, UndisturbedStepsAreKept, PTL DEF Spec

=============================================================================
