--------------------------- MODULE CollabSync_proofs ---------------------------
(***************************************************************************)
(* Proofs about CollabSync, for any stores, clocks and page size.  Numbered *)
(* is about the counters, Sent about what a retry finds, EditKept about the *)
(* last edit of a call, and InTime, Led and Tracked about how stores converge.*)
(* Each theorem names what it assumes of calls, clocks, failures and clones.*)
(***************************************************************************)
EXTENDS CollabSync, TLAPS

-----------------------------------------------------------------------------
(* Types.  A call must be known to carry what its next step uses.          *)

CarriesValue == {"decided", "stamp", "write", "record", "send", "accepted", "superseded",
                 "settle"}

\* r goes with a store that holds `held', and a log of that length.
Carries(r, held, length) ==
  /\ r.pc # "idle" => held # None
  /\ r.pc \in CarriesValue => r.value # None
  /\ r.pc \in {"write", "record", "send"} => r.at # None /\ r.seq # None
  /\ r.pc = "merge" => r.to <= length

Sound(calls, held, length) ==
  /\ calls \in [Calls -> Call]
  /\ \A c \in Calls : Carries(calls[c], held[StoreOf(c)], length)

Typed == TypeOK /\ Sound(call, row, Len(log))

LEMMA IdleCallType == IdleCall \in Call /\ IdleCall.pc = "idle" /\ IdleCall.value = None
BY DEF IdleCall, Call

LEMMA StoreOfCall ==
  ASSUME NEW c \in Calls
  PROVE  StoreOf(c) \in Stores
BY DEF Calls, StoreOf

\* A step of one call keeps the calls sound, if what it leaves is, no row is
\* taken away and the log does not shrink.
LEMMA CallStepSound ==
  ASSUME NEW calls, NEW held, NEW n \in Nat, Sound(calls, held, n),
         NEW c \in Calls, NEW r \in Call, NEW held2, NEW n2 \in Nat, n <= n2,
         Carries(r, held2[StoreOf(c)], n2),
         \A s \in Stores : held[s] # None => held2[s] # None
  PROVE  Sound([calls EXCEPT ![c] = r], held2, n2)
<1> DEFINE new == [calls EXCEPT ![c] = r]
<1>1. new \in [Calls -> Call]
  BY DEF Sound
<1>2. ASSUME NEW d \in Calls PROVE Carries(new[d], held2[StoreOf(d)], n2)
  <2>1. CASE d = c
    BY <2>1 DEF Sound
  <2>2. CASE d # c
    <3>1. new[d] = calls[d] /\ calls[d] \in Call /\ Carries(calls[d], held[StoreOf(d)], n)
      BY <2>2 DEF Sound
    <3>2. held[StoreOf(d)] # None => held2[StoreOf(d)] # None
      BY StoreOfCall
    <3>3. calls[d].to \in Nat
      BY <3>1 DEF Call
    <3>4. QED
      BY <3>1, <3>2, <3>3 DEF Carries
  <2>3. QED
    BY <2>1, <2>2
<1>3. QED
  BY <1>1, <1>2 DEF Sound

\* A step that leaves the calls as they are, takes no row away and leaves the log.
LEMMA RestSound ==
  ASSUME NEW calls, NEW held, NEW n, Sound(calls, held, n), NEW held2,
         \A s \in Stores : held[s] # None => held2[s] # None
  PROVE  Sound(calls, held2, n)
BY StoreOfCall DEF Sound, Carries

LEMMA TypedInit == Init => Typed
<1> SUFFICES ASSUME Init PROVE Typed
  OBVIOUS
<1>1. TypeOK
  BY IdleCallType, ValuesAreSound DEF Init, TypeOK, Ordering
<1>2. ASSUME NEW c \in Calls PROVE Carries(call[c], row[StoreOf(c)], Len(log))
  BY DEF Init, Carries, CarriesValue, IdleCall
<1>3. QED
  BY <1>1, <1>2 DEF Typed, Sound, TypeOK

\* A call that goes on with r, or that returns, and leaves the rows and the log.
LEMMA GoOnSound ==
  ASSUME Typed, NEW c \in Calls, NEW r \in Call, call' = [call EXCEPT ![c] = r],
         Carries(r, row[StoreOf(c)], Len(log)), UNCHANGED <<row, log>>
  PROVE  Sound(call', row', Len(log'))
<1>1. Len(log) \in Nat /\ Len(log) <= Len(log)
  BY DEF Typed, TypeOK
<1>2. Sound(call, row, Len(log))
  BY DEF Typed
<1>3. \A s \in Stores : row[s] # None => row[s] # None
  OBVIOUS
<1>4. Sound([call EXCEPT ![c] = r], row, Len(log))
  BY <1>1, <1>2, <1>3, CallStepSound, ZenonT(30)
<1>5. QED
  BY <1>4

LEMMA Products ==
  ASSUME NEW a \in Nat, NEW b \in Nat
  PROVE  a * b \in Nat
OBVIOUS

LEMMA DateType ==
  ASSUME TypeOK, NEW s \in Stores
  PROVE  Date(s) \in Nat
<1>1. Step * instant \in Nat
  BY ClocksAreSound DEF TypeOK
<1>2. QED
  BY <1>1, ClocksAreSound DEF Date

LEMMA ClocksAdvance ==
  ASSUME Typed, NEW s \in Stores, Tick
  PROVE  Date(s) <= Date(s)'
<1>1. Step \in Nat /\ instant \in Nat /\ Ahead[s] \in Nat /\ instant' = instant + 1
  BY ClocksAreSound DEF Tick, Typed, TypeOK
<1>2. Step * (instant + 1) = Step * instant + Step /\ Step * instant \in Nat
  BY <1>1
<1>3. QED
  BY <1>1, <1>2 DEF Date

LEMMA ReturnSound ==
  ASSUME Typed, NEW c \in Calls, Return(c), UNCHANGED <<row, log>>
  PROVE  Sound(call', row', Len(log'))
<1>1. Carries(IdleCall, row[StoreOf(c)], Len(log))
  BY IdleCallType DEF Carries, CarriesValue
<1>2. QED
  BY <1>1, IdleCallType, GoOnSound DEF Return

LEMMA FinishPullSound ==
  ASSUME Typed, NEW c \in Calls, FinishPull(c), UNCHANGED <<row, log>>,
         call[c].pc # "idle"
  PROVE  Sound(call', row', Len(log'))
<1>1. CASE call[c].value = None
  BY <1>1, ReturnSound DEF FinishPull
<1>2. CASE call[c].value # None
  <2> DEFINE r == [IdleCall EXCEPT !.pc = "stamp", !.value = call[c].value]
  <2>1. call[c] \in Call
    BY DEF Typed, TypeOK
  <2>2. r \in Call /\ r.pc = "stamp" /\ r.value = call[c].value
    BY <2>1, IdleCallType DEF Call
  <2>3. row[StoreOf(c)] # None
    BY DEF Typed, Sound, Carries
  <2>4. call' = [call EXCEPT ![c] = r]
    BY <1>2 DEF FinishPull
  <2> HIDE DEF r
  <2>5. Carries(r, row[StoreOf(c)], Len(log))
    BY <1>2, <2>2, <2>3 DEF Carries
  <2>6. QED
    BY <2>2, <2>4, <2>5, GoOnSound
<1>3. QED
  BY <1>1, <1>2

-----------------------------------------------------------------------------

\* What is left of TypeOK once the calls are known to be sound.
LEMMA TypedFrom ==
  ASSUME Sound(call', row', Len(log')),
         row' \in [Stores -> Values \cup {None}],
         recorded' \in [Stores -> Ordering],
         counter' \in [Stores -> Nat], cursor' \in [Stores -> Nat],
         log' \in Seq(Event), mirror' \in Ordering, mirror'.value # None,
         instant' \in Nat,
         edit' \in [Stores -> [value : Values \cup {None}, at : Nat]],
         unsettled' \subseteq Stores
  PROVE  Typed'
BY DEF Typed, TypeOK, Sound

-----------------------------------------------------------------------------
(* Every action keeps the types.                                           *)

LEMMA EditTyped ==
  ASSUME Typed, NEW c \in Calls, NEW v \in Values, Edit(c, v)
  PROVE  Typed'
<1> DEFINE r == [call[c] EXCEPT !.pc = "edited"]
<1>1. StoreOf(c) \in Stores /\ call[c] \in Call /\ Len(log) \in Nat /\ Len(log) <= Len(log)
  BY StoreOfCall DEF Typed, TypeOK
<1>2. r \in Call /\ r.pc = "edited" /\ call' = [call EXCEPT ![c] = r]
  BY <1>1 DEF Edit, Call
<1>3. /\ row' \in [Stores -> Values \cup {None}]
      /\ row'[StoreOf(c)] # None
      /\ \A t \in Stores : row[t] # None => row'[t] # None
  BY <1>1, ValuesAreSound DEF Edit, Typed, TypeOK
<1>4. [value |-> v, at |-> Date(StoreOf(c))] \in [value : Values \cup {None}, at : Nat]
  BY <1>1, DateType DEF Typed
<1>5. /\ edit' \in [Stores -> [value : Values \cup {None}, at : Nat]]
      /\ unsettled' \subseteq Stores
  BY <1>1, <1>4 DEF Edit, Typed, TypeOK
<1> HIDE DEF r
<1>6. Carries(r, row'[StoreOf(c)], Len(log))
  BY <1>2, <1>3 DEF Carries, CarriesValue
<1>7. Sound([call EXCEPT ![c] = r], row', Len(log))
  <2>1. Sound(call, row, Len(log))
    BY DEF Typed
  <2>2. QED
    BY <1>1, <1>2, <1>3, <1>6, <2>1, CallStepSound, ZenonT(30)
<1>8. log' = log /\ Sound(call', row', Len(log'))
  BY <1>2, <1>7 DEF Edit
<1>9. QED
  BY <1>3, <1>5, <1>8, TypedFrom DEF Edit, Typed, TypeOK

LEMMA DecideTyped ==
  ASSUME Typed, NEW c \in Calls, Decide(c)
  PROVE  Typed'
<1> DEFINE r == [call[c] EXCEPT !.pc = "decided", !.value = row[StoreOf(c)]]
<1>1. Sound(call', row', Len(log'))
  <2>1. CASE Suppressed(c)
    BY <2>1, ReturnSound DEF Decide
  <2>2. CASE ~Suppressed(c)
    <3>1. /\ call[c] \in Call /\ row[StoreOf(c)] \in Values
          /\ row[StoreOf(c)] # None
      BY StoreOfCall DEF Decide, Typed, TypeOK, Sound, Carries
    <3>2. r \in Call /\ r.pc = "decided" /\ r.value # None
      BY <3>1, ValuesAreSound DEF Call
    <3>3. call' = [call EXCEPT ![c] = r]
      BY <2>2 DEF Decide
    <3>4. Carries(r, row[StoreOf(c)], Len(log))
      BY <3>1, <3>2 DEF Carries
    <3> HIDE DEF r
    <3>5. QED
      BY <3>2, <3>3, <3>4, GoOnSound DEF Decide
  <2>3. QED
    BY <2>1, <2>2
<1>2. QED
  BY <1>1, TypedFrom DEF Decide, Typed, TypeOK

LEMMA UnsharedTyped ==
  ASSUME Typed, NEW s \in Stores, NEW v \in Unshared, WriteUnshared(s, v)
  PROVE  Typed'
<1>1. v \in Values /\ v # None
  BY ValuesAreSound
<1>2. /\ row' \in [Stores -> Values \cup {None}]
      /\ \A t \in Stores : row[t] # None => row'[t] # None
  BY <1>1 DEF WriteUnshared, Typed, TypeOK
<1>3. Sound(call, row', Len(log))
  <2>1. Sound(call, row, Len(log))
    BY DEF Typed
  <2>2. QED
    BY <1>2, <2>1, RestSound, ZenonT(30)
<1>4. Sound(call', row', Len(log'))
  BY <1>3 DEF WriteUnshared
<1>5. QED
  BY <1>2, <1>4, TypedFrom DEF WriteUnshared, Typed, TypeOK

LEMMA OpenPullTyped ==
  ASSUME Typed, NEW c \in Calls, OpenPull(c)
  PROVE  Typed'
<1> DEFINE r == [call[c] EXCEPT !.pc = "pull", !.since = cursor[StoreOf(c)]]
<1>1. /\ StoreOf(c) \in Stores /\ call[c] \in Call /\ Len(log) \in Nat
      /\ Carries(call[c], row[StoreOf(c)], Len(log))
  BY StoreOfCall DEF Typed, TypeOK, Sound
<1>a. cursor[StoreOf(c)] \in Nat
  BY <1>1 DEF Typed, TypeOK
<1>2. r \in Call /\ r.pc = "pull" /\ r.value = call[c].value /\ call' = [call EXCEPT ![c] = r]
  BY <1>1, <1>a DEF OpenPull, Call
<1>3. Carries(r, row[StoreOf(c)], Len(log))
  BY <1>1, <1>2, <1>a DEF OpenPull, Carries, CarriesValue
<1> HIDE DEF r
<1>4. Sound(call', row', Len(log'))
  BY <1>2, <1>3, GoOnSound DEF OpenPull
<1>5. QED
  BY <1>1, <1>4, TypedFrom DEF OpenPull, Typed, TypeOK

LEMMA FetchPageTyped ==
  ASSUME Typed, NEW c \in Calls, FetchPage(c)
  PROVE  Typed'
<1> DEFINE r == [call[c] EXCEPT !.pc = "merge", !.to = PageEnd(call[c].since),
                           !.more = IF PageEnd(call[c].since) < Len(log) THEN 1 ELSE 0]
<1>1. /\ StoreOf(c) \in Stores /\ call[c] \in Call /\ Len(log) \in Nat
      /\ Carries(call[c], row[StoreOf(c)], Len(log))
  BY StoreOfCall DEF Typed, TypeOK, Sound
<1>a. PageEnd(call[c].since) \in Nat /\ PageEnd(call[c].since) <= Len(log)
  BY <1>1, PagesHoldEvents DEF Call, PageEnd
<1>2. r \in Call /\ r.pc = "merge" /\ r.value = call[c].value /\ call' = [call EXCEPT ![c] = r]
  BY <1>1, <1>a DEF FetchPage, Call
<1>3. Carries(r, row[StoreOf(c)], Len(log))
  BY <1>1, <1>2, <1>a DEF FetchPage, Carries, CarriesValue
<1> HIDE DEF r
<1>4. Sound(call', row', Len(log'))
  BY <1>2, <1>3, GoOnSound DEF FetchPage
<1>5. QED
  BY <1>1, <1>4, TypedFrom DEF FetchPage, Typed, TypeOK

LEMMA MergePageTyped ==
  ASSUME Typed, NEW c \in Calls, MergePage(c)
  PROVE  Typed'
<1> DEFINE r == [call[c] EXCEPT !.pc = "cursor"]
<1>1. /\ StoreOf(c) \in Stores /\ call[c] \in Call /\ Len(log) \in Nat /\ Len(log) <= Len(log)
      /\ Carries(call[c], row[StoreOf(c)], Len(log))
  BY StoreOfCall DEF Typed, TypeOK, Sound
<1>2. r \in Call /\ r.pc = "cursor" /\ r.value = call[c].value /\ call' = [call EXCEPT ![c] = r]
  BY <1>1 DEF MergePage, Call
<1>3. \A i \in call[c].since + 1 .. call[c].to : log[i] \in Event
  <2>1. call[c].to <= Len(log) /\ call[c].to \in Nat /\ call[c].since \in Nat
    BY <1>1 DEF MergePage, Carries, Call
  <2>2. log \in Seq(Event)
    BY DEF Typed, TypeOK
  <2>3. QED
    BY <1>1, <2>1, <2>2
<1>4. /\ row' \in [Stores -> Values \cup {None}] /\ recorded' \in [Stores -> Ordering]
      /\ \A t \in Stores : row[t] # None => row'[t] # None
  <2>1. CASE UNCHANGED <<row, recorded>>
    BY <2>1 DEF Typed, TypeOK
  <2>2. CASE ~UNCHANGED <<row, recorded>>
    <3>1. PICK i \in call[c].since + 1 .. call[c].to :
            /\ row' = [row EXCEPT ![StoreOf(c)] = log[i].value]
            /\ recorded' = [recorded EXCEPT ![StoreOf(c)] =
                 [value |-> log[i].value, at |-> log[i].at, seq |-> log[i].seq]]
      BY <2>2 DEF MergePage
    <3>2. log[i].value \in Values /\ log[i].at \in Nat /\ log[i].seq \in Nat
      BY <1>3 DEF Event
    <3>3. [value |-> log[i].value, at |-> log[i].at, seq |-> log[i].seq] \in Ordering
      BY <3>2 DEF Ordering
    <3>4. recorded' \in [Stores -> Ordering]
      BY <1>1, <3>1, <3>3 DEF Typed, TypeOK
    <3>5. row' \in [Stores -> Values \cup {None}] /\ \A t \in Stores : row[t] # None => row'[t] # None
      BY <1>1, <3>1, <3>2, ValuesAreSound DEF Typed, TypeOK
    <3>6. QED
      BY <3>4, <3>5
  <2>3. QED
    BY <2>1, <2>2
<1>5. Carries(r, row'[StoreOf(c)], Len(log))
  BY <1>1, <1>2, <1>4 DEF MergePage, Carries, CarriesValue
<1> HIDE DEF r
<1>6. Sound([call EXCEPT ![c] = r], row', Len(log))
  <2>1. Sound(call, row, Len(log))
    BY DEF Typed
  <2>2. QED
    BY <1>1, <1>2, <1>4, <1>5, <2>1, CallStepSound, ZenonT(30)
<1>7. Sound(call', row', Len(log'))
  BY <1>2, <1>6 DEF MergePage
<1>8. QED
  BY <1>4, <1>7, TypedFrom DEF MergePage, Typed, TypeOK

LEMMA RollBackPageTyped ==
  ASSUME Typed, NEW c \in Calls, RollBackPage(c)
  PROVE  Typed'
<1> DEFINE r == [call[c] EXCEPT !.pc = "cursor"]
<1>1. /\ StoreOf(c) \in Stores /\ call[c] \in Call /\ Len(log) \in Nat
      /\ Carries(call[c], row[StoreOf(c)], Len(log))
  BY StoreOfCall DEF Typed, TypeOK, Sound
<1>2. r \in Call /\ r.pc = "cursor" /\ r.value = call[c].value /\ call' = [call EXCEPT ![c] = r]
  BY <1>1 DEF RollBackPage, Call
<1>3. Carries(r, row[StoreOf(c)], Len(log))
  BY <1>1, <1>2 DEF RollBackPage, Carries, CarriesValue
<1> HIDE DEF r
<1>4. Sound(call', row', Len(log'))
  BY <1>2, <1>3, GoOnSound DEF RollBackPage
<1>5. QED
  BY <1>1, <1>4, TypedFrom DEF RollBackPage, Typed, TypeOK

LEMMA PersistCursorTyped ==
  ASSUME Typed, NEW c \in Calls, PersistCursor(c)
  PROVE  Typed'
<1> DEFINE r == [call[c] EXCEPT !.pc = "pull", !.since = call[c].to, !.pages = 1]
<1>1. /\ StoreOf(c) \in Stores /\ call[c] \in Call /\ call[c].to \in Nat
      /\ Carries(call[c], row[StoreOf(c)], Len(log))
  BY StoreOfCall DEF Typed, TypeOK, Sound, Call
<1>2. cursor' \in [Stores -> Nat]
  BY <1>1 DEF PersistCursor, Typed, TypeOK
<1>3. Sound(call', row', Len(log'))
  <2>1. CASE call[c].more = 1
    <3>1. r \in Call /\ r.pc = "pull" /\ r.value = call[c].value /\ call' = [call EXCEPT ![c] = r]
      BY <1>1, <2>1 DEF PersistCursor, Call
    <3>2. Carries(r, row[StoreOf(c)], Len(log))
      BY <1>1, <3>1 DEF PersistCursor, Carries, CarriesValue
    <3> HIDE DEF r
    <3>3. QED
      BY <3>1, <3>2, GoOnSound DEF PersistCursor
  <2>2. CASE call[c].more # 1
    BY <2>2, FinishPullSound DEF PersistCursor
  <2>3. QED
    BY <2>1, <2>2
<1>4. QED
  BY <1>2, <1>3, TypedFrom DEF PersistCursor, Typed, TypeOK

LEMMA StopPullTyped ==
  ASSUME Typed, NEW c \in Calls, StopPull(c)
  PROVE  Typed'
<1>1. Sound(call', row', Len(log'))
  BY FinishPullSound DEF StopPull
<1>2. QED
  BY <1>1, TypedFrom DEF StopPull, Typed, TypeOK

LEMMA TakeSeqTyped ==
  ASSUME Typed, NEW c \in Calls, TakeSeq(c)
  PROVE  Typed'
<1> DEFINE r == [call[c] EXCEPT !.pc = "write", !.at = Date(StoreOf(c)),
                           !.seq = counter[StoreOf(c)] + 1]
<1>1. /\ StoreOf(c) \in Stores /\ call[c] \in Call /\ Len(log) \in Nat
      /\ Carries(call[c], row[StoreOf(c)], Len(log))
  BY StoreOfCall DEF Typed, TypeOK, Sound
<1>a. Date(StoreOf(c)) \in Nat /\ counter[StoreOf(c)] + 1 \in Nat
  BY <1>1, DateType DEF Typed, TypeOK
<1>2. r \in Call /\ r.pc = "write" /\ r.value = call[c].value /\ call' = [call EXCEPT ![c] = r]
  BY <1>1, <1>a, NoneIsNoTime DEF TakeSeq, Call
<1>3. Carries(r, row[StoreOf(c)], Len(log))
  BY <1>1, <1>2, <1>a, NoneIsNoTime DEF TakeSeq, Carries, CarriesValue
<1> HIDE DEF r
<1>4. Sound(call', row', Len(log'))
  BY <1>2, <1>3, GoOnSound DEF TakeSeq
<1>5. QED
  BY <1>1, <1>4, TypedFrom DEF TakeSeq, Typed, TypeOK

LEMMA WriteLocalTyped ==
  ASSUME Typed, NEW c \in Calls, WriteLocal(c)
  PROVE  Typed'
<1> DEFINE r == [call[c] EXCEPT !.pc = "record"]
<1>1. /\ StoreOf(c) \in Stores /\ call[c] \in Call /\ Len(log) \in Nat /\ Len(log) <= Len(log)
      /\ Carries(call[c], row[StoreOf(c)], Len(log))
  BY StoreOfCall DEF Typed, TypeOK, Sound
<1>2. /\ r \in Call /\ r.pc = "record" /\ r.value = call[c].value /\ r.at = call[c].at
      /\ r.seq = call[c].seq /\ call' = [call EXCEPT ![c] = r]
  BY <1>1 DEF WriteLocal, Call
<1>3. call[c].value \in Values /\ call[c].value # None /\ call[c].seq \in Nat
  BY <1>1, ValuesAreSound DEF WriteLocal, Carries, CarriesValue, Call
<1>4. /\ row' \in [Stores -> Values \cup {None}] /\ counter' \in [Stores -> Nat]
      /\ row'[StoreOf(c)] # None /\ unsettled' \subseteq Stores
      /\ \A t \in Stores : row[t] # None => row'[t] # None
  BY <1>1, <1>3 DEF WriteLocal, Typed, TypeOK
<1>5. Carries(r, row'[StoreOf(c)], Len(log))
  BY <1>1, <1>2, <1>4 DEF WriteLocal, Carries, CarriesValue
<1> HIDE DEF r
<1>6. Sound([call EXCEPT ![c] = r], row', Len(log))
  <2>1. Sound(call, row, Len(log))
    BY DEF Typed
  <2>2. QED
    BY <1>1, <1>2, <1>4, <1>5, <2>1, CallStepSound, ZenonT(30)
<1>7. Sound(call', row', Len(log'))
  BY <1>2, <1>6 DEF WriteLocal
<1>8. QED
  BY <1>4, <1>7, TypedFrom DEF WriteLocal, Typed, TypeOK

LEMMA RecordTyped ==
  ASSUME Typed, NEW c \in Calls, Record(c)
  PROVE  Typed'
<1> DEFINE r == [call[c] EXCEPT !.pc = "send"]
<1>1. /\ StoreOf(c) \in Stores /\ call[c] \in Call
      /\ Carries(call[c], row[StoreOf(c)], Len(log))
  BY StoreOfCall DEF Typed, TypeOK, Sound
<1>2. /\ r \in Call /\ r.pc = "send" /\ r.value = call[c].value /\ r.at = call[c].at
      /\ r.seq = call[c].seq /\ call' = [call EXCEPT ![c] = r]
  BY <1>1 DEF Record, Call
<1>3. Carries(r, row[StoreOf(c)], Len(log))
  BY <1>1, <1>2 DEF Record, Carries, CarriesValue
<1>4. [value |-> call[c].value, at |-> call[c].at, seq |-> call[c].seq] \in Ordering
  BY <1>1 DEF Call, Ordering
<1>5. recorded' \in [Stores -> Ordering]
  BY <1>1, <1>4 DEF Record, Typed, TypeOK
<1> HIDE DEF r
<1>6. Sound(call', row', Len(log'))
  BY <1>2, <1>3, GoOnSound DEF Record
<1>7. QED
  BY <1>5, <1>6, TypedFrom DEF Record, Typed, TypeOK

LEMMA DeliverTyped ==
  ASSUME Typed, NEW c \in Calls, Deliver(c)
  PROVE  Typed'
<1> DEFINE event == [value |-> call[c].value, at |-> call[c].at, seq |-> call[c].seq,
                     by |-> StoreOf(c)]
           won == [call[c] EXCEPT !.pc = "accepted"]
           lost == [call[c] EXCEPT !.pc = "superseded", !.value = mirror.value,
                                   !.at = mirror.at, !.seq = None]
<1>1. /\ StoreOf(c) \in Stores /\ call[c] \in Call /\ Len(log) \in Nat
      /\ Carries(call[c], row[StoreOf(c)], Len(log)) /\ mirror \in Ordering
      /\ mirror.value # None /\ log \in Seq(Event)
  BY StoreOfCall DEF Typed, TypeOK, Sound
<1>2. /\ call[c].value \in Values /\ call[c].at \in Nat /\ call[c].seq \in Nat
      /\ call[c].value # None /\ row[StoreOf(c)] # None
  BY <1>1 DEF Deliver, Carries, CarriesValue, Call
<1>3. event \in Event
  BY <1>1, <1>2 DEF Event
<1>4. log' = Append(log, event)
  BY DEF Deliver
<1> HIDE DEF event
<1>5. log' \in Seq(Event) /\ Len(log') \in Nat /\ Len(log) <= Len(log')
  BY <1>1, <1>3, <1>4
<1>6. mirror' \in Ordering /\ mirror'.value # None
  <2>1. CASE UNCHANGED mirror
    BY <1>1, <2>1
  <2>2. CASE mirror' = [value |-> call[c].value, at |-> call[c].at, seq |-> call[c].seq]
    BY <1>2, <2>2 DEF Ordering
  <2>3. QED
    BY <2>1, <2>2 DEF Deliver
<1>7. won \in Call /\ lost \in Call
  BY <1>1 DEF Call, Ordering
<1>8. Carries(won, row[StoreOf(c)], Len(log')) /\ Carries(lost, row[StoreOf(c)], Len(log'))
  <2>1. won.pc = "accepted" /\ won.value # None /\ lost.pc = "superseded" /\ lost.value # None
    BY <1>1, <1>2 DEF Call
  <2>2. QED
    BY <1>2, <2>1 DEF Carries
<1>9. call' = [call EXCEPT ![c] = won] \/ call' = [call EXCEPT ![c] = lost]
  BY DEF Deliver
<1> HIDE DEF won, lost
<1>10. Sound(call', row, Len(log'))
  <2>1. Sound(call, row, Len(log)) /\ \A s \in Stores : row[s] # None => row[s] # None
    BY DEF Typed
  <2>2. CASE call' = [call EXCEPT ![c] = won]
    <3>1. Sound([call EXCEPT ![c] = won], row, Len(log'))
      BY <1>1, <1>5, <1>7, <1>8, <2>1, CallStepSound, ZenonT(30)
    <3>2. QED
      BY <2>2, <3>1
  <2>3. CASE call' = [call EXCEPT ![c] = lost]
    <3>1. Sound([call EXCEPT ![c] = lost], row, Len(log'))
      BY <1>1, <1>5, <1>7, <1>8, <2>1, CallStepSound, ZenonT(30)
    <3>2. QED
      BY <2>3, <3>1
  <2>4. QED
    BY <1>9, <2>2, <2>3
<1>11. Sound(call', row', Len(log'))
  BY <1>10 DEF Deliver
<1>12. QED
  BY <1>5, <1>6, <1>11, TypedFrom DEF Deliver, Typed, TypeOK

LEMMA AcceptedTyped ==
  ASSUME Typed, NEW c \in Calls, Accepted(c)
  PROVE  Typed'
<1>1. Sound(call', row', Len(log'))
  BY ReturnSound DEF Accepted
<1>2. QED
  BY <1>1, TypedFrom DEF Accepted, Typed, TypeOK

LEMMA ConvergeTyped ==
  ASSUME Typed, NEW c \in Calls, Converge(c)
  PROVE  Typed'
<1> DEFINE r == [call[c] EXCEPT !.pc = "settle"]
<1>1. /\ StoreOf(c) \in Stores /\ call[c] \in Call /\ Len(log) \in Nat /\ Len(log) <= Len(log)
      /\ Carries(call[c], row[StoreOf(c)], Len(log))
  BY StoreOfCall DEF Typed, TypeOK, Sound
<1>2. r \in Call /\ r.pc = "settle" /\ r.value = call[c].value /\ call' = [call EXCEPT ![c] = r]
  BY <1>1 DEF Converge, Call
<1>3. call[c].value \in Values /\ call[c].value # None
  BY <1>1 DEF Converge, Carries, CarriesValue, Call
<1>4. /\ row' \in [Stores -> Values \cup {None}] /\ row'[StoreOf(c)] # None
      /\ \A t \in Stores : row[t] # None => row'[t] # None
  BY <1>1, <1>3 DEF Converge, Typed, TypeOK
<1>5. Carries(r, row'[StoreOf(c)], Len(log))
  BY <1>1, <1>2, <1>3, <1>4 DEF Carries
<1> HIDE DEF r
<1>6. Sound([call EXCEPT ![c] = r], row', Len(log))
  <2>1. Sound(call, row, Len(log))
    BY DEF Typed
  <2>2. QED
    BY <1>1, <1>2, <1>4, <1>5, <2>1, CallStepSound, ZenonT(30)
<1>7. Sound(call', row', Len(log'))
  BY <1>2, <1>6 DEF Converge
<1>8. QED
  BY <1>4, <1>7, TypedFrom DEF Converge, Typed, TypeOK

LEMMA SettleTyped ==
  ASSUME Typed, NEW c \in Calls, Settle(c)
  PROVE  Typed'
<1>1. [value |-> call[c].value, at |-> call[c].at, seq |-> None] \in Ordering
  <2>1. call[c] \in Call
    BY DEF Typed, TypeOK
  <2>2. QED
    BY <2>1 DEF Call, Ordering
<1>2. recorded' \in [Stores -> Ordering]
  BY <1>1, StoreOfCall DEF Settle, Typed, TypeOK
<1>3. Sound(call', row', Len(log'))
  BY ReturnSound DEF Settle
<1>4. QED
  BY <1>2, <1>3, TypedFrom DEF Settle, Typed, TypeOK

LEMMA InterruptTyped ==
  ASSUME Typed, NEW c \in Calls, Interrupt(c)
  PROVE  Typed'
<1>1. Sound(call', row', Len(log'))
  BY ReturnSound DEF Interrupt
<1>2. QED
  BY <1>1, TypedFrom DEF Interrupt, Typed, TypeOK

LEMMA CloneTyped ==
  ASSUME Typed, NEW s \in Stores, Clone(s)
  PROVE  Typed'
<1>1. /\ row' \in [Stores -> Values \cup {None}] /\ cursor' \in [Stores -> Nat]
      /\ \A t \in Stores : row[t] # None => row'[t] # None
  BY DEF Clone, Typed, TypeOK, Ordering
<1>2. Sound(call, row', Len(log))
  <2>1. Sound(call, row, Len(log))
    BY DEF Typed
  <2>2. QED
    BY <1>1, <2>1, RestSound, ZenonT(30)
<1>3. Sound(call', row', Len(log'))
  BY <1>2 DEF Clone
<1>4. QED
  BY <1>1, <1>3, TypedFrom DEF Clone, Typed, TypeOK

LEMMA TypedStep == Typed /\ [Next]_vars => Typed'
<1> SUFFICES ASSUME Typed, [Next]_vars PROVE Typed'
  OBVIOUS
<1>1. ASSUME NEW c \in Calls, CallStep(c) PROVE Typed'
  BY <1>1, EditTyped, DecideTyped, OpenPullTyped, FetchPageTyped, MergePageTyped,
     RollBackPageTyped, PersistCursorTyped, StopPullTyped, TakeSeqTyped, WriteLocalTyped,
     RecordTyped, DeliverTyped, AcceptedTyped, ConvergeTyped, SettleTyped, InterruptTyped
     DEF CallStep
<1>2. ASSUME NEW s \in Stores, Clone(s) PROVE Typed'
  BY <1>2, CloneTyped
<1>3. ASSUME NEW s \in Stores, NEW v \in Unshared, WriteUnshared(s, v) PROVE Typed'
  BY <1>3, UnsharedTyped
<1>4. CASE Tick
  BY <1>4, TypedFrom DEF Tick, Typed, TypeOK
<1>5. CASE UNCHANGED vars
  BY <1>5, TypedFrom DEF vars, Typed, TypeOK
<1>6. QED
  BY <1>1, <1>2, <1>3, <1>4, <1>5 DEF Next

LEMMA AlwaysTyped == Spec => []Typed
BY TypedInit, TypedStep, PTL DEF Spec

\* Every value a store, the broker or a call holds is of its type, however many
\* stores and calls there are: in particular no step writes NULL into a row, a
\* cursor or the log.
THEOREM TypeCorrect == Spec => []TypeOK
<1>1. Typed => TypeOK
  BY DEF Typed
<1>2. QED
  BY <1>1, AlwaysTyped, PTL

-----------------------------------------------------------------------------
(* Counters.  nextOriginSeq reads and writes the counter in two statements; *)
(* where no other call runs on the store between them, the broker gets the  *)
(* numbers of a store in order, and the log is ordered by them.             *)

OneProcess == \A p, q \in Processes : p = q

\* Of two edits of a store, the one that reached the broker later carries the
\* higher number.
LogNumbered ==
  \A i, j \in DOMAIN log :
    i < j /\ log[i].by = log[j].by => log[i].seq < log[j].seq

\* A number taken is above all that the broker has from the store, and the
\* counter does not fall behind the log.
Numbered ==
  /\ \A i \in DOMAIN log : log[i].seq <= counter[log[i].by]
  /\ \A c \in Calls :
       /\ call[c].pc = "write" => call[c].seq = counter[StoreOf(c)] + 1
       /\ call[c].pc \in {"record", "send"} =>
            /\ call[c].seq <= counter[StoreOf(c)]
            /\ \A i \in DOMAIN log : log[i].by = StoreOf(c) => log[i].seq < call[c].seq
  /\ LogNumbered

LEMMA OneCallPerStore ==
  ASSUME OneProcess, NEW c \in Calls, NEW d \in Calls, StoreOf(c) = StoreOf(d)
  PROVE  c = d
BY DEF OneProcess, Calls, StoreOf

LEMMA LogTypes ==
  ASSUME TypeOK, NEW i \in DOMAIN log
  PROVE  log[i].by \in Stores /\ log[i].seq \in Nat
<1>1. log[i] \in Event
  BY DEF TypeOK
<1>2. QED
  BY <1>1 DEF Event

\* A step that takes no number, leaves the counters and the log, and lets a call
\* that has a number go from its record to its send at most.
LEMMA QuietStep ==
  ASSUME Numbered, UNCHANGED <<counter, log>>,
         \A d \in Calls :
           call'[d].pc \in {"write", "record", "send"} =>
             /\ call'[d].seq = call[d].seq
             /\ \/ call[d].pc = call'[d].pc
                \/ call[d].pc = "record" /\ call'[d].pc = "send"
  PROVE  Numbered'
BY DEF Numbered, LogNumbered

LEMMA QuietCall ==
  ASSUME Numbered, UNCHANGED <<counter, log>>, NEW c \in Calls,
         \A d \in Calls : d # c => call'[d] = call[d],
         \/ call'[c].pc \notin {"write", "record", "send"}
         \/ call[c].pc = "record" /\ call'[c].pc = "send" /\ call'[c].seq = call[c].seq
  PROVE  Numbered'
BY QuietStep

LEMMA QuietReturn ==
  ASSUME Typed, Numbered, NEW c \in Calls, Return(c), UNCHANGED <<counter, log>>
  PROVE  Numbered'
BY QuietStep, IdleCallType DEF Return, Typed, TypeOK

LEMMA QuietFinishPull ==
  ASSUME Typed, Numbered, NEW c \in Calls, FinishPull(c), UNCHANGED <<counter, log>>
  PROVE  Numbered'
<1>1. CASE call[c].value = None
  BY <1>1, QuietReturn DEF FinishPull
<1>2. CASE call[c].value # None
  <2> DEFINE r == [IdleCall EXCEPT !.pc = "stamp", !.value = call[c].value]
  <2>1. r.pc = "stamp"
    BY DEF IdleCall
  <2>2. call' = [call EXCEPT ![c] = r]
    BY <1>2 DEF FinishPull
  <2> HIDE DEF r
  <2>3. QED
    BY <2>1, <2>2, QuietStep DEF Typed, TypeOK
<1>3. QED
  BY <1>1, <1>2

LEMMA NumberedInit == Init => Numbered
BY DEF Init, Numbered, LogNumbered, IdleCall

LEMMA TakeSeqNumbered ==
  ASSUME Typed, Numbered, NEW c \in Calls, TakeSeq(c)
  PROVE  Numbered'
<1>1. /\ call'[c].pc = "write" /\ call'[c].seq = counter[StoreOf(c)] + 1
      /\ \A d \in Calls : d # c => call'[d] = call[d]
      /\ counter' = counter /\ log' = log
  BY DEF TakeSeq, Typed, TypeOK, Call
<1>2. QED
  BY <1>1 DEF Numbered, LogNumbered

LEMMA WriteLocalNumbered ==
  ASSUME OneProcess, Typed, Numbered, NEW c \in Calls, WriteLocal(c)
  PROVE  Numbered'
<1>1. /\ StoreOf(c) \in Stores /\ counter[StoreOf(c)] \in Nat
      /\ call[c].seq = counter[StoreOf(c)] + 1
  BY StoreOfCall DEF WriteLocal, Numbered, Typed, TypeOK
<1>2. /\ call'[c].pc = "record" /\ call'[c].seq = call[c].seq
      /\ \A d \in Calls : d # c => call'[d] = call[d]
  BY DEF WriteLocal, Typed, TypeOK, Call
<1>3. /\ counter'[StoreOf(c)] = call[c].seq /\ log' = log
      /\ \A s \in Stores : s # StoreOf(c) => counter'[s] = counter[s]
  BY <1>1 DEF WriteLocal, Typed, TypeOK
<1>4. \A d \in Calls : d # c => StoreOf(d) \in Stores /\ StoreOf(d) # StoreOf(c)
  BY OneCallPerStore, StoreOfCall
<1>5. \A i \in DOMAIN log : log[i].by \in Stores /\ log[i].seq \in Nat
  BY LogTypes DEF Typed
<1>6. \A i \in DOMAIN log : log[i].by = StoreOf(c) => log[i].seq < call[c].seq
  BY <1>1, <1>5 DEF Numbered
<1>7. \A i \in DOMAIN log' : log'[i].seq <= counter'[log'[i].by]
  BY <1>1, <1>3, <1>5, <1>6 DEF Numbered
<1>8. ASSUME NEW d \in Calls
      PROVE  /\ call'[d].pc = "write" => call'[d].seq = counter'[StoreOf(d)] + 1
             /\ call'[d].pc \in {"record", "send"} =>
                  /\ call'[d].seq <= counter'[StoreOf(d)]
                  /\ \A i \in DOMAIN log' : log'[i].by = StoreOf(d) => log'[i].seq < call'[d].seq
  <2>1. CASE d = c
    BY <1>1, <1>2, <1>3, <1>6, <2>1
  <2>2. CASE d # c
    BY <1>2, <1>3, <1>4, <2>2 DEF Numbered
  <2>3. QED
    BY <2>1, <2>2
<1>9. QED
  BY <1>3, <1>7, <1>8 DEF Numbered, LogNumbered

LEMMA DeliverNumbered ==
  ASSUME OneProcess, Typed, Numbered, NEW c \in Calls, Deliver(c)
  PROVE  Numbered'
<1>1. PICK e \in Event :
        log' = Append(log, e) /\ e.by = StoreOf(c) /\ e.seq = call[c].seq
  <2>1. call[c] \in Call /\ Carries(call[c], row[StoreOf(c)], Len(log))
    BY DEF Typed, TypeOK, Sound
  <2>2. /\ call[c].value \in Values /\ call[c].at \in Nat /\ call[c].seq \in Nat
    BY <2>1 DEF Deliver, Carries, CarriesValue, Call
  <2>3. [value |-> call[c].value, at |-> call[c].at, seq |-> call[c].seq, by |-> StoreOf(c)]
          \in Event
    BY <2>2, StoreOfCall DEF Event
  <2>4. QED
    BY <2>3 DEF Deliver
<1>2. /\ e.by \in Stores /\ e.seq \in Nat /\ e.seq <= counter[e.by]
      /\ \A i \in DOMAIN log : log[i].by = e.by => log[i].seq < e.seq
  BY <1>1 DEF Deliver, Numbered, Event
<1>3. /\ Len(log) \in Nat /\ DOMAIN log = 1..Len(log) /\ DOMAIN log' = 1..Len(log) + 1
      /\ log'[Len(log) + 1] = e
      /\ \A i \in DOMAIN log : log'[i] = log[i]
  BY <1>1 DEF Typed, TypeOK
<1>4. /\ call'[c].pc \notin {"write", "record", "send"} /\ counter' = counter
      /\ \A d \in Calls : d # c => call'[d] = call[d]
  BY DEF Deliver, Typed, TypeOK, Call
<1>5. \A d \in Calls : d # c => StoreOf(d) # e.by
  BY <1>1, OneCallPerStore
<1>6. \A i \in DOMAIN log' : log'[i].seq <= counter'[log'[i].by]
  BY <1>2, <1>3, <1>4 DEF Numbered
<1>7. ASSUME NEW d \in Calls
      PROVE  /\ call'[d].pc = "write" => call'[d].seq = counter'[StoreOf(d)] + 1
             /\ call'[d].pc \in {"record", "send"} =>
                  /\ call'[d].seq <= counter'[StoreOf(d)]
                  /\ \A i \in DOMAIN log' : log'[i].by = StoreOf(d) => log'[i].seq < call'[d].seq
  <2>1. CASE d = c
    BY <1>4, <2>1
  <2>2. CASE d # c
    BY <1>3, <1>4, <1>5, <2>2 DEF Numbered
  <2>3. QED
    BY <2>1, <2>2
<1>8. LogNumbered'
  <2>1. SUFFICES ASSUME NEW i \in DOMAIN log', NEW j \in DOMAIN log',
                        i < j, log'[i].by = log'[j].by
                 PROVE  log'[i].seq < log'[j].seq
    BY DEF LogNumbered
  <2>2. i \in DOMAIN log
    BY <1>3, <2>1
  <2>3. CASE j \in DOMAIN log
    BY <1>3, <2>1, <2>2, <2>3 DEF Numbered, LogNumbered
  <2>4. CASE j = Len(log) + 1
    BY <1>2, <1>3, <2>1, <2>2, <2>4
  <2>5. QED
    BY <1>3, <2>3, <2>4
<1>9. QED
  BY <1>6, <1>7, <1>8 DEF Numbered

LEMMA NumberedStep == OneProcess /\ Typed /\ Numbered /\ [Next]_vars => Numbered'
<1> SUFFICES ASSUME OneProcess, Typed, Numbered, [Next]_vars PROVE Numbered'
  OBVIOUS
<1>1. ASSUME NEW c \in Calls, NEW v \in Values, Edit(c, v) PROVE Numbered'
  BY <1>1, QuietStep DEF Edit, Typed, TypeOK, Call
<1>2. ASSUME NEW c \in Calls, Decide(c) PROVE Numbered'
  <2>1. CASE Suppressed(c)
    BY <1>2, <2>1, QuietReturn DEF Decide
  <2>2. CASE ~Suppressed(c)
    <3>1. call'[c].pc = "decided" /\ \A d \in Calls : d # c => call'[d] = call[d]
      BY <1>2, <2>2 DEF Decide, Typed, TypeOK, Call
    <3>2. QED
      BY <1>2, <3>1, QuietCall DEF Decide
  <2>3. QED
    BY <2>1, <2>2
<1>3. ASSUME NEW c \in Calls, OpenPull(c) \/ FetchPage(c) PROVE Numbered'
  <2>1. /\ call'[c].pc \in {"pull", "merge"}
        /\ \A d \in Calls : d # c => call'[d] = call[d]
    BY <1>3 DEF OpenPull, FetchPage, Typed, TypeOK, Call
  <2>2. QED
    BY <1>3, <2>1, QuietCall DEF OpenPull, FetchPage
<1>4. ASSUME NEW c \in Calls, MergePage(c) \/ RollBackPage(c) PROVE Numbered'
  BY <1>4, QuietStep DEF MergePage, RollBackPage, Typed, TypeOK, Call
<1>5. ASSUME NEW c \in Calls, PersistCursor(c) PROVE Numbered'
  <2>1. CASE call[c].more = 1
    <3>1. call'[c].pc = "pull" /\ \A d \in Calls : d # c => call'[d] = call[d]
      BY <1>5, <2>1 DEF PersistCursor, Typed, TypeOK, Call
    <3>2. QED
      BY <1>5, <3>1, QuietCall DEF PersistCursor
  <2>2. CASE call[c].more # 1
    BY <1>5, <2>2, QuietFinishPull DEF PersistCursor
  <2>3. QED
    BY <2>1, <2>2
<1>6. ASSUME NEW c \in Calls, StopPull(c) PROVE Numbered'
  BY <1>6, QuietFinishPull DEF StopPull
<1>7. ASSUME NEW c \in Calls, Record(c) \/ Converge(c) PROVE Numbered'
  <2>1. /\ \/ call'[c].pc = "settle"
           \/ call[c].pc = "record" /\ call'[c].pc = "send" /\ call'[c].seq = call[c].seq
        /\ \A d \in Calls : d # c => call'[d] = call[d]
    BY <1>7 DEF Record, Converge, Typed, TypeOK, Call
  <2>2. QED
    BY <1>7, <2>1, QuietCall DEF Record, Converge
<1>8. ASSUME NEW c \in Calls, Accepted(c) \/ Settle(c) \/ Interrupt(c) PROVE Numbered'
  BY <1>8, QuietReturn DEF Accepted, Settle, Interrupt
<1>9. ASSUME NEW c \in Calls, CallStep(c) PROVE Numbered'
  BY <1>1, <1>2, <1>3, <1>4, <1>5, <1>6, <1>7, <1>8, <1>9, TakeSeqNumbered,
     WriteLocalNumbered, DeliverNumbered DEF CallStep
<1>10. ASSUME NEW s \in Stores, Clone(s) PROVE Numbered'
  BY <1>10, QuietStep DEF Clone
<1>11. ASSUME NEW s \in Stores, NEW v \in Unshared, WriteUnshared(s, v) PROVE Numbered'
  BY <1>11, QuietStep DEF WriteUnshared
<1>12. CASE Tick
  BY <1>12, QuietStep DEF Tick
<1>13. CASE UNCHANGED vars
  BY <1>13, QuietStep DEF vars
<1>14. QED
  BY <1>9, <1>10, <1>11, <1>12, <1>13 DEF Next

-----------------------------------------------------------------------------
(* What a step of a call does, a fact per store and call.                  *)

\* The step of c touches no other call and no other store.
Elsewhere(c) ==
  /\ \A d \in Calls \ {c} : call'[d] = call[d]
  /\ \A t \in Stores \ {StoreOf(c)} :
       /\ row'[t] = row[t] /\ recorded'[t] = recorded[t] /\ cursor'[t] = cursor[t]
       /\ edit'[t] = edit[t] /\ (t \in unsettled' <=> t \in unsettled)

LEMMA ElsewhereStep ==
  ASSUME Typed, NEW c \in Calls, CallStep(c)
  PROVE  Elsewhere(c)
<1>1. /\ row \in [Stores -> Values \cup {None}] /\ recorded \in [Stores -> Ordering]
      /\ cursor \in [Stores -> Nat] /\ call \in [Calls -> Call]
      /\ edit \in [Stores -> [value : Values \cup {None}, at : Nat]]
  BY DEF Typed, TypeOK
<1>2. ASSUME NEW v, Edit(c, v) PROVE Elsewhere(c)
  BY <1>1, <1>2 DEF Edit, Elsewhere
<1>3. CASE Decide(c)
  BY <1>1, <1>3 DEF Decide, Return, Elsewhere
<1>4. CASE OpenPull(c) \/ FetchPage(c)
  BY <1>1, <1>4 DEF OpenPull, FetchPage, Elsewhere
<1>5. CASE MergePage(c)
  BY <1>1, <1>5 DEF MergePage, Elsewhere
<1>6. CASE RollBackPage(c)
  BY <1>1, <1>6 DEF RollBackPage, Elsewhere
<1>7. CASE PersistCursor(c)
  BY <1>1, <1>7 DEF PersistCursor, FinishPull, Return, Elsewhere
<1>8. CASE StopPull(c)
  BY <1>1, <1>8 DEF StopPull, FinishPull, Return, Elsewhere
<1>9. CASE TakeSeq(c) \/ WriteLocal(c) \/ Record(c)
  BY <1>1, <1>9 DEF TakeSeq, WriteLocal, Record, Elsewhere
<1>10. CASE Deliver(c)
  BY <1>1, <1>10 DEF Deliver, Elsewhere
<1>11. CASE Accepted(c) \/ Converge(c) \/ Settle(c) \/ Interrupt(c)
  BY <1>1, <1>11 DEF Accepted, Converge, Settle, Interrupt, Return, Elsewhere
<1>12. QED
  BY <1>2, <1>3, <1>4, <1>5, <1>6, <1>7, <1>8, <1>9, <1>10, <1>11 DEF CallStep

\* c goes on at pc with the value and the stamp it had.
Onward(c, pc) ==
  /\ call'[c].pc = pc /\ call'[c].value = call[c].value
  /\ call'[c].at = call[c].at /\ call'[c].seq = call[c].seq

\* A call with no page at hand is done, or goes on to its push with its value.
Finished(c) ==
  IF call[c].value = None THEN call'[c] = IdleCall
  ELSE call'[c].pc = "stamp" /\ call'[c].value = call[c].value

LEMMA EditDoes ==
  ASSUME Typed, NEW c \in Calls, NEW v \in Values, Edit(c, v)
  PROVE  LET s == StoreOf(c)
         IN /\ call[c].pc = "idle" /\ row[s] # None /\ Onward(c, "edited")
            /\ row'[s] = v /\ recorded'[s] = recorded[s] /\ cursor'[s] = cursor[s]
            /\ v = row[s] => edit'[s] = edit[s] /\ unsettled' = unsettled
            /\ v # row[s] => /\ edit'[s] = [value |-> v, at |-> Date(s)]
                             /\ s \in unsettled'
            /\ UNCHANGED <<log, mirror, instant>>
BY StoreOfCall DEF Edit, Onward, Typed, TypeOK, Call

LEMMA DecideDoes ==
  ASSUME Typed, NEW c \in Calls, Decide(c)
  PROVE  LET s == StoreOf(c)
         IN /\ call[c].pc = "edited"
            /\ \/ Suppressed(c) /\ call'[c] = IdleCall
               \/ call'[c].pc = "decided" /\ call'[c].value = row[s]
            /\ UNCHANGED <<row, recorded, cursor, log, mirror, instant, edit, unsettled>>
BY StoreOfCall DEF Decide, Return, Typed, TypeOK, Call

LEMMA OpenPullDoes ==
  ASSUME Typed, NEW c \in Calls, OpenPull(c)
  PROVE  /\ call[c].pc \in {"idle", "decided"} /\ Onward(c, "pull")
         /\ call'[c].since = cursor[StoreOf(c)]
         /\ UNCHANGED <<row, recorded, cursor, log, mirror, instant, edit, unsettled>>
BY StoreOfCall DEF OpenPull, Onward, Typed, TypeOK, Call

LEMMA FetchPageDoes ==
  ASSUME Typed, NEW c \in Calls, FetchPage(c)
  PROVE  /\ call[c].pc = "pull" /\ Onward(c, "merge")
         /\ call'[c].since = call[c].since /\ call'[c].to = PageEnd(call[c].since)
         /\ UNCHANGED <<row, recorded, cursor, log, mirror, instant, edit, unsettled>>
BY StoreOfCall DEF FetchPage, Onward, Typed, TypeOK, Call

LEMMA MergePageDoes ==
  ASSUME Typed, NEW c \in Calls, MergePage(c)
  PROVE  LET s == StoreOf(c)
         IN /\ call[c].pc = "merge" /\ Onward(c, "cursor")
            /\ call'[c].since = call[c].since /\ call'[c].to = call[c].to
            /\ \/ /\ row'[s] = row[s] /\ recorded'[s] = recorded[s]
                  /\ \A i \in call[c].since + 1 .. call[c].to : ~Wins(log[i], recorded[s])
               \/ \E i \in call[c].since + 1 .. call[c].to :
                    /\ StandsIn(i, call[c].since, call[c].to)
                    /\ Wins(log[i], recorded[s])
                    /\ row'[s] = log[i].value
                    /\ recorded'[s] = [value |-> log[i].value, at |-> log[i].at, seq |-> log[i].seq]
            /\ UNCHANGED <<cursor, log, mirror, instant, edit, unsettled>>
<1>1. StoreOf(c) \in Stores /\ row \in [Stores -> Values \cup {None}]
      /\ recorded \in [Stores -> Ordering] /\ call \in [Calls -> Call] /\ call[c] \in Call
  BY StoreOfCall DEF Typed, TypeOK
<1>2. Onward(c, "cursor") /\ call'[c].since = call[c].since /\ call'[c].to = call[c].to
  BY <1>1 DEF MergePage, Onward, Call
<1>3. CASE /\ \A i \in call[c].since + 1 .. call[c].to : ~Wins(log[i], recorded[StoreOf(c)])
           /\ UNCHANGED <<row, recorded>>
  BY <1>2, <1>3 DEF MergePage
<1>4. ASSUME NEW i \in call[c].since + 1 .. call[c].to,
             StandsIn(i, call[c].since, call[c].to), Wins(log[i], recorded[StoreOf(c)]),
             row' = [row EXCEPT ![StoreOf(c)] = log[i].value],
             recorded' = [recorded EXCEPT ![StoreOf(c)] =
               [value |-> log[i].value, at |-> log[i].at, seq |-> log[i].seq]]
      PROVE  /\ row'[StoreOf(c)] = log[i].value
             /\ recorded'[StoreOf(c)] =
                  [value |-> log[i].value, at |-> log[i].at, seq |-> log[i].seq]
  BY <1>1, <1>4
<1>5. QED
  BY <1>2, <1>3, <1>4 DEF MergePage

LEMMA RollBackPageDoes ==
  ASSUME Typed, NEW c \in Calls, RollBackPage(c)
  PROVE  /\ StoreOf(c) \in Fallible /\ call[c].pc = "merge" /\ Onward(c, "cursor")
         /\ call'[c].to = call[c].to /\ StoreOf(c) \in unsettled'
         /\ UNCHANGED <<row, recorded, cursor, log, mirror, instant, edit>>
BY StoreOfCall DEF RollBackPage, Onward, Typed, TypeOK, Call

LEMMA FinishPullDoes ==
  ASSUME Typed, NEW c \in Calls, FinishPull(c)
  PROVE  Finished(c)
<1>1. call \in [Calls -> Call]
  BY DEF Typed, TypeOK
<1>2. CASE call[c].value = None
  BY <1>1, <1>2 DEF FinishPull, Finished, Return
<1>3. CASE call[c].value # None
  <2> DEFINE r == [IdleCall EXCEPT !.pc = "stamp", !.value = call[c].value]
  <2>1. r.pc = "stamp" /\ r.value = call[c].value
    BY DEF IdleCall
  <2>2. call'[c] = r
    BY <1>1, <1>3 DEF FinishPull
  <2> HIDE DEF r
  <2>3. QED
    BY <1>3, <2>1, <2>2 DEF Finished
<1>4. QED
  BY <1>2, <1>3

LEMMA PersistCursorDoes ==
  ASSUME Typed, NEW c \in Calls, PersistCursor(c)
  PROVE  LET s == StoreOf(c)
         IN /\ call[c].pc = "cursor"
            /\ \/ Onward(c, "pull") /\ call'[c].since = call[c].to
               \/ Finished(c)
            /\ cursor'[s] = call[c].to
            /\ UNCHANGED <<row, recorded, log, mirror, instant, edit, unsettled>>
<1>1. StoreOf(c) \in Stores /\ cursor \in [Stores -> Nat]
      /\ call \in [Calls -> Call] /\ call[c] \in Call
  BY StoreOfCall DEF Typed, TypeOK
<1>2. cursor'[StoreOf(c)] = call[c].to
  BY <1>1 DEF PersistCursor
<1>3. CASE call[c].more = 1
  <2>1. Onward(c, "pull") /\ call'[c].since = call[c].to
    BY <1>1, <1>3 DEF PersistCursor, Onward, Call
  <2>2. QED
    BY <1>2, <2>1 DEF PersistCursor
<1>4. CASE call[c].more # 1
  <2>1. Finished(c)
    BY <1>4, FinishPullDoes DEF PersistCursor
  <2>2. QED
    BY <1>2, <2>1 DEF PersistCursor
<1>5. QED
  BY <1>3, <1>4

LEMMA StopPullDoes ==
  ASSUME Typed, NEW c \in Calls, StopPull(c)
  PROVE  /\ StoreOf(c) \in Fallible /\ call[c].pc = "pull" /\ Finished(c)
         /\ UNCHANGED <<row, recorded, cursor, log, mirror, instant, edit, unsettled>>
BY FinishPullDoes DEF StopPull

LEMMA TakeSeqDoes ==
  ASSUME Typed, NEW c \in Calls, TakeSeq(c)
  PROVE  /\ call[c].pc = "stamp" /\ call'[c].pc = "write" /\ call'[c].value = call[c].value
         /\ call'[c].at = Date(StoreOf(c))
         /\ UNCHANGED <<row, recorded, cursor, log, mirror, instant, edit, unsettled>>
BY DEF TakeSeq, Typed, TypeOK, Call

LEMMA WriteLocalDoes ==
  ASSUME Typed, NEW c \in Calls, WriteLocal(c)
  PROVE  LET s == StoreOf(c)
         IN /\ call[c].pc = "write" /\ Onward(c, "record")
            /\ row'[s] = call[c].value /\ s \in unsettled'
            /\ UNCHANGED <<recorded, cursor, log, mirror, instant, edit>>
BY StoreOfCall DEF WriteLocal, Onward, Typed, TypeOK, Call

LEMMA RecordDoes ==
  ASSUME Typed, NEW c \in Calls, Record(c)
  PROVE  LET s == StoreOf(c)
         IN /\ call[c].pc = "record" /\ Onward(c, "send")
            /\ recorded'[s] = [value |-> call[c].value, at |-> call[c].at, seq |-> call[c].seq]
            /\ UNCHANGED <<row, cursor, log, mirror, instant, edit, unsettled>>
BY StoreOfCall DEF Record, Onward, Typed, TypeOK, Call

\* The event that a call at its send delivers.
EventOf(c) == [value |-> call[c].value, at |-> call[c].at, seq |-> call[c].seq, by |-> StoreOf(c)]

LEMMA DeliverDoes ==
  ASSUME Typed, NEW c \in Calls, Deliver(c)
  PROVE  LET e == EventOf(c)
         IN /\ call[c].pc = "send" /\ e \in Event
            /\ e.value = call[c].value /\ e.at = call[c].at /\ e.seq = call[c].seq
            /\ e.by = StoreOf(c)
            /\ Len(log) \in Nat /\ Len(log') = Len(log) + 1 /\ log' \in Seq(Event)
            /\ log'[Len(log) + 1] = e /\ \A i \in 1 .. Len(log) : log'[i] = log[i]
            /\ \/ /\ Wins(e, mirror) /\ Onward(c, "accepted")
                  /\ mirror' = [value |-> e.value, at |-> e.at, seq |-> e.seq]
               \/ /\ ~Wins(e, mirror) /\ mirror' = mirror
                  /\ call'[c].pc = "superseded"
                  /\ call'[c].value = mirror.value /\ call'[c].at = mirror.at
            /\ UNCHANGED <<row, recorded, cursor, instant, edit, unsettled>>
<1> DEFINE e == EventOf(c)
<1>1. /\ call \in [Calls -> Call] /\ call[c] \in Call /\ log \in Seq(Event)
      /\ Carries(call[c], row[StoreOf(c)], Len(log)) /\ StoreOf(c) \in Stores
  BY StoreOfCall DEF Typed, TypeOK, Sound
<1>2. e \in Event
  BY <1>1 DEF Deliver, EventOf, Event, Carries, CarriesValue, Call
<1>3. /\ e.value = call[c].value /\ e.at = call[c].at /\ e.seq = call[c].seq
      /\ e.by = StoreOf(c)
  BY DEF EventOf
<1>4. log' = Append(log, e)
  BY DEF Deliver, EventOf
<1>5. \/ /\ Wins(e, mirror) /\ Onward(c, "accepted")
         /\ mirror' = [value |-> e.value, at |-> e.at, seq |-> e.seq]
      \/ /\ ~Wins(e, mirror) /\ mirror' = mirror
         /\ call'[c].pc = "superseded"
         /\ call'[c].value = mirror.value /\ call'[c].at = mirror.at
  <2>1. CASE Wins(e, mirror)
    BY <1>1, <2>1 DEF Deliver, EventOf, Onward, Call
  <2>2. CASE ~Wins(e, mirror)
    BY <1>1, <2>2 DEF Deliver, EventOf, Call
  <2>3. QED
    BY <2>1, <2>2
<1> HIDE DEF e
<1>6. /\ Len(log) \in Nat /\ Len(log') = Len(log) + 1 /\ log' \in Seq(Event)
      /\ log'[Len(log) + 1] = e /\ \A i \in 1 .. Len(log) : log'[i] = log[i]
  BY <1>1, <1>2, <1>4
<1>7. QED
  BY <1>2, <1>3, <1>5, <1>6 DEF e, Deliver

LEMMA AcceptedDoes ==
  ASSUME Typed, NEW c \in Calls, Accepted(c)
  PROVE  /\ call[c].pc = "accepted" /\ call'[c] = IdleCall
         /\ unsettled' = unsettled \ {StoreOf(c)}
         /\ UNCHANGED <<row, recorded, cursor, log, mirror, instant, edit>>
BY DEF Accepted, Return, Typed, TypeOK

LEMMA ConvergeDoes ==
  ASSUME Typed, NEW c \in Calls, Converge(c)
  PROVE  /\ call[c].pc = "superseded" /\ Onward(c, "settle")
         /\ row'[StoreOf(c)] = call[c].value
         /\ UNCHANGED <<recorded, cursor, log, mirror, instant, edit, unsettled>>
BY StoreOfCall DEF Converge, Onward, Typed, TypeOK, Call

LEMMA SettleDoes ==
  ASSUME Typed, NEW c \in Calls, Settle(c)
  PROVE  /\ call[c].pc = "settle" /\ call'[c] = IdleCall
         /\ recorded'[StoreOf(c)] = [value |-> call[c].value, at |-> call[c].at, seq |-> None]
         /\ unsettled' = unsettled \ {StoreOf(c)}
         /\ UNCHANGED <<row, cursor, log, mirror, instant, edit>>
BY StoreOfCall DEF Settle, Return, Typed, TypeOK

LEMMA InterruptDoes ==
  ASSUME Typed, NEW c \in Calls, Interrupt(c)
  PROVE  /\ StoreOf(c) \in Fallible /\ call'[c] = IdleCall
         /\ UNCHANGED <<row, recorded, cursor, log, mirror, instant, edit, unsettled>>
BY DEF Interrupt, Return, Typed, TypeOK

-----------------------------------------------------------------------------
(* What the change guard suppresses is known.                              *)

\* What is recorded in a store whose calls do not fail is at the broker, or a call
\* is sending it.
Sent ==
  /\ mirror.at # None => Logged(mirror.value, mirror.at)
  /\ \A c \in Calls :
       /\ call[c].pc \in {"superseded", "settle"} => Logged(call[c].value, call[c].at)
       /\ call[c].pc = "send" => /\ recorded[StoreOf(c)].value = call[c].value
                                 /\ recorded[StoreOf(c)].at = call[c].at
  /\ \A s \in Stores \ Fallible : recorded[s].value # None =>
       \/ Logged(recorded[s].value, recorded[s].at)
       \/ \E c \in Calls : StoreOf(c) = s /\ call[c].pc = "send"

LEMMA SentInit == Init => Sent
BY DEF Init, Sent, IdleCall

\* Where the one call of a store is not sending, what is recorded is at the broker.
LEMMA RecordedIsLogged ==
  ASSUME OneProcess, Sent, NEW c \in Calls, StoreOf(c) \notin Fallible,
         call[c].pc # "send", recorded[StoreOf(c)].value # None
  PROVE  Logged(recorded[StoreOf(c)].value, recorded[StoreOf(c)].at)
BY OneCallPerStore, StoreOfCall DEF Sent

\* A step of a call that leaves the broker alone.
LEMMA SentAside ==
  ASSUME OneProcess, Typed, Sent, NEW c \in Calls, Elsewhere(c), UNCHANGED <<log, mirror>>,
         call'[c].pc \in {"superseded", "settle"} => Logged(call'[c].value, call'[c].at),
         call'[c].pc = "send" => /\ recorded'[StoreOf(c)].value = call'[c].value
                                 /\ recorded'[StoreOf(c)].at = call'[c].at,
         StoreOf(c) \notin Fallible /\ recorded'[StoreOf(c)].value # None =>
           \/ Logged(recorded'[StoreOf(c)].value, recorded'[StoreOf(c)].at)
           \/ call'[c].pc = "send"
  PROVE  Sent'
<1>1. \A d \in Calls \ {c} : StoreOf(d) # StoreOf(c) /\ StoreOf(d) \in Stores
  BY OneCallPerStore, StoreOfCall
<1>2. /\ \A d \in Calls \ {c} : call'[d] = call[d]
      /\ \A t \in Stores \ {StoreOf(c)} : recorded'[t] = recorded[t]
  BY DEF Elsewhere
<1>3. \A v, t : Logged(v, t)' <=> Logged(v, t)
  BY DEF Logged
<1>4. mirror'.at # None => Logged(mirror.value, mirror.at)'
  BY DEF Sent, Logged
<1>5. ASSUME NEW d \in Calls
      PROVE  /\ call'[d].pc \in {"superseded", "settle"} => Logged(call[d].value, call[d].at)'
             /\ call'[d].pc = "send" => /\ recorded'[StoreOf(d)].value = call'[d].value
                                        /\ recorded'[StoreOf(d)].at = call'[d].at
  <2>1. CASE d = c
    BY <2>1 DEF Logged
  <2>2. CASE d # c
    BY <1>1, <1>2, <2>2 DEF Sent, Logged
  <2>3. QED
    BY <2>1, <2>2
<1>6. ASSUME NEW s \in Stores \ Fallible, recorded'[s].value # None
      PROVE  \/ Logged(recorded[s].value, recorded[s].at)'
             \/ \E d \in Calls : StoreOf(d) = s /\ call'[d].pc = "send"
  <2>1. CASE s = StoreOf(c)
    BY <1>6, <2>1 DEF Logged
  <2>2. CASE s # StoreOf(c)
    <3>1. recorded'[s] = recorded[s] /\ \A d \in Calls : StoreOf(d) = s => call'[d] = call[d]
      BY <1>2, <2>2
    <3>2. \/ Logged(recorded[s].value, recorded[s].at)
          \/ \E d \in Calls : StoreOf(d) = s /\ call[d].pc = "send"
      BY <1>6, <3>1 DEF Sent
    <3>3. QED
      BY <3>1, <3>2 DEF Logged
  <2>3. QED
    BY <2>1, <2>2
<1>7. QED
  BY <1>4, <1>5, <1>6 DEF Sent

LEMMA DeliverSent ==
  ASSUME OneProcess, Typed, Sent, NEW c \in Calls, Deliver(c)
  PROVE  Sent'
<1> DEFINE e == EventOf(c)  s == StoreOf(c)
<1>1. /\ call[c].pc = "send" /\ e.value = call[c].value /\ e.at = call[c].at
      /\ Len(log) \in Nat /\ Len(log') = Len(log) + 1 /\ log' \in Seq(Event)
      /\ log'[Len(log) + 1] = e /\ \A i \in 1 .. Len(log) : log'[i] = log[i]
      /\ recorded' = recorded
  BY DeliverDoes
<1>2. \/ /\ call'[c].pc = "accepted"
         /\ mirror' = [value |-> e.value, at |-> e.at, seq |-> e.seq]
      \/ /\ ~Wins(e, mirror) /\ mirror' = mirror
         /\ call'[c].pc = "superseded"
         /\ call'[c].value = mirror.value /\ call'[c].at = mirror.at
  BY DeliverDoes DEF Onward
<1> HIDE DEF e
<1>3. \A d \in Calls \ {c} : call'[d] = call[d]
  BY ElsewhereStep DEF Elsewhere, CallStep
<1>4. DOMAIN log = 1 .. Len(log) /\ DOMAIN log' = 1 .. Len(log')
  BY <1>1 DEF Typed, TypeOK
<1>5. \E i \in DOMAIN log' : log'[i].value = e.value /\ log'[i].at = e.at
  BY <1>1, <1>4
<1>6. \A v, t : Logged(v, t) => \E i \in DOMAIN log' : log'[i].value = v /\ log'[i].at = t
  BY <1>1, <1>4 DEF Logged
<1>7. mirror'.at # None => Logged(mirror.value, mirror.at)'
  BY <1>2, <1>5, <1>6 DEF Sent, Logged
<1>8. ASSUME NEW d \in Calls
      PROVE  /\ call'[d].pc \in {"superseded", "settle"} => Logged(call[d].value, call[d].at)'
             /\ call'[d].pc = "send" => /\ recorded'[StoreOf(d)].value = call'[d].value
                                        /\ recorded'[StoreOf(d)].at = call'[d].at
  <2>1. CASE d = c
    <3>1. CASE call'[c].pc = "accepted"
      BY <2>1, <3>1
    <3>2. CASE call'[c].pc = "superseded" /\ ~Wins(e, mirror) /\ mirror' = mirror
      <4>1. mirror.at # None
        BY <3>2 DEF Wins
      <4>2. call'[c].value = mirror'.value /\ call'[c].at = mirror'.at /\ mirror'.at # None
        BY <1>2, <3>2, <4>1
      <4>3. QED
        BY <1>7, <2>1, <3>2, <4>2 DEF Logged
    <3>3. QED
      BY <1>2, <3>1, <3>2
  <2>2. CASE d # c
    BY <1>1, <1>3, <1>6, <2>2 DEF Sent, Logged
  <2>3. QED
    BY <2>1, <2>2
<1>9. ASSUME NEW t \in Stores \ Fallible, recorded'[t].value # None
      PROVE  \/ Logged(recorded[t].value, recorded[t].at)'
             \/ \E d \in Calls : StoreOf(d) = t /\ call'[d].pc = "send"
  <2>1. CASE t = s
    <3>1. recorded[t].value = e.value /\ recorded[t].at = e.at
      BY <1>1, <2>1 DEF Sent
    <3>2. QED
      BY <1>1, <1>5, <3>1 DEF Logged
  <2>2. CASE t # s
    <3>1. \/ Logged(recorded[t].value, recorded[t].at)
          \/ \E d \in Calls : StoreOf(d) = t /\ call[d].pc = "send"
      BY <1>1, <1>9 DEF Sent
    <3>2. CASE Logged(recorded[t].value, recorded[t].at)
      BY <1>1, <1>6, <3>2 DEF Logged
    <3>3. CASE \E d \in Calls : StoreOf(d) = t /\ call[d].pc = "send"
      BY <1>3, <2>2, <3>3
    <3>4. QED
      BY <3>1, <3>2, <3>3
  <2>3. QED
    BY <2>1, <2>2
<1>10. QED
  BY <1>7, <1>8, <1>9 DEF Sent

LEMMA MergePageSent ==
  ASSUME OneProcess, Typed, Sent, NEW c \in Calls, MergePage(c)
  PROVE  Sent'
<1> DEFINE s == StoreOf(c)
<1>1. call[c].pc = "merge" /\ call'[c].pc = "cursor" /\ UNCHANGED <<log, mirror>>
  BY MergePageDoes DEF Onward
<1>2. s \notin Fallible /\ recorded'[s].value # None
        => Logged(recorded'[s].value, recorded'[s].at)
  <2>1. CASE recorded'[s] = recorded[s]
    BY <1>1, <2>1, RecordedIsLogged
  <2>2. ASSUME NEW i \in call[c].since + 1 .. call[c].to,
               recorded'[s] = [value |-> log[i].value, at |-> log[i].at, seq |-> log[i].seq]
        PROVE  Logged(recorded'[s].value, recorded'[s].at)
    <3>1. /\ call[c] \in Call /\ Carries(call[c], row[s], Len(log)) /\ log \in Seq(Event)
      BY DEF Typed, TypeOK, Sound
    <3>2. call[c].to <= Len(log) /\ call[c].to \in Nat /\ call[c].since \in Nat
      BY <1>1, <3>1 DEF Carries, Call
    <3>3. i \in DOMAIN log
      BY <3>1, <3>2
    <3>4. QED
      BY <2>2, <3>3 DEF Logged
  <2>3. QED
    BY <2>1, <2>2, MergePageDoes
<1>3. Elsewhere(c)
  BY ElsewhereStep DEF CallStep
<1>4. QED
  BY <1>1, <1>2, <1>3, SentAside

LEMMA SentStep == OneProcess /\ Typed /\ Sent /\ [Next]_vars => Sent'
<1> SUFFICES ASSUME OneProcess, Typed, Sent, [Next]_vars PROVE Sent'
  OBVIOUS
<1>1. ASSUME NEW c \in Calls, CallStep(c), ~Deliver(c), ~MergePage(c)
      PROVE  Sent'
  <2> DEFINE s == StoreOf(c)
  <2>1. Elsewhere(c)
    BY <1>1, ElsewhereStep
  <2>2. IdleCall.pc = "idle"
    BY DEF IdleCall
  <2>3. ASSUME s \in Fallible \/ call[c].pc # "send", recorded'[s] = recorded[s], UNCHANGED <<log, mirror>>,
               call'[c].pc \notin {"superseded", "settle", "send"}
        PROVE  Sent'
    BY <2>1, <2>3, RecordedIsLogged, SentAside
  <2>4. ASSUME NEW v \in Values, Edit(c, v) PROVE Sent'
    BY <2>3, <2>4, EditDoes DEF Onward
  <2>5. CASE Decide(c)
    BY <2>2, <2>3, <2>5, DecideDoes
  <2>6. CASE OpenPull(c)
    BY <2>3, <2>6, OpenPullDoes DEF Onward
  <2>7. CASE FetchPage(c)
    BY <2>3, <2>7, FetchPageDoes DEF Onward
  <2>8. CASE PersistCursor(c)
    BY <2>2, <2>3, <2>8, PersistCursorDoes DEF Onward, Finished
  <2>9. CASE TakeSeq(c)
    BY <2>3, <2>9, TakeSeqDoes
  <2>10. CASE WriteLocal(c)
    BY <2>3, <2>10, WriteLocalDoes DEF Onward
  <2>11. CASE Record(c)
    <3>1. /\ recorded'[s] = [value |-> call[c].value, at |-> call[c].at, seq |-> call[c].seq]
          /\ UNCHANGED <<log, mirror>>
          /\ call'[c].pc = "send" /\ call'[c].value = call[c].value /\ call'[c].at = call[c].at
      BY <2>11, RecordDoes DEF Onward
    <3>2. recorded'[s].value = call'[c].value /\ recorded'[s].at = call'[c].at
      BY <3>1
    <3>3. QED
      BY <2>1, <3>1, <3>2, SentAside
  <2>12. CASE Accepted(c)
    BY <2>2, <2>3, <2>12, AcceptedDoes
  <2>13. CASE Converge(c)
    <3>1. /\ call[c].pc = "superseded" /\ call'[c].pc = "settle"
          /\ call'[c].value = call[c].value /\ call'[c].at = call[c].at
          /\ recorded' = recorded /\ UNCHANGED <<log, mirror>>
      BY <2>13, ConvergeDoes DEF Onward
    <3>2. Logged(call'[c].value, call'[c].at)
      BY <3>1 DEF Sent
    <3>3. QED
      BY <2>1, <3>1, <3>2, RecordedIsLogged, SentAside
  <2>14. CASE Settle(c)
    <3>1. /\ call[c].pc = "settle" /\ call'[c].pc = "idle" /\ UNCHANGED <<log, mirror>>
          /\ recorded'[s] = [value |-> call[c].value, at |-> call[c].at, seq |-> None]
      BY <2>2, <2>14, SettleDoes
    <3>2. Logged(recorded'[s].value, recorded'[s].at)
      <4>1. recorded'[s].value = call[c].value /\ recorded'[s].at = call[c].at
        BY <3>1
      <4>2. Logged(call[c].value, call[c].at)
        BY <3>1 DEF Sent
      <4>3. QED
        BY <4>1, <4>2
    <3>3. QED
      BY <2>1, <3>1, <3>2, SentAside
  <2>15. CASE RollBackPage(c)
    BY <2>3, <2>15, RollBackPageDoes DEF Onward, RollBackPage
  <2>17. CASE StopPull(c)
    BY <2>2, <2>3, <2>17, StopPullDoes DEF Finished, StopPull
  <2>18. CASE Interrupt(c)
    BY <2>2, <2>3, <2>18, InterruptDoes DEF Interrupt
  <2>16. QED
    BY <1>1, <2>4, <2>5, <2>6, <2>7, <2>8, <2>9, <2>10, <2>11, <2>12, <2>13, <2>14, <2>15,
       <2>17, <2>18 DEF CallStep
<1>2. ASSUME UNCHANGED <<recorded, log, mirror, call>>
      PROVE  Sent'
  BY <1>2 DEF Sent, Logged
<1>3. CASE \E s \in Stores : Clone(s) \/ \E v \in Unshared : WriteUnshared(s, v)
  BY <1>2, <1>3 DEF Clone, WriteUnshared
<1>4. CASE Tick \/ UNCHANGED vars
  BY <1>2, <1>4 DEF Tick, vars
<1>5. QED
  BY <1>1, <1>3, <1>4, DeliverSent, MergePageSent DEF Next

\* Where calls on a store do not overlap, what the change guard suppresses in a store
\* whose calls do not fail is known to the broker, whatever fails in the others.
THEOREM GuardKnowsTheBroker ==
  ASSUME OneProcess
  PROVE  Spec => []SuppressedIsKnown
<1>1. Sent /\ Typed /\ [Next]_vars => Sent'
  BY SentStep
<1>2. Sent /\ Typed => SuppressedIsKnown
  <2> SUFFICES ASSUME Sent, Typed, NEW c \in Calls, StoreOf(c) \notin Fallible, Suppressed(c)
               PROVE  Logged(recorded[StoreOf(c)].value, recorded[StoreOf(c)].at)
    BY DEF SuppressedIsKnown
  <2>1. call[c].pc = "edited" /\ recorded[StoreOf(c)].value = row[StoreOf(c)]
    BY DEF Suppressed
  <2>2. row[StoreOf(c)] # None
    BY <2>1 DEF Typed, Sound, Carries
  <2>3. QED
    BY <2>1, <2>2, RecordedIsLogged
<1>3. QED
  BY <1>1, <1>2, SentInit, AlwaysTyped, PTL DEF Spec

-----------------------------------------------------------------------------
(* The last edit survives.                                                 *)

\* r is an ordering no older than the edit e, if there was one.
Since(r, e) == e.value = None \/ (r.at # None /\ r.at >= e.at)

\* c works on no edit of its own.
Rests(c) ==
  call[c].pc = "idle" \/ (call[c].pc \in {"pull", "merge", "cursor"} /\ call[c].value = None)

\* The change guard compares with the row what was recorded; if it is in use, every
\* write of the row has to be propagated.
GuardSeesAll == EmitOnlyIfChanged => Unshared = {}

\* What is recorded is no older than the last edit, and under the guard it is what
\* stands in the row.
Stands(s) ==
  /\ Since(recorded[s], edit[s])
  /\ EmitOnlyIfChanged => recorded[s].value \in {None, row[s]}

\* On its way a call carries an ordering that is no older than the last edit.
Traced(c) ==
  LET s == StoreOf(c)  k == call[c]
  IN /\ k.pc \in {"idle", "edited"} => k.value = None
     /\ k.pc = "edited" /\ EmitOnlyIfChanged =>
          Since(recorded[s], edit[s]) \/ recorded[s].value # row[s]
     /\ k.pc \in {"write", "record", "send", "superseded", "settle"} => Since(k, edit[s])
     /\ k.pc \in {"record", "send", "settle"} /\ EmitOnlyIfChanged => row[s] = k.value
     /\ k.pc = "send" => recorded[s].value = k.value /\ recorded[s].at = k.at
     /\ k.pc = "accepted" => Stands(s)

EditKept ==
  /\ \A s \in Stores : edit[s].at <= Date(s)
  /\ \A s \in Stores \ Fallible :
       /\ (\A c \in Calls : StoreOf(c) = s => Rests(c)) => Stands(s)
       /\ row[s] = None => edit[s].value = None /\ recorded[s].value = None
  /\ \A c \in Calls : StoreOf(c) \notin Fallible => Traced(c)

LEMMA EditKeptInit == Init => EditKept
<1> SUFFICES ASSUME Init PROVE EditKept
  OBVIOUS
<1>1. \A s \in Stores : edit[s].at = 0 /\ edit[s].value = None /\ recorded[s].value = None
  BY DEF Init
<1>2. ASSUME NEW s \in Stores PROVE 0 <= Date(s)
  <2>1. Date(s) \in Nat
    BY TypedInit, DateType DEF Typed
  <2>2. QED
    BY <2>1
<1>3. \A c \in Calls : call[c].pc = "idle" /\ call[c].value = None
  BY DEF Init, IdleCall
<1>4. QED
  BY <1>1, <1>2, <1>3 DEF EditKept, Stands, Since, Traced

\* A step of c keeps the rest of the invariant, if it does so at c's own store.
LEMMA EditKeptAside ==
  ASSUME OneProcess, Typed, EditKept, NEW c \in Calls, Elsewhere(c), instant' = instant,
         edit'[StoreOf(c)].at <= Date(StoreOf(c)),
         StoreOf(c) \notin Fallible => /\ row'[StoreOf(c)] # None
                                       /\ Traced(c)' /\ (Rests(c)' => Stands(StoreOf(c))')
  PROVE  EditKept'
<1> DEFINE s == StoreOf(c)
<1>1. s \in Stores /\ \A d \in Calls \ {c} : StoreOf(d) # s /\ StoreOf(d) \in Stores
  BY OneCallPerStore, StoreOfCall
<1>2. /\ \A d \in Calls \ {c} : call'[d] = call[d]
      /\ \A t \in Stores \ {s} : row'[t] = row[t] /\ recorded'[t] = recorded[t] /\ edit'[t] = edit[t]
  BY DEF Elsewhere
<1>3. \A t \in Stores : Date(t)' = Date(t)
  BY DEF Date
<1>4. \A t \in Stores : edit'[t].at <= Date(t)'
  BY <1>2, <1>3 DEF EditKept
<1>5. ASSUME NEW t \in Stores \ Fallible, \A d \in Calls : StoreOf(d) = t => Rests(d)'
      PROVE  Stands(t)'
  <2>1. CASE t = s
    BY <1>5, <2>1
  <2>2. CASE t # s
    <3>1. \A d \in Calls : StoreOf(d) = t => Rests(d)
      BY <1>2, <1>5, <2>2 DEF Rests
    <3>2. Stands(t)
      BY <3>1 DEF EditKept
    <3>3. QED
      BY <1>2, <2>2, <3>2 DEF Stands
  <2>3. QED
    BY <2>1, <2>2
<1>6. ASSUME NEW t \in Stores \ Fallible, row'[t] = None
      PROVE  edit'[t].value = None /\ recorded'[t].value = None
  BY <1>2, <1>6 DEF EditKept
<1>7. ASSUME NEW d \in Calls, StoreOf(d) \notin Fallible
      PROVE  Traced(d)'
  <2>1. CASE d = c
    BY <1>7, <2>1
  <2>2. CASE d # c
    <3>1. Traced(d)
      BY <1>7 DEF EditKept
    <3>2. /\ call'[d] = call[d] /\ row'[StoreOf(d)] = row[StoreOf(d)]
          /\ recorded'[StoreOf(d)] = recorded[StoreOf(d)] /\ edit'[StoreOf(d)] = edit[StoreOf(d)]
      BY <1>1, <1>2, <2>2
    <3>3. QED
      BY <3>1, <3>2 DEF Traced, Stands
  <2>3. QED
    BY <2>1, <2>2
<1>8. QED
  BY <1>4, <1>5, <1>6, <1>7 DEF EditKept

\* What is known of a store whose call takes a step.
LEMMA EditKnown ==
  ASSUME OneProcess, Typed, EditKept, NEW c \in Calls, StoreOf(c) \notin Fallible
  PROVE  LET s == StoreOf(c)
         IN /\ Traced(c) /\ (Rests(c) => Stands(s))
            /\ edit[s].at \in Nat /\ Date(s) \in Nat /\ edit[s].at <= Date(s)
            /\ recorded[s] \in Ordering /\ call[c] \in Call
            /\ Carries(call[c], row[s], Len(log))
<1>1. StoreOf(c) \in Stores
  BY StoreOfCall
<1>2. \A d \in Calls : StoreOf(d) = StoreOf(c) => d = c
  BY OneCallPerStore
<1>3. Traced(c) /\ (Rests(c) => Stands(StoreOf(c))) /\ edit[StoreOf(c)].at <= Date(StoreOf(c))
  BY <1>1, <1>2 DEF EditKept
<1>4. /\ edit[StoreOf(c)].at \in Nat /\ recorded[StoreOf(c)] \in Ordering /\ call[c] \in Call
      /\ Carries(call[c], row[StoreOf(c)], Len(log))
  BY <1>1 DEF Typed, TypeOK, Sound
<1>5. Date(StoreOf(c)) \in Nat
  BY <1>1, DateType DEF Typed
<1>6. QED
  BY <1>3, <1>4, <1>5

\* Its step: the edit itself, the pull, the push, and the answer.
LEMMA EditTraced ==
  ASSUME OneProcess, Typed, EditKept, NEW c \in Calls, StoreOf(c) \notin Fallible,
         NEW v \in Values, Edit(c, v)
  PROVE  /\ row'[StoreOf(c)] # None
         /\ Traced(c)' /\ (Rests(c)' => Stands(StoreOf(c))')
<1> DEFINE s == StoreOf(c)
<1>1. v # None
  BY ValuesAreSound
<1>2. /\ call[c].pc = "idle" /\ call'[c].pc = "edited" /\ call'[c].value = call[c].value
      /\ row'[s] = v /\ recorded'[s] = recorded[s]
      /\ v = row[s] => edit'[s] = edit[s]
  BY EditDoes DEF Onward
<1>3. Traced(c) /\ Stands(s)
  BY <1>2, EditKnown DEF Rests
<1>4. call'[c].value = None
  BY <1>2, <1>3 DEF Traced
<1>5. CASE v = row[s]
  BY <1>1, <1>2, <1>3, <1>4, <1>5 DEF Traced, Stands, Rests, Since
<1>6. CASE v # row[s]
  <2>1. EmitOnlyIfChanged => recorded'[s].value \in {None, row[s]} /\ row'[s] = v
    BY <1>2, <1>3 DEF Stands
  <2>2. QED
    BY <1>1, <1>2, <1>4, <1>6, <2>1 DEF Traced, Rests
<1>7. QED
  BY <1>5, <1>6

LEMMA PullTraced ==
  ASSUME OneProcess, Typed, EditKept, NEW c \in Calls, StoreOf(c) \notin Fallible,
         Decide(c) \/ OpenPull(c) \/ FetchPage(c) \/ PersistCursor(c)
  PROVE  /\ row'[StoreOf(c)] # None
         /\ Traced(c)' /\ (Rests(c)' => Stands(StoreOf(c))')
<1> DEFINE s == StoreOf(c)
<1>1. UNCHANGED <<row, recorded, edit>> /\ row[s] # None
  BY EditKnown DEF Decide, OpenPull, FetchPage, PersistCursor, Carries
<1>2. Stands(s)' <=> Stands(s)
  BY <1>1 DEF Stands
<1>3. /\ call'[c].pc \in {"idle", "decided", "pull", "merge", "stamp"}
      /\ call'[c].pc = "idle" => call'[c].value = None
      /\ Rests(c)' => Rests(c) \/ Suppressed(c)
  <2>1. CASE Decide(c)
    BY <2>1, DecideDoes DEF IdleCall, Rests
  <2>2. CASE OpenPull(c)
    <3>1. call[c].pc = "decided" => call[c].value # None
      BY EditKnown DEF Carries, CarriesValue
    <3>2. QED
      BY <2>2, <3>1, OpenPullDoes DEF Onward, Rests
  <2>3. CASE FetchPage(c)
    BY <2>3, FetchPageDoes DEF Onward, Rests
  <2>4. CASE PersistCursor(c)
    <3>1. CASE Onward(c, "pull")
      BY <2>4, <3>1, PersistCursorDoes DEF Onward, Rests
    <3>2. CASE Finished(c)
      BY <2>4, <3>2, PersistCursorDoes DEF Finished, Rests, IdleCall
    <3>3. QED
      BY <2>4, <3>1, <3>2, PersistCursorDoes
  <2>5. QED
    BY <2>1, <2>2, <2>3, <2>4
<1>4. Traced(c)'
  BY <1>3 DEF Traced
<1>5. Suppressed(c) => Stands(s)
  BY EditKnown DEF Suppressed, Traced, Stands
<1>6. QED
  BY <1>1, <1>2, <1>3, <1>4, <1>5, EditKnown

LEMMA MergeTraced ==
  ASSUME OneProcess, Typed, EditKept, NEW c \in Calls, StoreOf(c) \notin Fallible, MergePage(c)
  PROVE  /\ row'[StoreOf(c)] # None
         /\ Traced(c)' /\ (Rests(c)' => Stands(StoreOf(c))')
<1> DEFINE s == StoreOf(c)
<1>1. /\ call[c].pc = "merge" /\ call'[c].pc = "cursor" /\ call'[c].value = call[c].value
      /\ edit' = edit
  BY MergePageDoes DEF Onward
<1>2. Traced(c)' /\ (Rests(c)' => Rests(c)) /\ row[s] # None
  BY <1>1, EditKnown DEF Traced, Rests, Carries
<1>3. CASE row'[s] = row[s] /\ recorded'[s] = recorded[s]
  BY <1>1, <1>2, <1>3, EditKnown DEF Stands
<1>4. ASSUME NEW i \in call[c].since + 1 .. call[c].to,
             Wins(log[i], recorded[s]), row'[s] = log[i].value,
             recorded'[s] = [value |-> log[i].value, at |-> log[i].at, seq |-> log[i].seq]
      PROVE  row'[s] # None /\ (Rests(c)' => Stands(s)')
  <2>1. log[i].at \in Nat /\ log[i].value \in Values
    <3>1. /\ call[c] \in Call /\ Carries(call[c], row[s], Len(log)) /\ log \in Seq(Event)
      BY DEF Typed, TypeOK, Sound
    <3>2. call[c].to <= Len(log) /\ call[c].to \in Nat /\ call[c].since \in Nat
      BY <1>1, <3>1 DEF Carries, Call
    <3>3. log[i] \in Event
      BY <3>1, <3>2
    <3>4. QED
      BY <3>3 DEF Event
  <2>2. recorded'[s].value = row'[s] /\ recorded'[s].at = log[i].at /\ row'[s] # None
    BY <1>4, <2>1, ValuesAreSound
  <2>3. Since(recorded[s], edit[s]) => Since(recorded'[s], edit'[s])
    <3>1. recorded[s].at # None => recorded[s].at \in Nat /\ log[i].at >= recorded[s].at
      BY <1>4, EditKnown DEF Wins, Ordering
    <3>2. edit[s].at \in Nat /\ recorded'[s].at # None
      BY <2>1, <2>2, EditKnown, NoneIsNoTime
    <3>3. QED
      BY <1>1, <2>1, <2>2, <3>1, <3>2 DEF Since
  <2>4. QED
    BY <1>2, <2>2, <2>3, EditKnown DEF Stands
<1>5. QED
  BY <1>2, <1>3, <1>4, MergePageDoes

LEMMA PushTraced ==
  ASSUME OneProcess, Typed, EditKept, NEW c \in Calls, StoreOf(c) \notin Fallible,
         TakeSeq(c) \/ WriteLocal(c) \/ Record(c)
  PROVE  /\ row'[StoreOf(c)] # None
         /\ Traced(c)' /\ (Rests(c)' => Stands(StoreOf(c))')
<1> DEFINE s == StoreOf(c)
<1>1. edit' = edit /\ Traced(c) /\ row[s] # None
  BY EditKnown DEF TakeSeq, WriteLocal, Record, Carries
<1>2. CASE TakeSeq(c)
  <2>1. /\ call'[c].pc = "write" /\ call'[c].at = Date(s) /\ row' = row
    BY <1>2, TakeSeqDoes
  <2>2. Since(call'[c], edit'[s])
    <3>1. Date(s) \in Nat /\ edit[s].at \in Nat /\ edit[s].at <= Date(s)
      BY EditKnown
    <3>2. QED
      BY <1>1, <2>1, <3>1, NoneIsNoTime DEF Since
  <2>3. QED
    BY <1>1, <2>1, <2>2 DEF Traced, Rests
<1>3. CASE WriteLocal(c)
  <2>1. /\ call[c].pc = "write" /\ call'[c].pc = "record" /\ call'[c].value = call[c].value
        /\ call'[c].at = call[c].at /\ row'[s] = call[c].value
    BY <1>3, WriteLocalDoes DEF Onward
  <2>2. call[c].value # None
    BY <2>1, EditKnown DEF Carries, CarriesValue
  <2>3. Since(call'[c], edit'[s])
    BY <1>1, <2>1 DEF Traced, Since
  <2>4. QED
    BY <2>1, <2>2, <2>3 DEF Traced, Rests
<1>4. CASE Record(c)
  <2>1. /\ call[c].pc = "record" /\ call'[c].pc = "send" /\ call'[c].value = call[c].value
        /\ call'[c].at = call[c].at /\ row' = row
        /\ recorded'[s] = [value |-> call[c].value, at |-> call[c].at, seq |-> call[c].seq]
    BY <1>4, RecordDoes DEF Onward
  <2>2. recorded'[s].value = call'[c].value /\ recorded'[s].at = call'[c].at
    BY <2>1
  <2>3. Since(call'[c], edit'[s]) /\ (EmitOnlyIfChanged => row'[s] = call'[c].value)
    BY <1>1, <2>1 DEF Traced, Since
  <2>4. QED
    BY <1>1, <2>1, <2>2, <2>3 DEF Traced, Rests
<1>5. QED
  BY <1>2, <1>3, <1>4

LEMMA AnswerTraced ==
  ASSUME OneProcess, Typed, EditKept, NEW c \in Calls, StoreOf(c) \notin Fallible,
         Deliver(c) \/ Accepted(c) \/ Converge(c) \/ Settle(c)
  PROVE  /\ row'[StoreOf(c)] # None
         /\ Traced(c)' /\ (Rests(c)' => Stands(StoreOf(c))')
<1> DEFINE s == StoreOf(c)
<1>1. edit' = edit /\ Traced(c) /\ row[s] # None
  BY EditKnown DEF Deliver, Accepted, Converge, Settle, Carries
<1>2. CASE Deliver(c)
  <2>1. call[c].pc = "send" /\ row' = row /\ recorded' = recorded
    BY <1>2, DeliverDoes
  <2>2. /\ Since(call[c], edit[s]) /\ (EmitOnlyIfChanged => row[s] = call[c].value)
        /\ recorded[s].value = call[c].value /\ recorded[s].at = call[c].at
    BY <1>1, <2>1 DEF Traced
  <2>3. CASE call'[c].pc = "accepted"
    <3>1. Stands(s)'
      BY <1>1, <2>1, <2>2 DEF Stands, Since
    <3>2. QED
      BY <1>1, <2>1, <2>3, <3>1 DEF Traced, Rests
  <2>4. CASE /\ ~Wins(EventOf(c), mirror) /\ call'[c].pc = "superseded"
             /\ call'[c].at = mirror.at
    <3>1. mirror.at # None /\ (EventOf(c).at >= mirror.at => EventOf(c).at = mirror.at)
      BY <2>4 DEF Wins
    <3>2. EventOf(c).at = call[c].at /\ EventOf(c).at \in Nat /\ mirror.at \in Nat \cup {None}
      BY <1>2, DeliverDoes DEF Event, Typed, TypeOK, Ordering
    <3>3. mirror.at \in Nat /\ mirror.at >= call[c].at /\ call[c].at \in Nat /\ edit[s].at \in Nat
      BY <3>1, <3>2, EditKnown
    <3>4. Since(call'[c], edit'[s])
      BY <1>1, <2>2, <2>4, <3>1, <3>3 DEF Since
    <3>5. QED
      BY <1>1, <2>1, <2>4, <3>4 DEF Traced, Rests
  <2>5. QED
    BY <1>2, <2>3, <2>4, DeliverDoes DEF Onward
<1>3. CASE Accepted(c)
  <2>1. call[c].pc = "accepted" /\ call'[c] = IdleCall /\ row' = row /\ recorded' = recorded
    BY <1>3, AcceptedDoes
  <2>2. call'[c].pc = "idle" /\ call'[c].value = None
    BY <2>1 DEF IdleCall
  <2>3. Stands(s)'
    BY <1>1, <2>1 DEF Traced, Stands
  <2>4. QED
    BY <1>1, <2>1, <2>2, <2>3 DEF Traced
<1>4. CASE Converge(c)
  <2>1. /\ call[c].pc = "superseded" /\ call'[c].pc = "settle"
        /\ call'[c].value = call[c].value /\ call'[c].at = call[c].at
        /\ row'[s] = call[c].value
    BY <1>4, ConvergeDoes DEF Onward
  <2>2. call[c].value # None
    BY <2>1, EditKnown DEF Carries, CarriesValue
  <2>3. Since(call'[c], edit'[s])
    BY <1>1, <2>1 DEF Traced, Since
  <2>4. QED
    BY <2>1, <2>2, <2>3 DEF Traced, Rests
<1>5. CASE Settle(c)
  <2>1. /\ call[c].pc = "settle" /\ call'[c] = IdleCall /\ row' = row
        /\ recorded'[s] = [value |-> call[c].value, at |-> call[c].at, seq |-> None]
    BY <1>5, SettleDoes
  <2>2. call'[c].pc = "idle" /\ call'[c].value = None
    BY <2>1 DEF IdleCall
  <2>3. recorded'[s].value = call[c].value /\ recorded'[s].at = call[c].at
    BY <2>1
  <2>4. Stands(s)'
    BY <1>1, <2>1, <2>3 DEF Traced, Stands, Since
  <2>5. QED
    BY <1>1, <2>1, <2>2, <2>4 DEF Traced
<1>6. QED
  BY <1>2, <1>3, <1>4, <1>5

LEMMA EditKeptStep ==
  OneProcess /\ GuardSeesAll /\ Typed /\ EditKept /\ [Next]_vars => EditKept'
<1> SUFFICES ASSUME OneProcess, GuardSeesAll, Typed, EditKept, [Next]_vars PROVE EditKept'
  OBVIOUS
<1>1. ASSUME NEW c \in Calls, CallStep(c)
      PROVE  EditKept'
  <2> DEFINE s == StoreOf(c)
  <2>1. Elsewhere(c) /\ s \in Stores
    BY <1>1, ElsewhereStep, StoreOfCall
  <2>2. instant' = instant
    BY <1>1 DEF CallStep, Edit, Decide, OpenPull, FetchPage, MergePage, RollBackPage,
                PersistCursor, StopPull, TakeSeq, WriteLocal, Record, Deliver, Accepted,
                Converge, Settle, Interrupt
  <2>3. edit'[s].at <= Date(s)
    <3>1. edit[s].at <= Date(s) /\ Date(s) \in Nat
      BY <2>1, DateType DEF EditKept, Typed
    <3>2. CASE edit' = edit
      BY <3>1, <3>2
    <3>3. ASSUME NEW v \in Values, Edit(c, v) PROVE edit'[s].at <= Date(s)
      <4>1. edit'[s] = edit[s] \/ edit'[s] = [value |-> v, at |-> Date(s)]
        BY <3>3, EditDoes
      <4>2. QED
        BY <3>1, <4>1
    <3>4. QED
      BY <1>1, <3>2, <3>3
         DEF CallStep, Decide, OpenPull, FetchPage, MergePage, RollBackPage,
             PersistCursor, StopPull, TakeSeq, WriteLocal, Record, Deliver, Accepted,
             Converge, Settle, Interrupt
  <2>4. ASSUME s \notin Fallible
        PROVE  row'[s] # None /\ Traced(c)' /\ (Rests(c)' => Stands(s)')
    BY <1>1, <2>4, EditTraced, PullTraced, MergeTraced, PushTraced, AnswerTraced
       DEF CallStep, RollBackPage, StopPull, Interrupt
  <2>5. QED
    BY <2>1, <2>2, <2>3, <2>4, EditKeptAside
<1>2. ASSUME NEW s \in Stores, Clone(s)
      PROVE  EditKept'
  <2>1. /\ row[s] = None /\ row'[s] # None /\ \A t \in Stores \ {s} : row'[t] = row[t]
        /\ UNCHANGED <<recorded, call, edit, instant>>
    BY <1>2 DEF Clone, Typed, TypeOK
  <2>2. \A c \in Calls : StoreOf(c) = s => call[c].pc = "idle"
    BY <2>1 DEF Typed, Sound, Carries
  <2>3. \A t \in Stores : Date(t)' = Date(t)
    BY <2>1 DEF Date
  <2>4. \A t \in Stores \ Fallible :
          (\A c \in Calls : StoreOf(c) = t => Rests(c)') => Stands(t)'
    BY <2>1 DEF EditKept, Stands, Since, Rests
  <2>5. \A c \in Calls : StoreOf(c) \notin Fallible => Traced(c)'
    <3>1. SUFFICES ASSUME NEW c \in Calls, StoreOf(c) \notin Fallible PROVE Traced(c)'
      OBVIOUS
    <3>2. Traced(c)
      BY <3>1 DEF EditKept
    <3>3. CASE StoreOf(c) = s
      BY <2>1, <2>2, <3>2, <3>3 DEF Traced
    <3>4. CASE StoreOf(c) # s
      <4>1. row'[StoreOf(c)] = row[StoreOf(c)]
        BY <2>1, <3>4, StoreOfCall
      <4>2. QED
        BY <2>1, <3>2, <4>1 DEF Traced, Stands
    <3>5. QED
      BY <3>3, <3>4
  <2>6. QED
    BY <2>1, <2>3, <2>4, <2>5 DEF EditKept
<1>3. ASSUME UNCHANGED <<row, recorded, call, edit>>, \A s \in Stores : Date(s) <= Date(s)'
      PROVE  EditKept'
  <2>1. ASSUME NEW s \in Stores PROVE edit'[s].at <= Date(s)'
    <3>1. edit[s].at \in Nat /\ Date(s) \in Nat /\ edit[s].at <= Date(s)
      BY DateType DEF EditKept, Typed, TypeOK
    <3>2. Date(s)' \in Nat
      <4>1. instant' \in Nat /\ Step \in Nat /\ Ahead[s] \in Nat
        BY TypedStep, ClocksAreSound DEF Typed, TypeOK
      <4>2. Step * instant' \in Nat
        BY <4>1, Products
      <4>3. QED
        BY <4>1, <4>2 DEF Date
    <3>3. Date(s) <= Date(s)'
      BY <1>3
    <3>4. QED
      BY <1>3, <3>1, <3>2, <3>3
  <2>2. QED
    BY <1>3, <2>1 DEF EditKept, Stands, Rests, Traced
<1>4. CASE Tick
  BY <1>3, <1>4, ClocksAdvance DEF Tick
<1>5. CASE UNCHANGED vars
  <2>1. ASSUME NEW s \in Stores PROVE Date(s) <= Date(s)'
    <3>1. Date(s)' = Date(s) /\ Date(s) \in Nat
      BY <1>5, DateType DEF vars, Date, Typed
    <3>2. QED
      BY <3>1
  <2>2. QED
    BY <1>3, <1>5, <2>1 DEF vars
<1>6. ASSUME NEW s \in Stores, NEW v \in Unshared, WriteUnshared(s, v)
      PROVE  EditKept'
  <2>1. ~EmitOnlyIfChanged
    BY <1>6 DEF GuardSeesAll
  <2>2. /\ row[s] # None /\ row'[s] # None /\ \A t \in Stores \ {s} : row'[t] = row[t]
        /\ UNCHANGED <<recorded, call, edit, instant>>
    BY <1>6, ValuesAreSound DEF WriteUnshared, Typed, TypeOK
  <2>3. \A t \in Stores : Date(t)' = Date(t) /\ (Stands(t)' <=> Stands(t))
    BY <2>1, <2>2 DEF Date, Stands
  <2>4. \A c \in Calls : Traced(c)' <=> Traced(c)
    BY <2>1, <2>2, <2>3, StoreOfCall DEF Traced
  <2>5. \A t \in Stores \ Fallible : row'[t] = None => edit[t].value = None /\ recorded[t].value = None
    BY <2>2 DEF EditKept
  <2>6. \A c \in Calls : Rests(c)' <=> Rests(c)
    BY <2>2 DEF Rests
  <2>7. QED
    BY <2>2, <2>3, <2>4, <2>5, <2>6 DEF EditKept
<1>7. QED
  BY <1>1, <1>2, <1>4, <1>5, <1>6 DEF Next

\* A stale remote edit does not clobber a fresher local one: where calls on a store
\* do not overlap, a store whose calls do not fail has recorded an edit that is not
\* older than the last one made in it, for any number of stores, some of them cloned
\* late, any clocks, and whatever fails elsewhere.  Where the change guard is in use
\* (for sprints and names), every write has to be propagated.
THEOREM LastEditSurvives ==
  ASSUME OneProcess, GuardSeesAll
  PROVE  Spec => []EditSurvives
<1>1. EditKept /\ Typed /\ [Next]_vars => EditKept'
  BY EditKeptStep
<1>2. EditKept => EditSurvives
  <2> SUFFICES ASSUME EditKept, NEW s \in Stores \ Fallible, Resting(s), edit[s].value # None
               PROVE  recorded[s].at # None /\ recorded[s].at >= edit[s].at
    BY DEF EditSurvives
  <2>1. \A c \in Calls : StoreOf(c) = s => Rests(c)
    BY DEF Resting, Rests, Calls, StoreOf
  <2>2. Stands(s)
    BY <2>1 DEF EditKept
  <2>3. QED
    BY <2>2 DEF Stands, Since
<1>3. QED
  BY <1>1, <1>2, EditKeptInit, AlwaysTyped, PTL DEF Spec

-----------------------------------------------------------------------------
(* Convergence.  Where no two stores ever stamp the same time, the time of  *)
(* an event and its place in the log order the log, and incomingWins agrees *)
(* with that order; each store follows one event that leads all it has     *)
(* pulled.                                                                 *)

\* No two stores' clocks ever show the same time.
DistinctStamps ==
  \A s, t \in Stores : \A m, n \in Nat : Step * m + Ahead[s] = Step * n + Ahead[t] => s = t

\* A store that is cloned has at most one editor beside it.
ClonesOfOneEditor ==
  Newcomers # {} => \A s \in Stores : \A t, u \in Stores \ {s} : t = u

\* A time that the clock of s shows.
Stamp(t, s) == \E m \in Nat : t = Step * m + Ahead[s]

LEMMA StampsDiffer ==
  ASSUME DistinctStamps, NEW s \in Stores, NEW t \in Stores, NEW x, Stamp(x, s), Stamp(x, t)
  PROVE  s = t
BY DEF DistinctStamps, Stamp

\* Of events with the same time the later one in the log has the higher counter.
Ordered(l) ==
  \A i, m \in DOMAIN l : i < m /\ l[i].at = l[m].at => l[i].seq < l[m].seq

\* The times of the log do not decrease.
InOrder(l) == \A i, m \in DOMAIN l : i < m => l[i].at <= l[m].at

\* Event j comes last, by time and place, of the first n and itself.
Leads(l, j, n) ==
  \A m \in 1 .. n : l[m].at <= l[j].at /\ (l[m].at = l[j].at => m <= j)

\* A store that has pulled n events, recorded the ordering r and holds v follows an
\* event that leads them; its counter may be unknown, and a clone's whole ordering.
Follows(l, n, r, v) ==
  \/ r.at = None /\ v = Initial /\ n = 0
  \/ \E j \in DOMAIN l : /\ v = l[j].value /\ Leads(l, j, n)
                         /\ \/ r.at = l[j].at /\ r.seq \in {None, l[j].seq}
                            \/ r.at = None /\ Newcomers # {}

Extends(l, k) ==
  /\ l \in Seq(Event) /\ k \in Seq(Event) /\ Len(l) <= Len(k)
  /\ \A i \in 1 .. Len(l) : k[i] = l[i]

LEMMA ExtendsItself ==
  ASSUME NEW l \in Seq(Event)
  PROVE  Extends(l, l)
BY DEF Extends

LEMMA LeadsGrows ==
  ASSUME NEW l, NEW k, Extends(l, k), NEW j \in DOMAIN l, NEW n \in Nat, n <= Len(l), Leads(l, j, n)
  PROVE  j \in DOMAIN k /\ k[j] = l[j] /\ Leads(k, j, n)
<1>1. /\ Len(l) \in Nat /\ Len(k) \in Nat /\ DOMAIN l = 1 .. Len(l) /\ DOMAIN k = 1 .. Len(k)
      /\ Len(l) <= Len(k) /\ \A i \in 1 .. Len(l) : k[i] = l[i]
  BY DEF Extends
<1>2. j \in DOMAIN k /\ k[j] = l[j]
  BY <1>1
<1>3. \A m \in 1 .. n : k[m] = l[m]
  BY <1>1
<1>4. QED
  BY <1>2, <1>3 DEF Leads

LEMMA FollowsGrows ==
  ASSUME NEW l, NEW k, Extends(l, k), NEW n \in Nat, n <= Len(l), NEW r, NEW v, Follows(l, n, r, v)
  PROVE  Follows(k, n, r, v)
BY LeadsGrows DEF Follows

LEMMA FollowsFewer ==
  ASSUME NEW l, NEW n \in Nat, NEW m \in Nat, m <= n, NEW r, NEW v, Follows(l, n, r, v)
  PROVE  Follows(l, m, r, v)
<1>1. ASSUME NEW j, Leads(l, j, n) PROVE Leads(l, j, m)
  BY <1>1 DEF Leads
<1>2. n = 0 => m = 0
  OBVIOUS
<1>3. QED
  BY <1>1, <1>2 DEF Follows

\* The broker holds the event that leads its log.
Led ==
  /\ \A i \in DOMAIN log : Stamp(log[i].at, log[i].by)
  /\ \/ Len(log) = 0 /\ mirror.value = Initial /\ mirror.at = None
     \/ \E j \in DOMAIN log : /\ mirror.value = log[j].value /\ mirror.at = log[j].at
                              /\ mirror.seq = log[j].seq /\ Leads(log, j, Len(log))

\* A store whose edits are answered follows what it has pulled, and one that knows of
\* no ordering has sent nothing.
Placed(s) ==
  /\ cursor[s] <= Len(log)
  /\ row[s] = None => recorded[s].at = None /\ s \in Newcomers
  /\ recorded[s].at = None => \A i \in DOMAIN log : log[i].by # s
  /\ row[s] # None /\ s \notin unsettled => Follows(log, cursor[s], recorded[s], row[s])

\* What a call has in hand at each point.
Tracks(c) ==
  LET s == StoreOf(c)  k == call[c]
  IN /\ k.pc \in {"pull", "merge"} => k.since = cursor[s]
     /\ k.pc \in {"merge", "cursor"} => cursor[s] <= k.to /\ k.to <= Len(log)
     /\ k.pc = "cursor" /\ s \notin unsettled => Follows(log, k.to, recorded[s], row[s])
     /\ k.pc \in {"record", "send", "accepted", "superseded", "settle"} => s \in unsettled
     /\ k.pc \in {"write", "record", "send"} => Stamp(k.at, s)
     /\ k.pc \in {"record", "send", "settle"} => row[s] = k.value
     /\ k.pc = "send" => recorded[s].at = k.at /\ recorded[s].seq = k.seq
     /\ k.pc = "accepted" => Follows(log, cursor[s], recorded[s], row[s])
     /\ k.pc \in {"superseded", "settle"} =>
          \E j \in DOMAIN log : /\ k.value = log[j].value /\ k.at = log[j].at
                                /\ Leads(log, j, cursor[s])

Tracked == (\A s \in Stores : Placed(s)) /\ (\A c \in Calls : Tracks(c))

LEMMA ConvergedInit == Init => Led /\ Tracked
<1> SUFFICES ASSUME Init PROVE Led /\ Tracked
  OBVIOUS
<1>1. log = <<>> /\ Len(log) = 0 /\ DOMAIN log = {}
  BY DEF Init
<1>2. Led
  BY <1>1 DEF Init, Led
<1>3. \A c \in Calls : call[c].pc = "idle"
  BY DEF Init, IdleCall
<1>4. \A c \in Calls : Tracks(c)
  BY <1>3 DEF Tracks
<1>5. ASSUME NEW s \in Stores PROVE Placed(s)
  <2>1. /\ row[s] \in {None, Initial} /\ recorded[s].at = None /\ cursor[s] = 0
        /\ row[s] = None => s \in Newcomers
    BY ValuesAreSound DEF Init
  <2>2. row[s] # None => Follows(log, cursor[s], recorded[s], row[s])
    BY <2>1 DEF Follows
  <2>3. QED
    BY <1>1, <2>1, <2>2 DEF Placed
<1>6. QED
  BY <1>2, <1>4, <1>5 DEF Tracked

LEMMA LogOrdered ==
  ASSUME DistinctStamps, Typed, Numbered, Led
  PROVE  Ordered(log)
<1>1. SUFFICES ASSUME NEW i \in DOMAIN log, NEW m \in DOMAIN log, i < m, log[i].at = log[m].at
               PROVE  log[i].seq < log[m].seq
  BY DEF Ordered
<1>2. log[i].by \in Stores /\ log[m].by \in Stores
  BY LogTypes DEF Typed
<1>3. Stamp(log[i].at, log[i].by) /\ Stamp(log[m].at, log[m].by)
  BY DEF Led
<1>4. log[i].by = log[m].by
  BY <1>1, <1>2, <1>3, StampsDiffer
<1>5. QED
  BY <1>1, <1>4 DEF Numbered, LogNumbered

LEMMA LoggedTypes ==
  ASSUME Typed, NEW i \in DOMAIN log
  PROVE  log[i].at \in Nat /\ log[i].seq \in Nat /\ log[i].value \in Values
<1>1. log[i] \in Event
  BY DEF Typed, TypeOK
<1>2. QED
  BY <1>1 DEF Event

\* Clocks do not go back: what a store sends is not older than what it has sent.
InTime ==
  /\ \A i \in DOMAIN log : log[i].at <= Date(log[i].by)
  /\ \A i, m \in DOMAIN log : i < m /\ log[i].by = log[m].by => log[i].at <= log[m].at
  /\ \A c \in Calls : call[c].pc \in {"write", "record", "send"} =>
       /\ call[c].at <= Date(StoreOf(c))
       /\ \A i \in DOMAIN log : log[i].by = StoreOf(c) => log[i].at <= call[c].at

LEMMA InTimeInit == Init => InTime
BY DEF Init, IdleCall, InTime

LEMMA InTimeQuiet ==
  ASSUME InTime, UNCHANGED <<log, instant>>,
         \A d \in Calls : call'[d].pc \in {"write", "record", "send"} =>
           call[d].pc \in {"write", "record", "send"} /\ call'[d].at = call[d].at
  PROVE  InTime'
BY DEF InTime, Date

LEMMA TakeSeqInTime ==
  ASSUME Typed, InTime, NEW c \in Calls, TakeSeq(c)
  PROVE  InTime'
<1>1. /\ call'[c].at = Date(StoreOf(c)) /\ UNCHANGED <<log, instant>>
      /\ \A d \in Calls \ {c} : call'[d] = call[d]
  BY TakeSeqDoes, ElsewhereStep DEF Elsewhere, CallStep
<1>2. Date(StoreOf(c)) \in Nat /\ Date(StoreOf(c))' = Date(StoreOf(c))
  BY <1>1, DateType, StoreOfCall DEF Typed, Date
<1>3. /\ call'[c].at <= Date(StoreOf(c))'
      /\ \A i \in DOMAIN log : log[i].by = StoreOf(c) => log[i].at <= call'[c].at
  BY <1>1, <1>2 DEF InTime
<1>4. \A s : Date(s)' = Date(s)
  BY <1>1 DEF Date
<1>5. QED
  BY <1>1, <1>3, <1>4 DEF InTime

LEMMA DeliverInTime ==
  ASSUME OneProcess, Typed, InTime, NEW c \in Calls, Deliver(c)
  PROVE  InTime'
<1> DEFINE e == EventOf(c)  n == Len(log) + 1
<1>1. /\ call[c].pc = "send" /\ e \in Event /\ e.at = call[c].at /\ e.by = StoreOf(c)
      /\ Len(log) \in Nat /\ Len(log') = n /\ log' \in Seq(Event)
      /\ log'[n] = e /\ \A i \in 1 .. Len(log) : log'[i] = log[i]
      /\ instant' = instant
  BY DeliverDoes
<1>2. call'[c].pc \in {"accepted", "superseded"}
  BY DeliverDoes DEF Onward
<1> HIDE DEF e
<1>3. /\ DOMAIN log = 1 .. Len(log) /\ DOMAIN log' = 1 .. n
      /\ \A i \in DOMAIN log : log'[i] = log[i] /\ log[i].at \in Nat
  BY <1>1, LoggedTypes DEF Typed, TypeOK
<1>4. \A s \in Stores : Date(s)' = Date(s)
  BY <1>1 DEF Date
<1>5. /\ e.at \in Nat /\ e.at <= Date(e.by)
      /\ \A i \in DOMAIN log : log[i].by = e.by => log[i].at <= e.at
  BY <1>1 DEF InTime, Event
<1>6. /\ \A d \in Calls \ {c} : call'[d] = call[d] /\ StoreOf(d) # e.by
  BY <1>1, ElsewhereStep, OneCallPerStore DEF Elsewhere, CallStep
<1>7. ASSUME NEW i \in DOMAIN log'
      PROVE  log'[i].at <= Date(log'[i].by)
  <2>1. CASE i = n
    BY <1>1, <1>5, <2>1
  <2>2. CASE i \in DOMAIN log
    BY <1>3, <2>2 DEF InTime
  <2>3. QED
    BY <1>1, <1>3, <2>1, <2>2
<1>8. ASSUME NEW i \in DOMAIN log', NEW m \in DOMAIN log', i < m, log'[i].by = log'[m].by
      PROVE  log'[i].at <= log'[m].at
  <2>1. i \in DOMAIN log /\ log'[i] = log[i]
    BY <1>1, <1>3, <1>8
  <2>2. CASE m = n
    BY <1>1, <1>5, <1>8, <2>1, <2>2
  <2>3. CASE m \in DOMAIN log
    BY <1>3, <1>8, <2>1, <2>3 DEF InTime
  <2>4. QED
    BY <1>1, <1>3, <2>2, <2>3
<1>9. ASSUME NEW d \in Calls, call'[d].pc \in {"write", "record", "send"}
      PROVE  /\ call'[d].at <= Date(StoreOf(d))'
             /\ \A i \in DOMAIN log' : log'[i].by = StoreOf(d) => log'[i].at <= call'[d].at
  <2>1. d # c /\ call'[d] = call[d] /\ StoreOf(d) # e.by
    BY <1>2, <1>6, <1>9
  <2>2. QED
    BY <1>1, <1>3, <1>4, <1>9, <2>1, StoreOfCall DEF InTime
<1>10. \A i \in DOMAIN log' : log'[i].at <= Step * instant' + Ahead[log'[i].by]
  BY <1>1, <1>7 DEF Date
<1>11. QED
  BY <1>8, <1>9, <1>10 DEF InTime, Date

LEMMA InTimeStep ==
  ASSUME OneProcess, Typed, InTime, [Next]_vars
  PROVE  InTime'
<1>1. ASSUME NEW c \in Calls, CallStep(c), ~TakeSeq(c), ~Deliver(c)
      PROVE  InTime'
  <2>1. UNCHANGED <<log, instant>>
    BY <1>1 DEF CallStep, Edit, Decide, OpenPull, FetchPage, MergePage, RollBackPage,
                PersistCursor, StopPull, WriteLocal, Record, Accepted, Converge, Settle, Interrupt
  <2>2. call'[c].pc \in {"write", "record", "send"} =>
          call[c].pc \in {"write", "record", "send"} /\ call'[c].at = call[c].at
    <3>1. CASE \E v \in Values : Edit(c, v)
      BY <3>1, EditDoes DEF Onward
    <3>2. CASE Decide(c) \/ OpenPull(c) \/ FetchPage(c) \/ MergePage(c) \/ RollBackPage(c)
      BY <3>2, IdleCallType, DecideDoes, OpenPullDoes, FetchPageDoes, MergePageDoes,
         RollBackPageDoes DEF Onward
    <3>3. CASE PersistCursor(c) \/ StopPull(c)
      BY <3>3, IdleCallType, PersistCursorDoes, StopPullDoes DEF Onward, Finished
    <3>4. CASE WriteLocal(c) \/ Record(c)
      BY <3>4, WriteLocalDoes, RecordDoes DEF Onward
    <3>5. CASE Accepted(c) \/ Converge(c) \/ Settle(c) \/ Interrupt(c)
      BY <3>5, IdleCallType, AcceptedDoes, ConvergeDoes, SettleDoes, InterruptDoes DEF Onward
    <3>6. QED
      BY <1>1, <3>1, <3>2, <3>3, <3>4, <3>5 DEF CallStep
  <2>3. \A d \in Calls \ {c} : call'[d] = call[d]
    BY <1>1, ElsewhereStep DEF Elsewhere
  <2>4. QED
    BY <2>1, <2>2, <2>3, InTimeQuiet
<1>2. CASE Tick
  <2>1. /\ \A s \in Stores : Date(s) \in Nat /\ Date(s)' \in Nat /\ Date(s) <= Date(s)'
        /\ UNCHANGED <<log, call>>
    <3>1. ASSUME NEW s \in Stores PROVE Date(s) \in Nat /\ Date(s)' \in Nat
      <4>1. instant' \in Nat
        BY <1>2 DEF Tick, Typed, TypeOK
      <4>2. Step * instant' \in Nat /\ Ahead[s] \in Nat
        BY <4>1, Products, ClocksAreSound
      <4>3. Date(s)' \in Nat
        BY <4>2 DEF Date
      <4>4. QED
        BY <4>3, DateType DEF Typed
    <3>2. QED
      BY <1>2, <3>1, ClocksAdvance DEF Tick
  <2>2. \A i \in DOMAIN log : log[i].by \in Stores /\ log[i].at \in Nat
    BY LoggedTypes, LogTypes DEF Typed
  <2>3. \A i \in DOMAIN log : log[i].at <= Date(log[i].by)'
    BY <2>1, <2>2 DEF InTime
  <2>4. ASSUME NEW c \in Calls, call[c].pc \in {"write", "record", "send"}
        PROVE  call[c].at <= Date(StoreOf(c))'
    <3>1. call[c].at \in Nat /\ call[c].at <= Date(StoreOf(c)) /\ StoreOf(c) \in Stores
      BY <2>4, StoreOfCall DEF InTime, Typed, TypeOK, Sound, Carries, Call
    <3>2. QED
      BY <2>1, <3>1
  <2>5. QED
    BY <2>1, <2>3, <2>4 DEF InTime
<1>3. CASE UNCHANGED <<log, instant, call>>
  BY <1>3, InTimeQuiet
<1>4. QED
  BY <1>1, <1>2, <1>3, TakeSeqInTime, DeliverInTime DEF Next, Clone, WriteUnshared, vars

\* A page of which no event wins leaves the store following the same event.
LEMMA PageLoses ==
  ASSUME Typed, Ordered(log), NEW r, NEW v, NEW from \in Nat, NEW to \in Nat,
         from <= to, to <= Len(log), Follows(log, from, r, v),
         \A i \in from + 1 .. to : ~Wins(log[i], r)
  PROVE  Follows(log, to, r, v)
<1>1. Len(log) \in Nat /\ DOMAIN log = 1 .. Len(log)
  BY DEF Typed, TypeOK
<1>2. CASE r.at = None /\ v = Initial /\ from = 0
  <2>1. \A i \in from + 1 .. to : FALSE
    BY <1>2 DEF Wins
  <2>2. to = 0
    BY <1>2, <2>1
  <2>3. QED
    BY <1>2, <2>2 DEF Follows
<1>3. ASSUME NEW j \in DOMAIN log, r.at = log[j].at, r.seq \in {None, log[j].seq},
             v = log[j].value, Leads(log, j, from)
      PROVE  Follows(log, to, r, v)
  <2>1. ASSUME NEW m \in 1 .. to
        PROVE  log[m].at <= log[j].at /\ (log[m].at = log[j].at => m <= j)
    <3>1. CASE m \in 1 .. from
      BY <1>3, <3>1 DEF Leads
    <3>2. CASE m \in from + 1 .. to
      <4>1. /\ m \in DOMAIN log /\ log[m].at \in Nat /\ log[j].at \in Nat
            /\ log[m].seq \in Nat /\ log[j].seq \in Nat
        BY <1>1, <1>3, <2>1, LoggedTypes
      <4>2. /\ ~(log[m].at >= log[j].at /\ (log[m].at = log[j].at /\ r.seq # None => log[m].seq >= r.seq))
        BY <1>3, <3>2 DEF Wins
      <4>3. log[m].at <= log[j].at
        BY <4>1, <4>2
      <4>4. log[m].at = log[j].at => log[m].seq < log[j].seq
        BY <1>3, <4>1, <4>2
      <4>5. log[m].at = log[j].at => ~(j < m)
        BY <1>3, <4>1, <4>4 DEF Ordered
      <4>6. QED
        BY <1>1, <1>3, <4>1, <4>3, <4>5
    <3>3. QED
      BY <2>1, <3>1, <3>2
  <2>2. Leads(log, j, to)
    BY <2>1 DEF Leads
  <2>3. QED
    BY <1>3, <2>2 DEF Follows
<1>4. CASE r.at = None
  <2>1. \A i \in from + 1 .. to : FALSE
    BY <1>4 DEF Wins
  <2>2. to = from
    BY <2>1
  <2>3. QED
    BY <2>2
<1>5. QED
  BY <1>2, <1>3, <1>4 DEF Follows

\* The event of a page that stands and wins leads the page and all before it; the log
\* is in order where a clone knows of no ordering.
LEMMA PageWins ==
  ASSUME Typed, Ordered(log), NEW r, NEW v, NEW from \in Nat, NEW to \in Nat,
         from <= to, to <= Len(log), Follows(log, from, r, v),
         NEW i \in from + 1 .. to, StandsIn(i, from, to), Wins(log[i], r),
         r.at = None /\ Newcomers # {} => InOrder(log)
  PROVE  Follows(log, to, [value |-> log[i].value, at |-> log[i].at, seq |-> log[i].seq],
                 log[i].value)
<1>1. Len(log) \in Nat /\ DOMAIN log = 1 .. Len(log) /\ i \in DOMAIN log
  BY DEF Typed, TypeOK
<1>2. ASSUME NEW m \in 1 .. to
      PROVE  log[m].at <= log[i].at /\ (log[m].at = log[i].at => m <= i)
  <2>1. /\ m \in DOMAIN log /\ log[m].at \in Nat /\ log[i].at \in Nat
        /\ log[m].seq \in Nat /\ log[i].seq \in Nat
    BY <1>1, <1>2, LoggedTypes
  <2>2. CASE m \in from + 1 .. to
    <3>1. Wins(log[i], log[m]) /\ (m > i => ~Wins(log[m], log[i]))
      BY <2>2 DEF StandsIn
    <3>2. log[m].at <= log[i].at
      BY <2>1, <3>1, NoneIsNoTime DEF Wins
    <3>3. log[m].at = log[i].at /\ i < m => log[i].seq < log[m].seq
      BY <1>1, <2>1 DEF Ordered
    <3>4. log[m].at = log[i].at /\ i < m => Wins(log[m], log[i])
      BY <2>1, <3>3 DEF Wins
    <3>5. log[m].at = log[i].at => m <= i
      BY <3>1, <3>4
    <3>6. QED
      BY <3>2, <3>5
  <2>3. CASE m \in 1 .. from
    <3>1. from # 0
      BY <2>3
    <3>2. CASE r.at = None /\ Newcomers # {}
      <4>1. m < i /\ m \in DOMAIN log /\ i \in DOMAIN log
        BY <1>1, <2>1, <2>3
      <4>2. log[m].at <= log[i].at
        BY <3>2, <4>1 DEF InOrder
      <4>3. QED
        BY <4>1, <4>2
    <3>3. ASSUME NEW j \in DOMAIN log, r.at = log[j].at, Leads(log, j, from)
          PROVE  log[m].at <= log[i].at /\ (log[m].at = log[i].at => m <= i)
      <4>1. log[m].at <= log[j].at /\ log[j].at \in Nat
        BY <2>3, <3>3, LoggedTypes DEF Leads
      <4>2. log[j].at <= log[i].at
        BY <2>1, <3>3, <4>1, NoneIsNoTime DEF Wins
      <4>3. QED
        BY <2>1, <2>3, <4>1, <4>2
    <3>4. QED
      BY <3>1, <3>2, <3>3 DEF Follows
  <2>4. QED
    BY <1>2, <2>2, <2>3
<1>3. Leads(log, i, to)
  BY <1>2 DEF Leads
<1> DEFINE q == [value |-> log[i].value, at |-> log[i].at, seq |-> log[i].seq]
<1>4. q.at = log[i].at /\ q.seq = log[i].seq
  OBVIOUS
<1> HIDE DEF q
<1>5. Follows(log, to, q, log[i].value)
  BY <1>1, <1>3, <1>4 DEF Follows
<1>6. QED
  BY <1>5 DEF q

\* A step of c keeps what the others track, if the log only grows, and what c and
\* its store do.
LEMMA TrackedAside ==
  ASSUME OneProcess, Typed, Tracked, NEW c \in Calls, Elsewhere(c), Extends(log, log'),
         \A i \in DOMAIN log' : i \in DOMAIN log \/ log'[i].by = StoreOf(c),
         Placed(StoreOf(c))', Tracks(c)'
  PROVE  Tracked'
<1> DEFINE s == StoreOf(c)
<1>1. s \in Stores /\ \A d \in Calls \ {c} : StoreOf(d) # s /\ StoreOf(d) \in Stores
  BY OneCallPerStore, StoreOfCall
<1>2. /\ \A d \in Calls \ {c} : call'[d] = call[d]
      /\ \A t \in Stores \ {s} : /\ row'[t] = row[t] /\ recorded'[t] = recorded[t]
                                 /\ cursor'[t] = cursor[t] /\ (t \in unsettled' <=> t \in unsettled)
  BY DEF Elsewhere
<1>3. Len(log) \in Nat /\ Len(log') \in Nat /\ Len(log) <= Len(log')
  BY DEF Extends
<1>4. \A t \in Stores : cursor[t] \in Nat /\ cursor[t] <= Len(log)
  BY DEF Tracked, Placed, Typed, TypeOK
<1>5. ASSUME NEW t \in Stores PROVE Placed(t)'
  <2>1. CASE t = s
    BY <2>1
  <2>2. CASE t # s
    <3>1. Placed(t)
      BY DEF Tracked
    <3>2. /\ row'[t] = row[t] /\ recorded'[t] = recorded[t]
          /\ cursor'[t] = cursor[t] /\ (t \in unsettled' <=> t \in unsettled)
      BY <1>2, <2>2
    <3>3. Follows(log, cursor[t], recorded[t], row[t]) =>
            Follows(log', cursor[t], recorded[t], row[t])
      BY <1>4, FollowsGrows
    <3>4. cursor[t] <= Len(log')
      BY <1>3, <1>4
    <3>5. \A i \in DOMAIN log : log'[i] = log[i]
      BY DEF Extends
    <3>6. recorded[t].at = None => \A i \in DOMAIN log' : log'[i].by # t
      BY <2>2, <3>1, <3>5 DEF Placed
    <3>7. QED
      BY <3>1, <3>2, <3>3, <3>4, <3>6 DEF Placed
  <2>3. QED
    BY <2>1, <2>2
<1>6. ASSUME NEW d \in Calls PROVE Tracks(d)'
  <2>1. CASE d = c
    BY <2>1
  <2>2. CASE d # c
    <3> DEFINE t == StoreOf(d)  k == call[d]
    <3>1. Tracks(d)
      BY DEF Tracked
    <3>2. /\ t \in Stores /\ call'[d] = k /\ row'[t] = row[t] /\ recorded'[t] = recorded[t]
          /\ cursor'[t] = cursor[t] /\ (t \in unsettled' <=> t \in unsettled)
      BY <1>1, <1>2, <2>2
    <3>3. k.to \in Nat
      BY DEF Typed, TypeOK, Call
    <3>4. k.to <= Len(log) =>
            /\ k.to <= Len(log')
            /\ Follows(log, k.to, recorded[t], row[t]) => Follows(log', k.to, recorded[t], row[t])
      BY <1>3, <3>3, FollowsGrows
    <3>5. Follows(log, cursor[t], recorded[t], row[t]) =>
            Follows(log', cursor[t], recorded[t], row[t])
      BY <1>4, <3>2, FollowsGrows
    <3>6. \A j \in DOMAIN log : Leads(log, j, cursor[t]) =>
            j \in DOMAIN log' /\ log'[j] = log[j] /\ Leads(log', j, cursor[t])
      BY <1>4, <3>2, LeadsGrows
    <3> HIDE DEF t, k
    <3>7. /\ k.pc \in {"pull", "merge"} => k.since = cursor[t]
          /\ k.pc \in {"merge", "cursor"} => cursor[t] <= k.to /\ k.to <= Len(log)
          /\ k.pc = "cursor" /\ t \notin unsettled => Follows(log, k.to, recorded[t], row[t])
          /\ k.pc \in {"record", "send", "accepted", "superseded", "settle"} => t \in unsettled
          /\ k.pc \in {"write", "record", "send"} => Stamp(k.at, t)
          /\ k.pc \in {"record", "send", "settle"} => row[t] = k.value
          /\ k.pc = "send" => recorded[t].at = k.at /\ recorded[t].seq = k.seq
          /\ k.pc = "accepted" => Follows(log, cursor[t], recorded[t], row[t])
          /\ k.pc \in {"superseded", "settle"} =>
               \E j \in DOMAIN log : /\ k.value = log[j].value /\ k.at = log[j].at
                                     /\ Leads(log, j, cursor[t])
      BY <3>1 DEF Tracks, t, k
    <3>8. k.pc \in {"superseded", "settle"} =>
            \E j \in DOMAIN log' : /\ k.value = log'[j].value /\ k.at = log'[j].at
                                   /\ Leads(log', j, cursor[t])
      BY <3>6, <3>7
    <3>9. QED
      BY <3>2, <3>4, <3>5, <3>7, <3>8 DEF Tracks, t, k
  <2>3. QED
    BY <2>1, <2>2
<1>7. QED
  BY <1>5, <1>6 DEF Tracked

\* Where a clone knows of no ordering, all of the log is its one editor's.
LEMMA LogInOrder ==
  ASSUME ClonesOfOneEditor, Typed, InTime, Tracked, Newcomers # {},
         NEW s \in Stores, recorded[s].at = None
  PROVE  InOrder(log)
<1>1. \A i \in DOMAIN log : log[i].by \in Stores \ {s}
  BY LogTypes DEF Typed, Tracked, Placed
<1>2. \A i, m \in DOMAIN log : log[i].by = log[m].by
  BY <1>1 DEF ClonesOfOneEditor
<1>3. QED
  BY <1>2 DEF InOrder, InTime

\* A clone follows the event that leads the log, without knowing its ordering.
LEMMA CloneTracked ==
  ASSUME Typed, Led, Tracked, NEW s \in Stores, Clone(s)
  PROVE  Tracked'
<1>1. /\ row[s] = None /\ row'[s] = mirror.value /\ cursor'[s] = Len(log)
      /\ \A t \in Stores \ {s} : row'[t] = row[t] /\ cursor'[t] = cursor[t]
      /\ UNCHANGED <<recorded, log, call, unsettled>>
  BY DEF Clone, Typed, TypeOK
<1>2. recorded[s].at = None /\ Newcomers # {} /\ Placed(s)
  BY <1>1 DEF Tracked, Placed
<1>3. Len(log) \in Nat /\ mirror.value # None
  BY DEF Typed, TypeOK
<1>4. Follows(log, Len(log), recorded[s], mirror.value)
  BY <1>2 DEF Follows, Led
<1>5. Placed(s)'
  BY <1>1, <1>2, <1>3, <1>4 DEF Placed
<1>6. \A t \in Stores : Placed(t)'
  BY <1>1, <1>5 DEF Tracked, Placed
<1>7. ASSUME NEW c \in Calls PROVE Tracks(c)'
  <2>1. CASE StoreOf(c) = s
    <3>1. call[c].pc = "idle"
      BY <1>1, <2>1 DEF Typed, Sound, Carries
    <3>2. QED
      BY <1>1, <3>1 DEF Tracks
  <2>2. CASE StoreOf(c) # s
    BY <1>1, <2>2, StoreOfCall DEF Tracked, Tracks
  <2>3. QED
    BY <2>1, <2>2
<1>8. QED
  BY <1>6, <1>7 DEF Tracked

\* What is known of a call and its store before a step.
LEMMA TrackedKnown ==
  ASSUME Typed, Tracked, NEW c \in Calls
  PROVE  LET s == StoreOf(c)
         IN /\ s \in Stores /\ Placed(s) /\ Tracks(c) /\ (call[c].pc # "idle" => row[s] # None)
            /\ cursor[s] \in Nat /\ cursor[s] <= Len(log) /\ Len(log) \in Nat
            /\ call[c] \in Call /\ Carries(call[c], row[s], Len(log)) /\ Extends(log, log)
<1>1. StoreOf(c) \in Stores
  BY StoreOfCall
<1>2. Placed(StoreOf(c)) /\ Tracks(c) /\ cursor[StoreOf(c)] <= Len(log)
  BY <1>1 DEF Tracked, Placed
<1>3. /\ cursor[StoreOf(c)] \in Nat /\ Len(log) \in Nat /\ log \in Seq(Event)
      /\ call[c] \in Call /\ Carries(call[c], row[StoreOf(c)], Len(log))
  BY <1>1 DEF Typed, TypeOK, Sound
<1>4. call[c].pc # "idle" => row[StoreOf(c)] # None
  BY <1>3 DEF Carries
<1>5. QED
  BY <1>1, <1>2, <1>3, <1>4, ExtendsItself

LEMMA EditTracked ==
  ASSUME Typed, Tracked, NEW c \in Calls, NEW v \in Values, Edit(c, v)
  PROVE  Placed(StoreOf(c))' /\ Tracks(c)'
<1> DEFINE s == StoreOf(c)
<1>1. /\ call'[c].pc = "edited" /\ row'[s] = v /\ row[s] # None /\ recorded'[s] = recorded[s]
      /\ cursor'[s] = cursor[s] /\ log' = log
      /\ v = row[s] => unsettled' = unsettled
      /\ v # row[s] => s \in unsettled'
  BY EditDoes DEF Onward
<1>2. v # None
  BY ValuesAreSound
<1>3. Placed(s)'
  BY <1>1, <1>2, TrackedKnown DEF Placed
<1>4. QED
  BY <1>1, <1>3 DEF Tracks

\* Steps on the way to a pull, between two pages and to the stamp.
LEMMA PullTracked ==
  ASSUME Typed, Tracked, NEW c \in Calls,
         Decide(c) \/ OpenPull(c) \/ FetchPage(c) \/ StopPull(c) \/ TakeSeq(c) \/ Interrupt(c)
  PROVE  Placed(StoreOf(c))' /\ Tracks(c)'
<1> DEFINE s == StoreOf(c)
<1>1. UNCHANGED <<row, recorded, cursor, log, unsettled>>
  BY DEF Decide, OpenPull, FetchPage, StopPull, TakeSeq, Interrupt
<1>2. Placed(s)'
  BY <1>1, TrackedKnown DEF Placed
<1>3. CASE call'[c].pc \in {"idle", "decided", "stamp"}
  BY <1>2, <1>3 DEF Tracks
<1>4. CASE Decide(c) \/ StopPull(c) \/ Interrupt(c)
  BY <1>3, <1>4, DecideDoes, StopPullDoes, InterruptDoes DEF Finished, IdleCall
<1>5. CASE OpenPull(c)
  BY <1>1, <1>2, <1>5, OpenPullDoes DEF Onward, Tracks
<1>6. CASE FetchPage(c)
  <2>1. /\ call[c].pc = "pull" /\ call'[c].pc = "merge" /\ call'[c].since = call[c].since
        /\ call'[c].to = PageEnd(call[c].since)
    BY <1>6, FetchPageDoes DEF Onward
  <2>2. call[c].since = cursor[s]
    BY <2>1, TrackedKnown DEF Tracks
  <2>3. cursor[s] <= PageEnd(cursor[s]) /\ PageEnd(cursor[s]) <= Len(log)
    BY TrackedKnown, PagesHoldEvents DEF PageEnd
  <2>4. QED
    BY <1>1, <1>2, <2>1, <2>2, <2>3 DEF Tracks
<1>7. CASE TakeSeq(c)
  <2>1. call'[c].pc = "write" /\ call'[c].at = Date(s)
    BY <1>7, TakeSeqDoes
  <2>2. Stamp(Date(s), s)
    BY DEF Stamp, Date, Typed, TypeOK
  <2>3. QED
    BY <1>2, <2>1, <2>2 DEF Tracks
<1>8. QED
  BY <1>4, <1>5, <1>6, <1>7

LEMMA MergeTracked ==
  ASSUME Typed, Ordered(log), Tracked, NEW c \in Calls, MergePage(c),
         recorded[StoreOf(c)].at = None /\ Newcomers # {} => InOrder(log)
  PROVE  Placed(StoreOf(c))' /\ Tracks(c)'
<1> DEFINE s == StoreOf(c)  from == call[c].since  to == call[c].to
<1>1. /\ call[c].pc = "merge" /\ call'[c].pc = "cursor" /\ call'[c].to = to
      /\ UNCHANGED <<cursor, log, unsettled>>
  BY MergePageDoes DEF Onward
<1>2. /\ from = cursor[s] /\ from <= to /\ to <= Len(log) /\ from \in Nat /\ to \in Nat
      /\ row[s] # None
  BY <1>1, TrackedKnown DEF Tracks, Call
<1>3. \/ /\ row'[s] = row[s] /\ recorded'[s] = recorded[s]
         /\ \A i \in from + 1 .. to : ~Wins(log[i], recorded[s])
      \/ \E i \in from + 1 .. to :
           /\ StandsIn(i, from, to) /\ Wins(log[i], recorded[s])
           /\ row'[s] = log[i].value
           /\ recorded'[s] = [value |-> log[i].value, at |-> log[i].at, seq |-> log[i].seq]
  BY MergePageDoes
<1> HIDE DEF from, to
<1>4. row'[s] # None /\ (recorded'[s].at = None => recorded[s].at = None)
  <2>1. CASE row'[s] = row[s] /\ recorded'[s] = recorded[s]
    BY <1>2, <2>1
  <2>2. ASSUME NEW i \in from + 1 .. to, row'[s] = log[i].value,
               recorded'[s] = [value |-> log[i].value, at |-> log[i].at, seq |-> log[i].seq]
        PROVE  row'[s] # None /\ recorded'[s].at # None
    <3>1. i \in DOMAIN log
      BY <1>2 DEF Typed, TypeOK
    <3>2. recorded'[s].at = log[i].at
      BY <2>2
    <3>3. QED
      BY <2>2, <3>1, <3>2, LoggedTypes, ValuesAreSound, NoneIsNoTime
  <2>3. QED
    BY <1>3, <2>1, <2>2
<1>5. s \notin unsettled => Follows(log, to, recorded'[s], row'[s])
  <2>1. SUFFICES ASSUME Follows(log, from, recorded[s], row[s])
                 PROVE  Follows(log, to, recorded'[s], row'[s])
    BY <1>2, TrackedKnown DEF Placed
  <2>2. CASE /\ row'[s] = row[s] /\ recorded'[s] = recorded[s]
             /\ \A i \in from + 1 .. to : ~Wins(log[i], recorded[s])
    BY <1>2, <2>1, <2>2, PageLoses
  <2>3. ASSUME NEW i \in from + 1 .. to, StandsIn(i, from, to), Wins(log[i], recorded[s]),
               row'[s] = log[i].value,
               recorded'[s] = [value |-> log[i].value, at |-> log[i].at, seq |-> log[i].seq]
        PROVE  Follows(log, to, recorded'[s], row'[s])
    BY <1>2, <2>1, <2>3, PageWins
  <2>4. QED
    BY <1>3, <2>2, <2>3
<1>6. s \notin unsettled => Follows(log, cursor[s], recorded'[s], row'[s])
  BY <1>2, <1>5, FollowsFewer
<1>7. Placed(s)'
  BY <1>1, <1>4, <1>6, TrackedKnown DEF Placed
<1>8. Tracks(c)'
  BY <1>1, <1>2, <1>5 DEF Tracks
<1>9. QED
  BY <1>7, <1>8

LEMMA CursorTracked ==
  ASSUME Typed, Tracked, NEW c \in Calls, PersistCursor(c)
  PROVE  Placed(StoreOf(c))' /\ Tracks(c)'
<1> DEFINE s == StoreOf(c)
<1>1. /\ call[c].pc = "cursor" /\ cursor'[s] = call[c].to
      /\ UNCHANGED <<row, recorded, log, unsettled>>
  BY PersistCursorDoes
<1>2. /\ call[c].to <= Len(log) /\ row[s] # None
      /\ s \notin unsettled => Follows(log, call[c].to, recorded[s], row[s])
  BY <1>1, TrackedKnown DEF Tracks
<1>3. Placed(s)'
  BY <1>1, <1>2, TrackedKnown DEF Placed
<1>4. CASE Onward(c, "pull") /\ call'[c].since = call[c].to
  BY <1>1, <1>3, <1>4 DEF Onward, Tracks
<1>5. CASE Finished(c)
  <2>1. call'[c].pc \in {"idle", "stamp"}
    BY <1>5 DEF Finished, IdleCall
  <2>2. QED
    BY <1>3, <2>1 DEF Tracks
<1>6. QED
  BY <1>4, <1>5, PersistCursorDoes

LEMMA PushTracked ==
  ASSUME Typed, Tracked, NEW c \in Calls, RollBackPage(c) \/ WriteLocal(c) \/ Record(c)
  PROVE  Placed(StoreOf(c))' /\ Tracks(c)'
<1> DEFINE s == StoreOf(c)
<1>1. /\ UNCHANGED <<cursor, log>> /\ Placed(s) /\ Tracks(c) /\ cursor[s] <= Len(log)
      /\ row[s] # None /\ s \in Stores
  BY TrackedKnown DEF RollBackPage, WriteLocal, Record
<1>2. CASE RollBackPage(c)
  <2>1. /\ call[c].pc = "merge" /\ call'[c].pc = "cursor" /\ call'[c].to = call[c].to
        /\ s \in unsettled' /\ row' = row /\ recorded' = recorded
    BY <1>2, RollBackPageDoes DEF Onward
  <2>2. cursor[s] <= call[c].to /\ call[c].to <= Len(log)
    BY <1>1, <2>1 DEF Tracks
  <2>3. QED
    BY <1>1, <2>1, <2>2 DEF Placed, Tracks
<1>3. CASE WriteLocal(c)
  <2>1. /\ call[c].pc = "write" /\ call'[c].pc = "record" /\ call'[c].value = call[c].value
        /\ call'[c].at = call[c].at /\ row'[s] = call[c].value /\ s \in unsettled'
        /\ recorded' = recorded
    BY <1>3, WriteLocalDoes DEF Onward
  <2>2. call[c].value # None /\ Stamp(call[c].at, s)
    BY <2>1, TrackedKnown DEF Carries, CarriesValue, Tracks
  <2>3. QED
    BY <1>1, <2>1, <2>2 DEF Placed, Tracks
<1>4. CASE Record(c)
  <2>1. /\ call[c].pc = "record" /\ call'[c].pc = "send" /\ call'[c].value = call[c].value
        /\ call'[c].at = call[c].at /\ call'[c].seq = call[c].seq
        /\ recorded'[s] = [value |-> call[c].value, at |-> call[c].at, seq |-> call[c].seq]
        /\ row' = row /\ unsettled' = unsettled
    BY <1>4, RecordDoes DEF Onward
  <2>2. recorded'[s].at = call'[c].at /\ recorded'[s].seq = call'[c].seq
    BY <2>1
  <2>3. s \in unsettled /\ row[s] = call[c].value /\ Stamp(call[c].at, s)
        /\ call[c].at # None /\ row[s] # None
    BY <1>1, <2>1, TrackedKnown DEF Carries, Tracks
  <2>4. QED
    BY <1>1, <2>1, <2>2, <2>3 DEF Placed, Tracks
<1>5. QED
  BY <1>2, <1>3, <1>4

LEMMA AnswerTracked ==
  ASSUME Typed, Tracked, NEW c \in Calls, Accepted(c) \/ Converge(c) \/ Settle(c)
  PROVE  Placed(StoreOf(c))' /\ Tracks(c)'
<1> DEFINE s == StoreOf(c)
<1>1. /\ UNCHANGED <<cursor, log>> /\ Placed(s) /\ Tracks(c) /\ cursor[s] <= Len(log)
      /\ row[s] # None /\ s \in Stores
  BY TrackedKnown DEF Accepted, Converge, Settle
<1>2. IdleCall.pc = "idle"
  BY DEF IdleCall
<1>3. CASE Accepted(c)
  <2>1. /\ call[c].pc = "accepted" /\ call'[c] = IdleCall /\ UNCHANGED <<row, recorded>>
    BY <1>3, AcceptedDoes
  <2>2. Follows(log, cursor[s], recorded[s], row[s])
    BY <1>1, <2>1 DEF Tracks
  <2>3. QED
    BY <1>1, <1>2, <2>1, <2>2 DEF Placed, Tracks
<1>4. CASE Converge(c)
  <2>1. /\ call[c].pc = "superseded" /\ call'[c].pc = "settle" /\ call'[c].value = call[c].value
        /\ call'[c].at = call[c].at /\ row'[s] = call[c].value
        /\ UNCHANGED <<recorded, unsettled>>
    BY <1>4, ConvergeDoes DEF Onward
  <2>2. call[c].value # None
    BY <2>1, TrackedKnown DEF Carries, CarriesValue
  <2>3. /\ s \in unsettled
        /\ \E j \in DOMAIN log : /\ call[c].value = log[j].value /\ call[c].at = log[j].at
                                 /\ Leads(log, j, cursor[s])
    BY <1>1, <2>1 DEF Tracks
  <2>4. QED
    BY <1>1, <2>1, <2>2, <2>3 DEF Placed, Tracks
<1>5. CASE Settle(c)
  <2>1. /\ call[c].pc = "settle" /\ call'[c] = IdleCall /\ row' = row
        /\ recorded'[s] = [value |-> call[c].value, at |-> call[c].at, seq |-> None]
    BY <1>5, SettleDoes
  <2>2. PICK j \in DOMAIN log : /\ call[c].value = log[j].value /\ call[c].at = log[j].at
                                /\ Leads(log, j, cursor[s])
    BY <1>1, <2>1 DEF Tracks
  <2>3. row[s] = call[c].value
    BY <1>1, <2>1 DEF Tracks
  <2>4. recorded'[s].at = log[j].at /\ recorded'[s].seq = None /\ log[j].at # None
    BY <2>1, <2>2, LoggedTypes, NoneIsNoTime
  <2>5. Follows(log, cursor[s], recorded'[s], row[s])
    BY <2>2, <2>3, <2>4 DEF Follows
  <2>6. QED
    BY <1>1, <1>2, <2>1, <2>4, <2>5 DEF Placed, Tracks
<1>6. QED
  BY <1>3, <1>4, <1>5

\* The broker's answer names the event that leads its log, the new one or another.
LEMMA DeliverLeads ==
  ASSUME DistinctStamps, Typed, Numbered, Led, Tracked, NEW c \in Calls, Deliver(c)
  PROVE  LET e == EventOf(c)  n == Len(log) + 1
         IN \/ /\ call'[c].pc = "accepted" /\ Leads(log', n, n)
               /\ mirror'.value = e.value /\ mirror'.at = e.at /\ mirror'.seq = e.seq
            \/ /\ call'[c].pc = "superseded" /\ mirror' = mirror
               /\ call'[c].value = mirror.value /\ call'[c].at = mirror.at
               /\ \E k \in DOMAIN log : /\ mirror.value = log[k].value /\ mirror.at = log[k].at
                                        /\ mirror.seq = log[k].seq /\ Leads(log', k, n)
<1> DEFINE e == EventOf(c)  n == Len(log) + 1
<1>1. /\ call[c].pc = "send" /\ e \in Event /\ e.at = call[c].at /\ e.seq = call[c].seq
      /\ e.by = StoreOf(c)
      /\ Len(log) \in Nat /\ log'[n] = e /\ \A i \in 1 .. Len(log) : log'[i] = log[i]
  BY DeliverDoes
<1>2. \/ /\ Wins(e, mirror) /\ call'[c].pc = "accepted"
         /\ mirror' = [value |-> e.value, at |-> e.at, seq |-> e.seq]
      \/ /\ ~Wins(e, mirror) /\ mirror' = mirror
         /\ call'[c].pc = "superseded"
         /\ call'[c].value = mirror.value /\ call'[c].at = mirror.at
  BY DeliverDoes DEF Onward
<1> HIDE DEF e
<1>3. DOMAIN log = 1 .. Len(log) /\ e.at \in Nat /\ e.seq \in Nat
  BY <1>1 DEF Event, Typed, TypeOK
<1>4. CASE /\ Wins(e, mirror) /\ call'[c].pc = "accepted"
           /\ mirror' = [value |-> e.value, at |-> e.at, seq |-> e.seq]
  <2>1. ASSUME NEW m \in 1 .. n
        PROVE  log'[m].at <= log'[n].at /\ (log'[m].at = log'[n].at => m <= n)
    <3>1. CASE m = n
      BY <1>1, <1>3, <3>1
    <3>2. CASE m \in 1 .. Len(log)
      <4>1. PICK k \in DOMAIN log : mirror.at = log[k].at /\ Leads(log, k, Len(log))
        BY <3>2 DEF Led
      <4>2. log[m].at <= log[k].at /\ log[k].at \in Nat /\ log[m].at \in Nat
        BY <1>3, <3>2, <4>1, LoggedTypes DEF Leads
      <4>3. log[k].at <= e.at
        BY <1>3, <1>4, <4>1, <4>2, NoneIsNoTime DEF Wins
      <4>4. QED
        BY <1>1, <1>3, <3>2, <4>2, <4>3
    <3>3. QED
      BY <1>1, <2>1, <3>1, <3>2
  <2>2. Leads(log', n, n)
    BY <2>1 DEF Leads
  <2>3. mirror'.value = e.value /\ mirror'.at = e.at /\ mirror'.seq = e.seq
    BY <1>4
  <2>4. QED
    BY <1>4, <2>2, <2>3 DEF e
<1>5. CASE ~Wins(e, mirror)
  <2>1. mirror.at # None
    BY <1>5 DEF Wins
  <2>2. PICK k \in DOMAIN log : /\ mirror.value = log[k].value /\ mirror.at = log[k].at
                                /\ mirror.seq = log[k].seq /\ Leads(log, k, Len(log))
    BY <2>1 DEF Led
  <2>3. log[k].at \in Nat /\ log[k].seq \in Nat /\ log[k].by \in Stores
    BY LoggedTypes, LogTypes DEF Typed
  <2>4. e.at # log[k].at
    <3>1. SUFFICES ASSUME e.at = log[k].at PROVE FALSE
      OBVIOUS
    <3>2. Stamp(e.at, StoreOf(c)) /\ Stamp(log[k].at, log[k].by)
      BY <1>1, TrackedKnown DEF Led, Tracks
    <3>3. log[k].by = StoreOf(c)
      BY <2>3, <3>1, <3>2, StampsDiffer, StoreOfCall
    <3>4. log[k].seq < e.seq
      BY <1>1, <3>3 DEF Numbered
    <3>5. Wins(e, mirror)
      BY <1>3, <2>2, <2>3, <3>1, <3>4 DEF Wins
    <3>6. QED
      BY <1>5, <3>5
  <2>5. e.at < log[k].at
    BY <1>3, <1>5, <2>2, <2>3, <2>4 DEF Wins
  <2>6. ASSUME NEW m \in 1 .. n
        PROVE  log'[m].at <= log'[k].at /\ (log'[m].at = log'[k].at => m <= k)
    <3>1. log'[k] = log[k]
      BY <1>1, <1>3
    <3>2. CASE m = n
      BY <1>1, <1>3, <2>3, <2>5, <3>1, <3>2
    <3>3. CASE m \in 1 .. Len(log)
      BY <1>1, <2>2, <3>1, <3>3 DEF Leads
    <3>4. QED
      BY <1>1, <2>6, <3>2, <3>3
  <2>7. Leads(log', k, n)
    BY <2>6 DEF Leads
  <2>8. QED
    BY <1>2, <1>5, <2>2, <2>7
<1>6. QED
  BY <1>2, <1>4, <1>5

LEMMA DeliverConverges ==
  ASSUME DistinctStamps, Typed, Numbered, Led, Tracked, NEW c \in Calls, Deliver(c)
  PROVE  /\ Led' /\ Placed(StoreOf(c))' /\ Tracks(c)' /\ Extends(log, log')
         /\ \A i \in DOMAIN log' : i \in DOMAIN log \/ log'[i].by = StoreOf(c)
<1> DEFINE e == EventOf(c)  n == Len(log) + 1  s == StoreOf(c)
<1>1. /\ call[c].pc = "send" /\ e \in Event /\ e.value = call[c].value
      /\ e.at = call[c].at /\ e.seq = call[c].seq /\ e.by = s
      /\ Len(log) \in Nat /\ Len(log') = n /\ log' \in Seq(Event)
      /\ log'[n] = e /\ \A i \in 1 .. Len(log) : log'[i] = log[i]
      /\ UNCHANGED <<row, recorded, cursor, unsettled>>
  BY DeliverDoes
<1>2. \/ /\ call'[c].pc = "accepted" /\ Leads(log', n, n)
         /\ mirror'.value = e.value /\ mirror'.at = e.at /\ mirror'.seq = e.seq
      \/ /\ call'[c].pc = "superseded" /\ mirror' = mirror
         /\ call'[c].value = mirror.value /\ call'[c].at = mirror.at
         /\ \E k \in DOMAIN log : /\ mirror.value = log[k].value /\ mirror.at = log[k].at
                                  /\ mirror.seq = log[k].seq /\ Leads(log', k, n)
  BY DeliverLeads
<1> HIDE DEF e
<1>3. /\ s \in Stores /\ row[s] # None /\ cursor[s] \in Nat /\ cursor[s] <= Len(log)
      /\ row[s] = call[c].value /\ s \in unsettled /\ Stamp(call[c].at, s)
      /\ recorded[s].at = call[c].at /\ recorded[s].seq = call[c].seq /\ recorded[s].at # None
  BY <1>1, TrackedKnown DEF Carries, Tracks
<1>4. DOMAIN log = 1 .. Len(log) /\ DOMAIN log' = 1 .. n /\ n \in DOMAIN log'
  BY <1>1 DEF Typed, TypeOK
<1>5. Extends(log, log')
  BY <1>1 DEF Extends, Typed, TypeOK
<1>6. Placed(s)'
  BY <1>1, <1>3 DEF Placed
<1>7. /\ \A i \in DOMAIN log' : Stamp(log'[i].at, log'[i].by)
      /\ \A i \in DOMAIN log' : i \in DOMAIN log \/ log'[i].by = s
  BY <1>1, <1>3, <1>4 DEF Led
<1>8. CASE /\ call'[c].pc = "accepted" /\ Leads(log', n, n)
           /\ mirror'.value = e.value /\ mirror'.at = e.at /\ mirror'.seq = e.seq
  <2>1. Led'
    BY <1>1, <1>4, <1>7, <1>8 DEF Led
  <2>2. Follows(log', n, recorded[s], row[s])
    BY <1>1, <1>3, <1>4, <1>8 DEF Follows
  <2>3. Follows(log', cursor[s], recorded[s], row[s])
    BY <1>1, <1>3, <2>2, FollowsFewer
  <2>4. Tracks(c)'
    BY <1>1, <1>3, <1>8, <2>3 DEF Tracks
  <2>5. QED
    BY <1>5, <1>6, <1>7, <2>1, <2>4
<1>9. ASSUME NEW k \in DOMAIN log, call'[c].pc = "superseded", mirror' = mirror,
             call'[c].value = mirror.value, call'[c].at = mirror.at,
             mirror.value = log[k].value, mirror.at = log[k].at, mirror.seq = log[k].seq,
             Leads(log', k, n)
      PROVE  Led' /\ Tracks(c)'
  <2>1. k \in DOMAIN log' /\ log'[k] = log[k]
    BY <1>1, <1>4
  <2>2. Led'
    BY <1>1, <1>7, <1>9, <2>1 DEF Led
  <2>3. Leads(log', k, cursor[s])
    BY <1>1, <1>3, <1>9 DEF Leads
  <2>4. Tracks(c)'
    BY <1>1, <1>3, <1>9, <2>1, <2>3 DEF Tracks
  <2>5. QED
    BY <2>2, <2>4
<1>10. QED
  BY <1>2, <1>5, <1>6, <1>7, <1>8, <1>9

LEMMA ConvergedStep ==
  ASSUME OneProcess, DistinctStamps, ClonesOfOneEditor, Unshared = {},
         Typed, Numbered, InTime, Led, Tracked, [Next]_vars
  PROVE  Led' /\ Tracked'
<1>1. ASSUME UNCHANGED <<log, mirror>> PROVE Led'
  BY <1>1 DEF Led
<1>2. ASSUME NEW c \in Calls, CallStep(c), log' = log, Placed(StoreOf(c))', Tracks(c)'
      PROVE  Tracked'
  BY <1>2, TrackedKnown, ElsewhereStep, TrackedAside
<1>3. /\ Ordered(log)
      /\ \A s \in Stores : recorded[s].at = None /\ Newcomers # {} => InOrder(log)
  BY LogOrdered, LogInOrder
<1>4. ASSUME NEW c \in Calls, CallStep(c), ~Deliver(c)
      PROVE  UNCHANGED <<log, mirror>>
  BY <1>4 DEF CallStep, Edit, Decide, OpenPull, FetchPage, MergePage, RollBackPage,
              PersistCursor, StopPull, TakeSeq, WriteLocal, Record, Accepted, Converge,
              Settle, Interrupt
<1>5. ASSUME NEW c \in Calls, CallStep(c), ~Deliver(c)
      PROVE  Placed(StoreOf(c))' /\ Tracks(c)'
  BY <1>3, <1>5, EditTracked, PullTracked, MergeTracked, CursorTracked, PushTracked,
     AnswerTracked, StoreOfCall DEF CallStep
<1>6. ASSUME NEW c \in Calls, Deliver(c)
      PROVE  Led' /\ Tracked'
  <2>1. Elsewhere(c)
    BY <1>6, ElsewhereStep DEF CallStep
  <2>2. QED
    BY <1>6, <2>1, DeliverConverges, TrackedAside
<1>7. CASE Tick \/ UNCHANGED vars
  BY <1>7 DEF Tick, vars, Led, Tracked, Placed, Tracks
<1>8. ASSUME NEW s \in Stores, Clone(s) PROVE Led' /\ Tracked'
  BY <1>1, <1>8, CloneTracked DEF Clone
<1>9. QED
  BY <1>1, <1>2, <1>4, <1>5, <1>6, <1>7, <1>8 DEF Next

\* Convergence, for any number of stores with one process each, any page size, and
\* whatever requests fail and processes die: where no two stores ever stamp the same
\* time, every edit is propagated, and a store is cloned late only if it has at most
\* one editor beside it, a store at rest that has pulled all of the log, and whose edits
\* the broker has answered, holds what the broker holds.
THEOREM StoresConverge ==
  ASSUME OneProcess, DistinctStamps, Unshared = {}, ClonesOfOneEditor
  PROVE  Spec => []Converged
<1>1. Numbered /\ InTime /\ Typed /\ Led /\ Tracked /\ [Next]_vars =>
        Numbered' /\ InTime' /\ Led' /\ Tracked'
  BY NumberedStep, InTimeStep, ConvergedStep
<1>2. Init => Numbered /\ InTime /\ Led /\ Tracked
  BY NumberedInit, InTimeInit, ConvergedInit
<1>3. Typed /\ Led /\ Tracked => Converged
  <2> SUFFICES ASSUME Typed, Led, Tracked, NEW s \in Stores, s \notin unsettled,
                      row[s] # None, cursor[s] = Len(log)
               PROVE  row[s] = mirror.value
    BY DEF Converged
  <2>1. Follows(log, Len(log), recorded[s], row[s])
    BY DEF Tracked, Placed
  <2>2. Len(log) \in Nat /\ DOMAIN log = 1 .. Len(log)
    BY DEF Typed, TypeOK
  <2>3. CASE Len(log) = 0
    BY <2>1, <2>2, <2>3 DEF Follows, Led
  <2>4. CASE Len(log) # 0
    <3>1. PICK j \in DOMAIN log : row[s] = log[j].value /\ Leads(log, j, Len(log))
      BY <2>1, <2>4 DEF Follows
    <3>2. PICK k \in DOMAIN log : mirror.value = log[k].value /\ Leads(log, k, Len(log))
      BY <2>4 DEF Led
    <3>3. log[j].at \in Nat /\ log[k].at \in Nat
      BY LoggedTypes
    <3>4. j = k
      BY <2>2, <3>1, <3>2, <3>3 DEF Leads
    <3>5. QED
      BY <3>1, <3>2, <3>4
  <2>5. QED
    BY <2>3, <2>4
<1>4. QED
  BY <1>1, <1>2, <1>3, AlwaysTyped, PTL DEF Spec

=============================================================================
