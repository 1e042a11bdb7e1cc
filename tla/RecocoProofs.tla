---------------------------- MODULE RecocoProofs ----------------------------
(***************************************************************************)
(* Proofs about module Recoco: its types, that a task is in one place at a *)
(* time (OnePlace), and that the functions given to callLater are executed *)
(* in order and once each.                                                 *)
(*                                                                         *)
(* OnePlace counts with Cardinality.  The proof counts with numbers: how   *)
(* often a task occurs in a queue (Occurrences, whose laws come first),    *)
(* and 0 or 1 for the task that runs and for a task the hub waits for.     *)
(* Every step takes one from a place and adds one to another.              *)
(***************************************************************************)
EXTENDS Recoco, TLAPS, SequenceTheorems, FiniteSetTheorems

-----------------------------------------------------------------------------
(* Occurrences of a task in a queue                                        *)

Positions(t, q) == {k \in 1 .. Len(q) : q[k] = t}

LEMMA PositionsFinite ==
    ASSUME NEW S, NEW q \in Seq(S), NEW t
    PROVE  /\ IsFiniteSet(Positions(t, q)) /\ Occurrences(t, q) = Cardinality(Positions(t, q))
           /\ Occurrences(t, q) \in Nat
  <1>1. Len(q) \in Nat
    OBVIOUS
  <1>2. IsFiniteSet(1 .. Len(q))
    BY <1>1, FS_Interval
  <1>3. Positions(t, q) \in SUBSET (1 .. Len(q))
    BY DEF Positions
  <1>4. IsFiniteSet(Positions(t, q))
    BY <1>2, <1>3, FS_Subset
  <1>5. Occurrences(t, q) = Cardinality(Positions(t, q))
    BY DEF Occurrences, Positions
  <1> QED
    BY <1>4, <1>5, FS_CardinalityType

LEMMA OccurrencesNone ==
    ASSUME NEW S, NEW q \in Seq(S), NEW t
    PROVE  Occurrences(t, q) = 0 <=> t \notin Range(q)
  <1>1. Occurrences(t, q) = 0 <=> Positions(t, q) = {}
    BY PositionsFinite, FS_EmptySet
  <1>2. Positions(t, q) = {} <=> t \notin Range(q)
    BY DEF Positions, Range
  <1> QED
    BY <1>1, <1>2

LEMMA OccurrencesEmpty ==
    ASSUME NEW t PROVE Occurrences(t, <<>>) = 0
  <1>1. {k \in 1 .. Len(<<>>) : <<>>[k] = t} = {}
    OBVIOUS
  <1> QED
    BY <1>1, FS_EmptySet DEF Occurrences

LEMMA OccurrencesAppend ==
    ASSUME NEW S, NEW q \in Seq(S), NEW x \in S, NEW t
    PROVE  Occurrences(t, Append(q, x)) = Occurrences(t, q) + IF x = t THEN 1 ELSE 0
  <1>0. /\ Len(Append(q, x)) = Len(q) + 1 /\ Len(q) \in Nat /\ Append(q, x)[Len(q) + 1] = x
        /\ \A k \in 1 .. Len(q) : Append(q, x)[k] = q[k]
        /\ Append(q, x) \in Seq(S)
    OBVIOUS
  <1>1. Len(q) + 1 \notin Positions(t, q)
    BY <1>0 DEF Positions
  <1>2. PICK p \in Seq(S) : p = Append(q, x)
    BY <1>0
  <1>3. /\ IsFiniteSet(Positions(t, q)) /\ Occurrences(t, q) = Cardinality(Positions(t, q))
        /\ Occurrences(t, p) = Cardinality(Positions(t, p)) /\ Occurrences(t, q) \in Nat
    BY PositionsFinite
  <1>4. CASE x = t
    <2>1. Positions(t, Append(q, x)) = Positions(t, q) \cup {Len(q) + 1}
      BY <1>0, <1>4 DEF Positions
    <2>2. Cardinality(Positions(t, q) \cup {Len(q) + 1}) = Cardinality(Positions(t, q)) + 1
      BY <1>1, <1>3, FS_AddElement
    <2> QED
      BY <1>4, <1>2, <1>3, <2>1, <2>2
  <1>5. CASE x # t
    <2>1. Positions(t, Append(q, x)) = Positions(t, q)
      BY <1>0, <1>5 DEF Positions
    <2> QED
      BY <1>5, <1>2, <1>3, <2>1
  <1> QED
    BY <1>4, <1>5

LEMMA OccurrencesTail ==
    ASSUME NEW S, NEW q \in Seq(S), NEW t, q # <<>>
    PROVE  /\ Occurrences(t, q) = Occurrences(t, Tail(q)) + IF Head(q) = t THEN 1 ELSE 0
           /\ Head(q) \in S /\ Tail(q) \in Seq(S)
  <1>0. /\ Len(Tail(q)) = Len(q) - 1 /\ Len(q) \in Nat \ {0} /\ Head(q) = q[1] /\ Head(q) \in S
        /\ \A k \in 1 .. Len(Tail(q)) : Tail(q)[k] = q[k + 1]
        /\ Tail(q) \in Seq(S)
    OBVIOUS
  <1> DEFINE A == Positions(t, q) \ {1}
             B == Positions(t, Tail(q))
             f == [k \in B |-> k + 1]
  <1>1. f \in [B -> A]
    BY <1>0 DEF Positions
  <1>2. \A k, j \in B : f[k] = f[j] => k = j
    BY DEF Positions
  <1>3. ASSUME NEW a \in A PROVE \E k \in B : f[k] = a
    <2>1. a \in 1 .. Len(q) /\ a # 1 /\ q[a] = t
      BY DEF Positions
    <2>2. a - 1 \in 1 .. Len(Tail(q)) /\ (a - 1) + 1 = a
      BY <1>0, <2>1
    <2>3. a - 1 \in B
      BY <1>0, <2>1, <2>2 DEF Positions
    <2> QED
      BY <2>2, <2>3
  <1>4. f \in Bijection(B, A)
    BY <1>1, <1>2, <1>3 DEF Bijection, Injection, Surjection, IsInjective
  <1>5. ExistsBijection(B, A)
    BY <1>4 DEF ExistsBijection
  <1>6. Cardinality(A) = Cardinality(B)
    BY <1>0, <1>5, PositionsFinite, FS_Bijection
  <1>7. 1 \in Positions(t, q) <=> Head(q) = t
    BY <1>0 DEF Positions
  <1>8. Cardinality(A) = IF 1 \in Positions(t, q) THEN Cardinality(Positions(t, q)) - 1
                         ELSE Cardinality(Positions(t, q))
    BY PositionsFinite, FS_RemoveElement
  <1>9. /\ Occurrences(t, q) = Cardinality(Positions(t, q)) /\ Occurrences(t, q) \in Nat
        /\ Occurrences(t, Tail(q)) = Cardinality(B) /\ Occurrences(t, Tail(q)) \in Nat
    BY <1>0, PositionsFinite
  <1> HIDE DEF A, B, f
  <1> QED
    BY <1>0, <1>6, <1>7, <1>8, <1>9

LEMMA OccurrencesFront ==
    ASSUME NEW S, NEW q \in Seq(S), NEW x \in S, NEW t
    PROVE  Occurrences(t, <<x>> \o q) = Occurrences(t, q) + IF x = t THEN 1 ELSE 0
  <1>0. <<x>> \in Seq(S)
    OBVIOUS
  <1>1. PICK p \in Seq(S) : p = <<x>> \o q
    BY <1>0, ConcatProperties
  <1>2. p # <<>> /\ Head(p) = x /\ Tail(p) = q
    BY <1>1
  <1> QED
    BY <1>1, <1>2, OccurrencesTail

-----------------------------------------------------------------------------
(* The invariant                                                           *)

Runs(t) == IF running = t THEN 1 ELSE 0
Waits(t) == IF t \in waiting THEN 1 ELSE 0
Spots(t) == Occurrences(t, ready) + Occurrences(t, incoming) + Runs(t) + Waits(t)

(* A worker is in one place; "later", or the "start" that will put it on   *)
(* _ready, is in one place once it is made.                                *)
OneSpot ==
    /\ \A t \in Workers : Spots(t) = 1
    /\ Spots("later") + Occurrences("start", ready) + Runs("start") = IF made THEN 1 ELSE 0

(* Where the two threads are, and what they hold there.                    *)
ThreadsOK ==
    /\ running # NoTask <=> sched \in {"execute", "calls"}
    /\ sched = "calls" => running = "later"
    /\ incoming \in Seq(Workers \cup {"later"})
    /\ hub \in {"expired", "setExpired"} => watched \subseteq waiting /\ hand \cap watched = {}

(* The functions handed over are those executed and those still to come.   *)
CallsOK ==
    /\ {called, calls, executed} \subseteq Seq(Nat)
    /\ called = executed \o calls

RecocoInv == TypeOK /\ OneSpot /\ ThreadsOK /\ CallsOK

LEMMA SpotsFrame ==
    ASSUME OneSpot, UNCHANGED <<ready, incoming, running, waiting, made>>
    PROVE  OneSpot'
  BY DEF OneSpot, Spots, Runs, Waits

LEMMA SpotsKept ==
    ASSUME OneSpot, made' = made, \A t \in Workers \cup {"later"} : Spots(t)' = Spots(t),
           Occurrences("start", ready)' = Occurrences("start", ready), Runs("start")' = Runs("start")
    PROVE  OneSpot'
  BY DEF OneSpot

LEMMA SpotTypes ==
    ASSUME TypeOK, NEW t
    PROVE  /\ Occurrences(t, ready) \in Nat /\ Occurrences(t, incoming) \in Nat
           /\ Runs(t) \in 0 .. 1 /\ Waits(t) \in 0 .. 1
  BY PositionsFinite DEF TypeOK, Runs, Waits

-----------------------------------------------------------------------------
(* At the start every worker is on _ready, once.                           *)
LEMMA InitInv ==
    ASSUME Init PROVE RecocoInv
  <1> DEFINE n == Cardinality(Workers)
  <1>1. n \in Nat
    BY RecocoAssumption, FS_CardinalityType
  <1>2. ready \in [1 .. n -> Workers] /\ \A i, j \in 1 .. n : i # j => ready[i] # ready[j]
    BY DEF Init, SetToSeqs
  <1>3. ready \in Seq(Workers) /\ Len(ready) = n
    BY <1>1, <1>2
  <1>4. ready \in Injection(1 .. n, Workers)
    BY <1>2 DEF Injection, IsInjective
  <1>5. Cardinality(1 .. n) = n
    BY <1>1, FS_Interval
  <1>6. ready \in Surjection(1 .. n, Workers)
    BY <1>4, <1>5, RecocoAssumption, FS_Injection
  <1>7. ASSUME NEW t \in Workers PROVE Occurrences(t, ready) = 1
    <2>1. PICK k \in 1 .. n : ready[k] = t
      BY <1>6 DEF Surjection
    <2>2. Positions(t, ready) = {k}
      BY <1>2, <1>3, <2>1 DEF Positions
    <2> QED
      BY <1>3, <2>2, PositionsFinite, FS_Singleton
  <1>8. ASSUME NEW t, t \notin Workers PROVE Occurrences(t, ready) = 0
    BY <1>3, <1>8, OccurrencesNone DEF Range
  <1>9. OneSpot
    <2>1. \A t : Occurrences(t, incoming) = 0
      BY OccurrencesEmpty DEF Init
    <2>2. \A t \in Workers : t # NoTask
      BY RecocoAssumption DEF NoTask
    <2>3. "later" \notin Workers /\ "start" \notin Workers
      BY RecocoAssumption
    <2>4. Occurrences("later", ready) = 0 /\ Occurrences("start", ready) = 0
      BY <1>8, <2>3
    <2> QED
      BY <1>7, <2>1, <2>2, <2>4 DEF Init, OneSpot, Spots, Runs, Waits, NoTask
  <1>10. TypeOK
    <2>1. ready \in Seq(Tasks)
      BY <1>3 DEF Tasks
    <2>2. {hasQuit, event, ping, made, first} \subseteq BOOLEAN
      BY DEF Init
    <2> QED
      BY <2>1, <2>2 DEF Init, TypeOK
  <1>11. ThreadsOK /\ CallsOK
    BY DEF Init, ThreadsOK, CallsOK
  <1> QED
    BY <1>9, <1>10, <1>11 DEF RecocoInv

-----------------------------------------------------------------------------
(* The types                                                               *)

LEMMA TypesNext ==
    ASSUME TypeOK, ThreadsOK, [Next]_vars
    PROVE  TypeOK'
  <1> USE DEF schedVars, hubVars, laterVars
  <1>0. /\ ready \in Seq(Tasks) /\ incoming \in Seq(Tasks)
        /\ hasQuit \in BOOLEAN /\ event \in BOOLEAN /\ ping \in BOOLEAN
        /\ made \in BOOLEAN /\ first \in BOOLEAN
        /\ "later" \in Tasks /\ "start" \in Tasks /\ Workers \subseteq Tasks
    BY DEF TypeOK, Tasks
  <1>1. CASE Check
    BY <1>1 DEF TypeOK, Check
  <1>2. CASE Wait \/ WaitTimesOut
    BY <1>2 DEF TypeOK, Wait, WaitTimesOut
  <1>3. CASE Clear
    BY <1>3 DEF TypeOK, Clear
  <1>4. CASE Pop
    <2>1. CASE ready = <<>>
      BY <1>4, <2>1 DEF TypeOK, Pop
    <2>2. CASE ready # <<>>
      <3>1. Head(ready) \in Tasks /\ Tail(ready) \in Seq(Tasks)
        BY <1>0, <2>2
      <3> QED
        BY <1>4, <2>2, <3>1 DEF TypeOK, Pop
    <2> QED
      BY <2>1, <2>2
  <1>5. CASE Ping \/ End
    BY <1>5 DEF TypeOK, Ping, End
  <1>6. CASE Set
    BY <1>6 DEF TypeOK, Set
  <1>7. CASE ExecuteSelect
    <2>1. Append(incoming, running) \in Seq(Tasks)
      BY <1>0, <1>7 DEF ExecuteSelect
    <2> QED
      BY <1>7, <2>1 DEF TypeOK, ExecuteSelect, register
  <1>8. CASE ExecuteSchedule
    <2>1. <<"later">> \o ready \in Seq(Tasks)
      <3>1. <<"later">> \in Seq(Tasks)
        BY <1>0
      <3> QED
        BY <1>0, <3>1, ConcatProperties
    <2>2. ready' \in Seq(Tasks)
      BY <1>0, <1>8, <2>1 DEF ExecuteSchedule
    <2> QED
      BY <1>8, <2>2 DEF TypeOK, ExecuteSchedule
  <1>9. CASE ExecuteLater
    <2>1. Append(incoming, "later") \in Seq(Tasks)
      BY <1>0
    <2>2. CASE first
      BY <1>9, <2>1, <2>2 DEF TypeOK, ExecuteLater, register
    <2>3. CASE ~ first
      BY <1>9, <2>1, <2>3 DEF TypeOK, ExecuteLater
    <2> QED
      BY <2>2, <2>3
  <1>10. CASE CallOne
    <2>1. hasQuit' \in BOOLEAN
      BY <1>10 DEF CallOne
    <2> QED
      BY <1>10, <2>1 DEF TypeOK, CallOne
  <1>11. CASE CallsDone
    <2>1. Append(incoming, "later") \in Seq(Tasks)
      BY <1>0
    <2> QED
      BY <1>11, <2>1 DEF TypeOK, CallsDone, register
  <1>12. CASE Build
    BY <1>12 DEF TypeOK, Build
  <1>13. CASE SelectReady \/ SelectTimeout
    BY <1>13 DEF TypeOK, ThreadsOK, SelectReady, SelectTimeout
  <1>14. CASE PongAll
    BY <1>14 DEF TypeOK, PongAll
  <1>15. CASE DrainOne
    <2>1. Head(incoming) \in Workers \cup {"later"}
      BY <1>15 DEF DrainOne, ThreadsOK
    <2>2. Tail(incoming) \in Seq(Tasks)
      BY <1>0, <1>15 DEF DrainOne
    <2> QED
      BY <1>15, <2>1, <2>2 DEF TypeOK, DrainOne
  <1>16. CASE Drained
    BY <1>16 DEF TypeOK, Drained
  <1>17. ASSUME NEW t \in Tasks, ReturnTask(t) PROVE TypeOK'
    <2>1. Append(ready, t) \in Seq(Tasks)
      BY <1>0
    <2> QED
      BY <1>17, <2>1 DEF TypeOK, ReturnTask
  <1>18. CASE BreakIdle
    BY <1>18 DEF TypeOK, BreakIdle
  <1>19. ASSUME NEW x \in Callers, callLater(x) PROVE TypeOK'
    <2>1. Append(ready, "start") \in Seq(Tasks)
      BY <1>0
    <2> QED
      BY <1>19, <2>1 DEF TypeOK, callLater
  <1>20. ASSUME NEW x \in Callers, StartSets(x) PROVE TypeOK'
    BY <1>20 DEF TypeOK, StartSets
  <1>21. ASSUME NEW x \in Callers, AppendCall(x) PROVE TypeOK'
    BY <1>21 DEF TypeOK, AppendCall
  <1>22. ASSUME NEW x \in Callers, PingLater(x) PROVE TypeOK'
    BY <1>22 DEF TypeOK, PingLater
  <1>23. ASSUME NEW t \in Workers, Arrive(t) \/ Elapse(t) PROVE TypeOK'
    BY <1>23 DEF TypeOK, Arrive, Elapse
  <1>24. CASE UNCHANGED vars
    BY <1>24 DEF TypeOK, vars
  <1> QED
    BY <1>1, <1>2, <1>3, <1>4, <1>5, <1>6, <1>7, <1>8, <1>9, <1>10, <1>11, <1>12, <1>13, <1>14,
       <1>15, <1>16, <1>17, <1>18, <1>19, <1>20, <1>21, <1>22, <1>23, <1>24
       DEF Next, SchedulerStep, HubStep, CallerStep

-----------------------------------------------------------------------------
(* What the threads hold                                                   *)

LEMMA ThreadsNext ==
    ASSUME TypeOK, ThreadsOK, [Next]_vars
    PROVE  ThreadsOK'
  <1> USE DEF schedVars, hubVars, laterVars
  <1>0. incoming \in Seq(Workers \cup {"later"}) /\ ready \in Seq(Tasks) /\ "none" \notin Tasks
    BY RecocoAssumption DEF ThreadsOK, TypeOK, Tasks
  <1>1. CASE Check
    BY <1>1 DEF ThreadsOK, Check
  <1>2. CASE Wait \/ WaitTimesOut
    BY <1>2 DEF ThreadsOK, Wait, WaitTimesOut
  <1>3. CASE Clear
    BY <1>3 DEF ThreadsOK, Clear
  <1>4. CASE Pop
    <2>1. CASE ready = <<>>
      BY <1>4, <2>1 DEF ThreadsOK, Pop
    <2>2. CASE ready # <<>>
      <3>1. Head(ready) # NoTask
        BY <1>0, <2>2 DEF NoTask
      <3> QED
        BY <1>4, <2>2, <3>1 DEF ThreadsOK, Pop
    <2> QED
      BY <2>1, <2>2
  <1>5. CASE Ping \/ End
    BY <1>5 DEF ThreadsOK, Ping, End
  <1>6. CASE Set
    BY <1>6 DEF ThreadsOK, Set
  <1>7. CASE ExecuteSelect
    <2>1. Append(incoming, running) \in Seq(Workers \cup {"later"})
      BY <1>0, <1>7 DEF ExecuteSelect
    <2> QED
      BY <1>7, <2>1 DEF ThreadsOK, ExecuteSelect, register
  <1>8. CASE ExecuteSchedule
    BY <1>8 DEF ThreadsOK, ExecuteSchedule
  <1>9. CASE ExecuteLater
    <2>1. Append(incoming, "later") \in Seq(Workers \cup {"later"})
      BY <1>0
    <2>2. CASE first
      BY <1>9, <2>1, <2>2 DEF ThreadsOK, ExecuteLater, register
    <2>3. CASE ~ first
      BY <1>9, <2>1, <2>3 DEF ThreadsOK, ExecuteLater, NoTask
    <2> QED
      BY <2>2, <2>3
  <1>10. CASE CallOne
    BY <1>10 DEF ThreadsOK, CallOne
  <1>11. CASE CallsDone
    <2>1. Append(incoming, "later") \in Seq(Workers \cup {"later"})
      BY <1>0
    <2> QED
      BY <1>11, <2>1 DEF ThreadsOK, CallsDone, register
  <1>12. CASE Build
    BY <1>12 DEF ThreadsOK, Build
  <1>13. CASE SelectReady \/ SelectTimeout
    BY <1>13 DEF ThreadsOK, SelectReady, SelectTimeout
  <1>14. CASE PongAll
    BY <1>14 DEF ThreadsOK, PongAll
  <1>15. CASE DrainOne
    <2>1. Tail(incoming) \in Seq(Workers \cup {"later"})
      BY <1>0, <1>15 DEF DrainOne
    <2> QED
      BY <1>15, <2>1 DEF ThreadsOK, DrainOne
  <1>16. CASE Drained
    BY <1>16 DEF ThreadsOK, Drained
  <1>17. ASSUME NEW t \in Tasks, ReturnTask(t) PROVE ThreadsOK'
    BY <1>17 DEF ThreadsOK, ReturnTask
  <1>18. CASE BreakIdle
    BY <1>18 DEF ThreadsOK, BreakIdle
  <1>19. ASSUME NEW x \in Callers, callLater(x) \/ CallerStep(x) PROVE ThreadsOK'
    BY <1>19 DEF ThreadsOK, callLater, CallerStep, StartSets, AppendCall, PingLater
  <1>20. ASSUME NEW t \in Workers, Arrive(t) \/ Elapse(t) PROVE ThreadsOK'
    BY <1>20 DEF ThreadsOK, Arrive, Elapse
  <1>21. CASE UNCHANGED vars
    BY <1>21 DEF ThreadsOK, vars
  <1> QED
    BY <1>1, <1>2, <1>3, <1>4, <1>5, <1>6, <1>7, <1>8, <1>9, <1>10, <1>11, <1>12, <1>13, <1>14,
       <1>15, <1>16, <1>17, <1>18, <1>19, <1>20, <1>21
       DEF Next, SchedulerStep, HubStep

-----------------------------------------------------------------------------
(* The functions handed over                                               *)

LEMMA CallsNext ==
    ASSUME TypeOK, CallsOK, [Next]_vars
    PROVE  CallsOK'
  <1> USE DEF schedVars, hubVars, laterVars
  <1>1. CASE CallOne
    <2>1. calls # <<>> /\ executed' = Append(executed, Head(calls)) /\ calls' = Tail(calls) /\ called' = called
      BY <1>1 DEF CallOne
    <2>2. /\ Head(calls) \in Nat /\ Tail(calls) \in Seq(Nat) /\ executed \in Seq(Nat)
          /\ Append(executed, Head(calls)) \in Seq(Nat)
      BY <2>1 DEF CallsOK
    <2>3. Append(executed, Head(calls)) \o Tail(calls) = executed \o calls
      <3>1. PICK e \in Seq(Nat), h \in Nat, r \in Seq(Nat) : e = executed /\ h = Head(calls) /\ r = Tail(calls)
        BY ONLY <2>2, Zenon
      <3>2. <<h>> \in Seq(Nat) /\ Append(e, h) = e \o <<h>>
        BY AppendIsConcat
      <3>3. calls = <<h>> \o r
        BY <2>1, <3>1 DEF CallsOK
      <3>4. (e \o <<h>>) \o r = e \o (<<h>> \o r)
        BY <3>2, ConcatAssociative
      <3> QED
        BY ONLY <3>1, <3>2, <3>3, <3>4, Zenon
    <2> QED
      BY <2>1, <2>2, <2>3 DEF CallsOK
  <1>2. ASSUME NEW x \in Callers, AppendCall(x) PROVE CallsOK'
    <2>1. called \in Seq(Nat) /\ Len(called) + 1 \in Nat /\ QuitCall \in Nat
      BY DEF CallsOK, QuitCall
    <2>2. PICK c \in Nat : called' = Append(called, c) /\ calls' = Append(calls, c) /\ executed' = executed
      BY <1>2, <2>1 DEF AppendCall
    <2>3. Append(executed \o calls, c) = executed \o Append(calls, c)
      BY DEF CallsOK
    <2>4. Append(called, c) \in Seq(Nat) /\ Append(calls, c) \in Seq(Nat)
      BY DEF CallsOK
    <2> QED
      BY <2>2, <2>3, <2>4 DEF CallsOK
  <1>3. CASE UNCHANGED <<called, calls, executed>>
    BY <1>3 DEF CallsOK
  <1>4. ASSUME Next, ~ CallOne, ~ \E x \in Callers : AppendCall(x)
        PROVE  UNCHANGED <<called, calls, executed>>
    <2>1. CASE SchedulerStep
      BY <1>4, <2>1 DEF SchedulerStep, Check, Wait, Clear, Pop, Ping, Set, End, ExecuteSelect,
                        ExecuteSchedule, ExecuteLater, CallsDone
    <2>2. CASE HubStep
      BY <2>2 DEF HubStep, Build, SelectReady, SelectTimeout, PongAll, DrainOne, Drained,
                  ReturnTask, BreakIdle
    <2>3. CASE ~ SchedulerStep /\ ~ HubStep
      BY <1>4, <2>3 DEF Next, WaitTimesOut, callLater, CallerStep, StartSets, PingLater, Arrive, Elapse
    <2> QED
      BY <2>1, <2>2, <2>3
  <1> QED
    BY <1>1, <1>2, <1>3, <1>4 DEF vars

-----------------------------------------------------------------------------
(* One place                                                               *)

(* What "later" and "start" amount to, whatever else there is              *)
LEMMA SpotsNext ==
    ASSUME RecocoInv, [Next]_vars
    PROVE  OneSpot'
  <1> USE DEF schedVars, hubVars, laterVars
  <1>0. /\ ready \in Seq(Tasks) /\ incoming \in Seq(Tasks)
        /\ "later" \in Tasks /\ "start" \in Tasks /\ Workers \subseteq Tasks
        /\ NoTask \notin Tasks /\ "later" \notin Workers /\ "start" \notin Workers
    BY RecocoAssumption DEF RecocoInv, TypeOK, Tasks, NoTask
  <1>1. \A t : /\ Occurrences(t, ready) \in Nat /\ Occurrences(t, incoming) \in Nat
               /\ Runs(t) \in 0 .. 1 /\ Waits(t) \in 0 .. 1
    BY SpotTypes DEF RecocoInv
  <1>2. CASE Pop /\ ready # <<>>
    <2>1. running = NoTask
      BY <1>2 DEF Pop, RecocoInv, ThreadsOK
    <2>2. /\ ready' = Tail(ready) /\ running' = Head(ready)
          /\ UNCHANGED <<incoming, waiting, made>>
      BY <1>2 DEF Pop
    <2>3. \A t : Occurrences(t, ready) = Occurrences(t, Tail(ready)) + IF Head(ready) = t THEN 1 ELSE 0
      BY <1>0, <1>2, OccurrencesTail
    <2>4. Tail(ready) \in Seq(Tasks)
      BY <1>0, <1>2
    <2>5. \A t : Occurrences(t, Tail(ready)) \in Nat
      BY <2>4, PositionsFinite
    <2>6. \A t \in Tasks : Occurrences(t, ready') + Runs(t)' = Occurrences(t, ready) + Runs(t)
      BY <1>0, <2>1, <2>2, <2>3, <2>5 DEF Runs
    <2>7. \A t : Occurrences(t, ready') \in Nat /\ Runs(t)' \in 0 .. 1 /\ Waits(t)' = Waits(t)
      BY <2>2, <2>5 DEF Runs, Waits
    <2>8. ASSUME NEW t \in Workers \cup {"later"} PROVE Spots(t)' = Spots(t)
      <3>1. t \in Tasks
        BY <1>0
      <3>2. Occurrences(t, ready') + Runs(t)' = Occurrences(t, ready) + Runs(t)
        BY <2>6, <3>1
      <3>3. Spots(t)' = Occurrences(t, ready') + Occurrences(t, incoming) + Runs(t)' + Waits(t)
        BY <2>2, <2>7 DEF Spots
      <3> QED
        BY <1>1, <2>7, <3>2, <3>3 DEF Spots
    <2>9. Occurrences("start", ready)' + Runs("start")' = Occurrences("start", ready) + Runs("start")
      BY <1>0, <2>6
    <2>10. \A t \in Workers \cup {"later"} : Spots(t) \in Nat
      BY <1>1 DEF Spots
    <2> QED
      BY <1>1, <2>2, <2>7, <2>8, <2>9, <2>10 DEF RecocoInv, OneSpot
  <1>3. ASSUME NEW r \in {"later"} \cup Workers, running = r, incoming' = Append(incoming, r),
               running' = NoTask, UNCHANGED <<ready, waiting, made>>
        PROVE  OneSpot'
    <2>1. \A t : Occurrences(t, Append(incoming, r)) = Occurrences(t, incoming) + IF r = t THEN 1 ELSE 0
      BY <1>0, OccurrencesAppend
    <2>2. \A t \in Tasks : Occurrences(t, incoming') + Runs(t)' = Occurrences(t, incoming) + Runs(t)
      BY <1>0, <1>1, <1>3, <2>1 DEF Runs
    <2>3. \A t : Occurrences(t, incoming') \in Nat /\ Runs(t)' \in 0 .. 1 /\ Waits(t)' = Waits(t)
      BY <1>1, <1>3, <2>1 DEF Runs, Waits
    <2>4. Runs("start")' = Runs("start")
      BY <1>0, <1>3 DEF Runs, NoTask
    <2>5. ASSUME NEW t \in Workers \cup {"later"} PROVE Spots(t)' = Spots(t)
      <3>1. t \in Tasks
        BY <1>0
      <3>2. Occurrences(t, incoming') + Runs(t)' = Occurrences(t, incoming) + Runs(t)
        BY <2>2, <3>1
      <3> QED
        BY <1>1, <1>3, <2>3, <3>2 DEF Spots
    <2> QED
      BY <1>3, <2>4, <2>5, SpotsKept DEF RecocoInv
  <1>4. CASE ExecuteSchedule
    <2>1. Runs("start") = 1
      BY <1>4 DEF ExecuteSchedule, Runs
    <2>2. /\ Occurrences("later", ready) = 0 /\ Occurrences("later", incoming) = 0
          /\ Runs("later") = 0 /\ Waits("later") = 0 /\ Occurrences("start", ready) = 0 /\ made
      BY <1>1, <2>1 DEF RecocoInv, OneSpot, Spots
    <2>3. "later" \notin Range(ready)
      BY <1>0, <2>2, OccurrencesNone
    <2>4. /\ ready' = <<"later">> \o ready /\ running' = NoTask /\ running = "start"
          /\ UNCHANGED <<incoming, waiting, made>>
      BY <1>4, <2>3 DEF ExecuteSchedule
    <2>5. \A t : Occurrences(t, ready') = Occurrences(t, ready) + IF "later" = t THEN 1 ELSE 0
      BY <1>0, <2>4, OccurrencesFront
    <2>6. \A t \in Workers : Spots(t)' = Spots(t)
      BY <1>0, <1>1, <2>4, <2>5 DEF Spots, Runs, Waits
    <2>7. Spots("later")' = 1 /\ Occurrences("start", ready') = 0 /\ Runs("start")' = 0
      BY <1>0, <2>2, <2>4, <2>5 DEF Spots, Runs, Waits, NoTask
    <2> QED
      BY <2>2, <2>4, <2>6, <2>7 DEF RecocoInv, OneSpot
  <1>5. CASE DrainOne
    <2>1. PICK r \in Tasks : r = Head(incoming)
      BY <1>0, <1>5 DEF DrainOne
    <2>2. /\ incoming # <<>> /\ waiting' = waiting \cup {r} /\ incoming' = Tail(incoming)
          /\ UNCHANGED <<ready, running, made>>
      BY <1>5, <2>1 DEF DrainOne
    <2>3. \A t : Occurrences(t, incoming) = Occurrences(t, Tail(incoming)) + IF r = t THEN 1 ELSE 0
      BY <1>0, <2>1, <2>2, OccurrencesTail
    <2>4. Tail(incoming) \in Seq(Tasks)
      BY <1>0, <2>2
    <2>5. \A t : Occurrences(t, Tail(incoming)) \in Nat
      BY <2>4, PositionsFinite
    <2>6. r \in Workers \cup {"later"}
      BY <2>1, <2>2 DEF RecocoInv, ThreadsOK
    <2>7. Waits(r) = 0
      BY <1>1, <2>3, <2>5, <2>6 DEF RecocoInv, OneSpot, Spots
    <2>8. \A t : Occurrences(t, incoming') + Waits(t)' = Occurrences(t, incoming) + Waits(t)
      BY <2>2, <2>3, <2>5, <2>7 DEF Waits
    <2>9. \A t : Occurrences(t, incoming') \in Nat /\ Waits(t)' \in 0 .. 1 /\ Runs(t)' = Runs(t)
      BY <2>2, <2>5 DEF Runs, Waits
    <2>10. \A t \in Workers \cup {"later"} : Spots(t)' = Spots(t)
      BY <1>1, <2>2, <2>8, <2>9 DEF Spots
    <2> QED
      BY <2>2, <2>9, <2>10, SpotsKept DEF RecocoInv
  <1>6. ASSUME NEW r \in Tasks, ReturnTask(r) PROVE OneSpot'
    <2>1. /\ r \in waiting /\ waiting' = waiting \ {r} /\ ready' = Append(ready, r)
          /\ r \in Workers \cup {"later"} /\ UNCHANGED <<incoming, running, made>>
      BY <1>6 DEF ReturnTask, RecocoInv, TypeOK
    <2>2. \A t : Occurrences(t, Append(ready, r)) = Occurrences(t, ready) + IF r = t THEN 1 ELSE 0
      BY <1>0, OccurrencesAppend
    <2>3. \A t : Occurrences(t, ready') + Waits(t)' = Occurrences(t, ready) + Waits(t)
      BY <1>1, <2>1, <2>2 DEF Waits
    <2>4. \A t : Occurrences(t, ready') \in Nat /\ Waits(t)' \in 0 .. 1 /\ Runs(t)' = Runs(t)
      BY <1>1, <2>1, <2>2 DEF Runs, Waits
    <2>5. Occurrences("start", ready') = Occurrences("start", ready)
      BY <1>0, <1>1, <2>1, <2>2
    <2>6. \A t \in Workers \cup {"later"} : Spots(t)' = Spots(t)
      BY <1>1, <2>1, <2>3, <2>4 DEF Spots
    <2> QED
      BY <2>1, <2>4, <2>5, <2>6, SpotsKept DEF RecocoInv
  <1>7. ASSUME NEW x \in Callers, callLater(x), ~ made PROVE OneSpot'
    <2>1. ready' = Append(ready, "start") /\ made' /\ UNCHANGED <<incoming, running, waiting>>
      BY <1>7 DEF callLater
    <2>2. \A t : Occurrences(t, ready') = Occurrences(t, ready) + IF "start" = t THEN 1 ELSE 0
      BY <1>0, <2>1, OccurrencesAppend
    <2>3. \A t : Waits(t)' = Waits(t) /\ Runs(t)' = Runs(t)
      BY <2>1 DEF Runs, Waits
    <2>4. ASSUME NEW t \in Workers \cup {"later"} PROVE Spots(t)' = Spots(t) /\ Spots(t) \in Nat
      <3>1. t # "start"
        BY <1>0
      <3>2. Occurrences(t, ready') = Occurrences(t, ready)
        BY <1>1, <2>2, <3>1
      <3> QED
        BY <1>1, <2>1, <2>3, <3>2 DEF Spots
    <2>5. Occurrences("start", ready)' = Occurrences("start", ready) + 1
      BY <2>2
    <2> QED
      BY <1>1, <1>7, <2>1, <2>3, <2>4, <2>5 DEF RecocoInv, OneSpot
  <1>8. CASE UNCHANGED <<ready, incoming, running, waiting, made>>
    BY <1>8, SpotsFrame DEF RecocoInv
  <1>9. CASE SchedulerStep
    <2>1. CASE Check \/ Wait \/ Clear \/ (Pop /\ ready = <<>>) \/ Ping \/ Set \/ End \/ CallOne
      BY <1>8, <2>1 DEF Check, Wait, Clear, Pop, Ping, Set, End, CallOne
    <2>2. CASE ExecuteSelect
      BY <1>3, <2>2 DEF ExecuteSelect, register
    <2>3. CASE ExecuteLater /\ first
      BY <1>3, <2>3 DEF ExecuteLater, register
    <2>4. CASE ExecuteLater /\ ~ first
      BY <1>8, <2>4 DEF ExecuteLater
    <2>5. CASE CallsDone
      BY <1>3, <2>5 DEF CallsDone, register, RecocoInv, ThreadsOK
    <2> QED
      BY <1>2, <1>4, <1>9, <2>1, <2>2, <2>3, <2>4, <2>5 DEF SchedulerStep
  <1>10. CASE HubStep
    <2>1. CASE Build \/ SelectReady \/ SelectTimeout \/ PongAll \/ Drained \/ BreakIdle
      BY <1>8, <2>1 DEF Build, SelectReady, SelectTimeout, PongAll, Drained, BreakIdle
    <2> QED
      BY <1>5, <1>6, <1>10, <2>1 DEF HubStep
  <1>11. ASSUME NEW x \in Callers, callLater(x) \/ CallerStep(x) PROVE OneSpot'
    <2>1. CASE callLater(x) /\ made
      BY <1>8, <2>1 DEF callLater
    <2>2. CASE CallerStep(x)
      BY <1>8, <2>2 DEF CallerStep, StartSets, AppendCall, PingLater
    <2> QED
      BY <1>7, <1>11, <2>1, <2>2
  <1>12. ASSUME NEW t \in Workers, Arrive(t) \/ Elapse(t) PROVE OneSpot'
    BY <1>8, <1>12 DEF Arrive, Elapse
  <1>13. CASE WaitTimesOut \/ UNCHANGED vars
    BY <1>8, <1>13 DEF WaitTimesOut, vars
  <1> QED
    BY <1>9, <1>10, <1>11, <1>12, <1>13 DEF Next

-----------------------------------------------------------------------------
(* The results                                                             *)

(* Where the scheduler, the hub and the callers are, and what each of them *)
(* holds: RecocoInv holds in every state.                                  *)
THEOREM RecocoInvariant == Spec => []RecocoInv
  <1>1. Init => RecocoInv
    BY InitInv
  <1>2. RecocoInv /\ [Next]_vars => RecocoInv'
    BY TypesNext, ThreadsNext, CallsNext, SpotsNext DEF RecocoInv
  <1> QED
    BY <1>1, <1>2, PTL DEF Spec

(* The deques, the hub's tables and the threads of recoco.py keep their    *)
(* types; in particular the hub only hands back tasks that wait with it    *)
(* (del tasks[t] in _select never fails).                                  *)
THEOREM RecocoTypes == Spec => []TypeOK
  <1>1. RecocoInv => TypeOK
    BY DEF RecocoInv
  <1> QED
    BY <1>1, RecocoInvariant, PTL

(* No task is scheduled twice or lost between the scheduler, the hub and   *)
(* the threads that call callLater, for any number of tasks and threads.   *)
THEOREM RecocoOnePlace == Spec => []OnePlace
  <1>1. ASSUME RecocoInv PROVE OnePlace
    <2>0. \A t : /\ Occurrences(t, ready) \in Nat /\ Occurrences(t, incoming) \in Nat
                 /\ Runs(t) \in 0 .. 1 /\ Waits(t) \in 0 .. 1
      BY <1>1, SpotTypes DEF RecocoInv
    <2>1. ASSUME NEW t PROVE Cardinality({s \in {"running"} : running = t}) = Runs(t)
      <3>1. CASE running = t
        <4>1. {s \in {"running"} : running = t} = {"running"}
          BY <3>1
        <4> QED
          BY <3>1, <4>1, FS_Singleton DEF Runs
      <3>2. CASE running # t
        <4>1. {s \in {"running"} : running = t} = {}
          BY <3>2
        <4> QED
          BY <3>2, <4>1, FS_EmptySet DEF Runs
      <3> QED
        BY <3>1, <3>2
    <2>2. ASSUME NEW t PROVE Cardinality({t} \cap waiting) = Waits(t)
      <3>1. CASE t \in waiting
        <4>1. {t} \cap waiting = {t}
          BY <3>1
        <4> QED
          BY <3>1, <4>1, FS_Singleton DEF Waits
      <3>2. CASE t \notin waiting
        <4>1. {t} \cap waiting = {}
          BY <3>2
        <4> QED
          BY <3>2, <4>1, FS_EmptySet DEF Waits
      <3> QED
        BY <3>1, <3>2
    <2>3. ASSUME NEW t, t # "later"
          PROVE  /\ Cardinality({s \in {"started"} : t = "later" /\ Occurrences("start", ready) > 0}) = 0
                 /\ Cardinality({s \in {"starting"} : t = "later" /\ running = "start"}) = 0
      <3>1. /\ {s \in {"started"} : t = "later" /\ Occurrences("start", ready) > 0} = {}
            /\ {s \in {"starting"} : t = "later" /\ running = "start"} = {}
        BY <2>3
      <3> QED
        BY <3>1, FS_EmptySet
    <2>4. Occurrences("start", ready) \in 0 .. 1
      <3>1. Spots("later") \in Nat
        BY <2>0 DEF Spots
      <3>2. Spots("later") + Occurrences("start", ready) + Runs("start") \in {0, 1}
        BY <1>1 DEF RecocoInv, OneSpot
      <3> QED
        BY <2>0, <3>1, <3>2
    <2>5. Cardinality({s \in {"started"} : "later" = "later" /\ Occurrences("start", ready) > 0})
            = Occurrences("start", ready)
      <3>1. CASE Occurrences("start", ready) = 1
        <4>1. {s \in {"started"} : "later" = "later" /\ Occurrences("start", ready) > 0} = {"started"}
          BY <3>1
        <4> QED
          BY <3>1, <4>1, FS_Singleton
      <3>2. CASE Occurrences("start", ready) = 0
        <4>1. {s \in {"started"} : "later" = "later" /\ Occurrences("start", ready) > 0} = {}
          BY <3>2
        <4> QED
          BY <3>2, <4>1, FS_EmptySet
      <3> QED
        BY <2>4, <3>1, <3>2
    <2>6. Cardinality({s \in {"starting"} : "later" = "later" /\ running = "start"}) = Runs("start")
      <3>1. CASE running = "start"
        <4>1. {s \in {"starting"} : "later" = "later" /\ running = "start"} = {"starting"}
          BY <3>1
        <4> QED
          BY <3>1, <4>1, FS_Singleton DEF Runs
      <3>2. CASE running # "start"
        <4>1. {s \in {"starting"} : "later" = "later" /\ running = "start"} = {}
          BY <3>2
        <4> QED
          BY <3>2, <4>1, FS_EmptySet DEF Runs
      <3> QED
        BY <3>1, <3>2
    <2>7. ASSUME NEW t \in Workers PROVE Places(t) = 1
      <3>1. t # "later"
        BY RecocoAssumption
      <3>2. Spots(t) = 1
        BY <1>1 DEF RecocoInv, OneSpot
      <3> QED
        <4>1. /\ Cardinality({s \in {"running"} : running = t}) = Runs(t)
              /\ Cardinality({t} \cap waiting) = Waits(t)
              /\ Cardinality({s \in {"started"} : t = "later" /\ Occurrences("start", ready) > 0}) = 0
              /\ Cardinality({s \in {"starting"} : t = "later" /\ running = "start"}) = 0
          BY <2>1, <2>2, <2>3, <3>1, Zenon
        <4>2. Places(t) = Occurrences(t, ready) + Occurrences(t, incoming) + Runs(t) + Waits(t) + 0 + 0
          BY <4>1 DEF Places
        <4> QED
          BY <2>0, <3>2, <4>2 DEF Spots
    <2>8. Places("later") = IF made THEN 1 ELSE 0
      <3>1. Spots("later") + Occurrences("start", ready) + Runs("start") = IF made THEN 1 ELSE 0
        BY <1>1 DEF RecocoInv, OneSpot
      <3> QED
        BY <2>0, <2>1, <2>2, <2>5, <2>6, <3>1 DEF Places, Spots
    <2> QED
      BY <2>7, <2>8, RecocoAssumption DEF OnePlace, Tasks
  <1>2. RecocoInv => OnePlace
    BY <1>1
  <1> QED
    BY <1>2, RecocoInvariant, PTL

(* CallLaterTask.run calls the functions in the order callLater took them, *)
(* each once, and none that was not given.                                 *)
THEOREM RecocoCallsInOrder == Spec => [](IsPrefix(executed, called))
  <1>1. RecocoInv => IsPrefix(executed, called)
    <2> SUFFICES ASSUME RecocoInv PROVE IsPrefix(executed, called)
      OBVIOUS
    <2>1. executed \in Seq(Nat) /\ calls \in Seq(Nat) /\ called = executed \o calls
      BY DEF RecocoInv, CallsOK
    <2>2. /\ Len(executed) <= Len(called)
          /\ SubSeq(executed, 1, Len(executed)) = SubSeq(called, 1, Len(executed))
      BY <2>1
    <2> QED
      BY <2>2 DEF IsPrefix
  <1> QED
    BY <1>1, RecocoInvariant, PTL

=============================================================================
