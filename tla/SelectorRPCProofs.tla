-------------------------- MODULE SelectorRPCProofs --------------------------
(***************************************************************************)
(* Proofs about the selector's RPC client and the fallback selectors, for  *)
(* any number of connections and paths.                                    *)
(***************************************************************************)
EXTENDS SelectorRPC, TLAPS

LEMMA ZeroInRange == 0 \in 0..MaxSels
BY BoundAssumption

LEMMA IdleType == Idle \in Calls /\ Empty \in Selectors
BY BoundAssumption DEF Idle, Empty, Calls, Selectors, Ops, Stages

\* Replacing one call by a well-typed one.
LEMMA NowType ==
    ASSUME TypeOK, NEW c \in Conns, NEW t \in Threads, NEW m \in Calls,
           Now(c, t, m)
    PROVE  /\ call' \in [Conns -> [Threads -> Calls]]
           /\ \A d \in Conns, u \in Threads :
                 call'[d][u] = IF d = c /\ u = t THEN m ELSE call[d][u]
BY DEF TypeOK, Now

LEMMA CallType ==
    ASSUME TypeOK, NEW c \in Conns, NEW t \in Threads
    PROVE  call[c][t] \in Calls
BY DEF TypeOK

LEMMA BeginType ==
    ASSUME TypeOK, NEW c \in Conns, NEW t, NEW op \in Ops, NEW at \in Stages,
           NEW S \in SUBSET Fps, Begin(c, t, op, at, S)
    PROVE  /\ t \in Threads
           /\ call' \in [Conns -> [Threads -> Calls]]
           /\ \A d \in Conns, u \in Threads :
                 call'[d][u] = IF d = c /\ u = t
                               THEN [Idle EXCEPT !.op = op, !.at = at, !.arg = S]
                               ELSE call[d][u]
<1>1. [Idle EXCEPT !.op = op, !.at = at, !.arg = S] \in Calls
  BY IdleType DEF Calls, Idle
<1> QED
  BY <1>1, NowType DEF Begin

LEMMA ExitType ==
    ASSUME TypeOK, NEW c \in Conns, Exit(c)
    PROVE  TypeOK'
<1>1. call' \in [Conns -> [Threads -> Calls]]
  BY IdleType DEF Exit, TypeOK
<1>2. life' \in [Conns -> Lives]
  BY DEF Exit, TypeOK, Lives
<1>3. /\ live' \in [Conns -> SUBSET Fps]
      /\ reported' \in [Conns -> SUBSET Fps]
      /\ got' \in [Conns -> Fps \cup {Nil}]
  BY DEF Exit, TypeOK
<1> QED
  BY <1>1, <1>2, <1>3 DEF Exit, TypeOK, serverVars

LEMMA DownType ==
    ASSUME TypeOK, Down
    PROVE  TypeOK'
<1>1. \A c \in Conns, t \in Threads :
          [Idle EXCEPT !.op = call[c][t].op, !.at = "sent"] \in Calls
  BY IdleType, CallType DEF Calls, Stages, Idle
<1>2. call' \in [Conns -> [Threads -> Calls]]
  BY <1>1, IdleType, CallType DEF Down
<1>3. daemon' \in BOOLEAN
  BY Zenon DEF Down
<1>4. /\ selectors' \in [Conns -> 0..MaxSels]
      /\ made' \in [Conns -> 0..MaxSels]
      /\ sel' \in [Conns -> [1..MaxSels -> Selectors]]
  BY IdleType, ZeroInRange DEF Down
<1> QED
  BY <1>2, <1>3, <1>4 DEF Down, TypeOK, clientVars

LEMMA InitType == Init => TypeOK
<1> SUFFICES ASSUME Init PROVE TypeOK
  OBVIOUS
<1>1. daemon \in BOOLEAN
  BY Zenon DEF Init
<1>2. call \in [Conns -> [Threads -> Calls]]
  BY IdleType DEF Init
<1>3. /\ selectors \in [Conns -> 0..MaxSels]
      /\ made \in [Conns -> 0..MaxSels]
      /\ sel \in [Conns -> [1..MaxSels -> Selectors]]
  BY IdleType, ZeroInRange DEF Init
<1> QED
  BY <1>1, <1>2, <1>3 DEF Init, TypeOK, Lives

-----------------------------------------------------------------------------
(***************************************************************************)
(* What the operations that begin a call have in common.                   *)
(***************************************************************************)
BeginsStep(c, t) ==
    /\ UNCHANGED <<live, reported, serverVars>>
    /\ got' \in [Conns -> Fps \cup {Nil}]
    /\ life[c] # "killed"
    /\ life' \in [Conns -> Lives]
    /\ \A d \in Conns : life'[d] = "killed" <=> life[d] = "killed"
    /\ \E m \in Calls : /\ Now(c, t, m)
                        /\ m.at \in {"local", "sent"}
                        /\ m.at = "sent" => m.op \notin {"Initialize", "Refresh"}
                        /\ m.ans = Nil

LEMMA BeginsCase ==
    ASSUME TypeOK, NEW c \in Conns, NEW t, NEW op \in Ops,
           NEW at \in {"local", "sent"}, NEW S \in SUBSET Fps,
           at = "sent" => op \notin {"Initialize", "Refresh"},
           Begin(c, t, op, at, S), life[c] # "killed",
           life' \in [Conns -> Lives],
           \A d \in Conns : life'[d] = "killed" <=> life[d] = "killed"
    PROVE  t \in Threads /\ BeginsStep(c, t)
<1> DEFINE m == [Idle EXCEPT !.op = op, !.at = at, !.arg = S]
<1>1. m \in Calls /\ m.at = at /\ m.op = op /\ m.ans = Nil
  BY IdleType DEF Calls, Idle, Stages
<1>2. got' \in [Conns -> Fps \cup {Nil}]
  BY DEF Begin, TypeOK
<1> QED
  BY <1>1, <1>2 DEF Begin, BeginsStep

\* The six operations that begin a call.
BeginAction(c) ==
    \/ \E S \in PathSets : Initialize(c, S) \/ Refresh(c, S)
    \/ SetPreferences(c)
    \/ Path(c)
    \/ \E fp \in Fps : PathDown(c, fp)
    \/ Close(c)

LEMMA BeginActionCase ==
    ASSUME TypeOK, NEW c \in Conns, BeginAction(c)
    PROVE  \E t \in Threads : BeginsStep(c, t)
<1> USE DEF Ops
<1>1. ASSUME NEW S \in PathSets, Initialize(c, S)
      PROVE  \E t \in Threads : BeginsStep(c, t)
  <2>1. /\ life' \in [Conns -> Lives]
        /\ \A d \in Conns : life'[d] = "killed" <=> life[d] = "killed"
    BY <1>1 DEF Initialize, TypeOK, Lives
  <2> QED
    BY <1>1, <2>1, BeginsCase DEF Initialize, PathSets
<1>2. ASSUME NEW S \in PathSets, Refresh(c, S)
      PROVE  \E t \in Threads : BeginsStep(c, t)
  <2>1. S \in SUBSET Fps /\ life[c] # "killed" /\ life' \in [Conns -> Lives]
    BY <1>2 DEF Refresh, InUse, PathSets, TypeOK
  <2>2. /\ Begin(c, "pool", "Refresh", "local", S)
        /\ \A d \in Conns : life'[d] = "killed" <=> life[d] = "killed"
    BY <1>2 DEF Refresh
  <2> QED
    BY <2>1, <2>2, BeginsCase
<1>3. CASE SetPreferences(c)
  <2>1. {} \in SUBSET Fps /\ life[c] # "killed" /\ life' \in [Conns -> Lives]
    BY <1>3 DEF SetPreferences, TypeOK
  <2>2. /\ Begin(c, "app", "SetPreferences", "sent", {})
        /\ \A d \in Conns : life'[d] = "killed" <=> life[d] = "killed"
    BY <1>3 DEF SetPreferences
  <2> QED
    BY <2>1, <2>2, BeginsCase
<1>4. CASE Path(c)
  <2>1. {} \in SUBSET Fps /\ life[c] # "killed" /\ life' \in [Conns -> Lives]
    BY <1>4 DEF Path, InUse, TypeOK
  <2>2. /\ Begin(c, "writer", "Path", "sent", {})
        /\ \A d \in Conns : life'[d] = "killed" <=> life[d] = "killed"
    BY <1>4 DEF Path
  <2> QED
    BY <2>1, <2>2, BeginsCase
<1>5. ASSUME NEW fp \in Fps, PathDown(c, fp)
      PROVE  \E t \in Threads : BeginsStep(c, t)
  <2>1. {fp} \in SUBSET Fps /\ life[c] # "killed" /\ life' \in [Conns -> Lives]
    BY <1>5 DEF PathDown, InUse, TypeOK
  <2>2. /\ Begin(c, "scmp", "PathDown", "local", {fp})
        /\ \A d \in Conns : life'[d] = "killed" <=> life[d] = "killed"
    BY <1>5 DEF PathDown
  <2> QED
    BY <2>1, <2>2, BeginsCase
<1>6. CASE Close(c)
  <2>1. /\ life' \in [Conns -> Lives]
        /\ \A d \in Conns : life'[d] = "killed" <=> life[d] = "killed"
    BY <1>6 DEF Close, TypeOK, Lives
  <2>2. /\ Begin(c, "app", "Close", "sent", {})
        /\ {} \in SUBSET Fps /\ life[c] # "killed"
    BY <1>6 DEF Close
  <2> QED
    BY <2>1, <2>2, BeginsCase
<1> QED
  BY <1>1, <1>2, <1>3, <1>4, <1>5, <1>6 DEF BeginAction

-----------------------------------------------------------------------------
(***************************************************************************)
(* Type correctness.                                                       *)
(***************************************************************************)
LEMMA StepsType ==
    ASSUME TypeOK, NEW c \in Conns, NEW t \in Threads, Steps(c, t)
    PROVE  TypeOK'
<1> DEFINE m == call[c][t]
<1>0. m \in Calls /\ Idle \in Calls
  BY CallType, IdleType
<1>1. CASE Store(c, t)
  <2>1. [m EXCEPT !.at = "sent"] \in Calls
    BY <1>0 DEF Calls, Stages
  <2>2. call' \in [Conns -> [Threads -> Calls]]
    BY <1>1, <2>1, NowType DEF Store
  <2>3. m.arg \in SUBSET Fps
    BY <1>0 DEF Calls
  <2>4. live' \in [Conns -> SUBSET Fps] /\ reported' \in [Conns -> SUBSET Fps]
    BY <1>1, <2>3 DEF Store, Notes, TypeOK
  <2> QED
    BY <1>1, <2>2, <2>4 DEF Store, TypeOK, serverVars
<1>2. CASE Return(c, t) \/ FailReported(c, t)
  <2>1. call' \in [Conns -> [Threads -> Calls]]
    BY <1>0, <1>2, NowType DEF Return, FailReported
  <2>2. life' \in [Conns -> Lives]
    BY <1>2 DEF Return, FailReported, TypeOK, Lives
  <2>3. got' \in [Conns -> Fps \cup {Nil}]
    <3>1. PathOf(c, m.ans) \in Fps \cup {Nil}
      BY DEF PathOf, TypeOK
    <3> QED
      BY <1>2, <3>1 DEF Return, FailReported, TypeOK
  <2> QED
    BY <1>2, <2>1, <2>2, <2>3 DEF Return, FailReported, TypeOK, serverVars
<1>3. CASE FailFatal(c, t)
  BY <1>3, ExitType DEF FailFatal
<1>4. CASE Lookup(c, t)
  <2> DEFINE n == [m EXCEPT !.at = IF selectors[c] = 0 THEN "missing" ELSE "found",
                            !.obj = selectors[c]]
  <2>1. n \in Calls
    BY <1>0 DEF Calls, Stages, TypeOK
  <2>2. call' \in [Conns -> [Threads -> Calls]]
    BY <1>4, <2>1, NowType DEF Lookup
  <2> QED
    BY <1>4, <2>2 DEF Lookup, TypeOK, clientVars, serverVars
<1>5. CASE Make(c, t)
  <2>1. made[c] + 1 \in 0..MaxSels
    BY <1>5, BoundAssumption DEF Make, TypeOK
  <2>2. [m EXCEPT !.at = "storing", !.obj = made[c] + 1] \in Calls
    BY <1>0, <2>1 DEF Calls, Stages
  <2>3. call' \in [Conns -> [Threads -> Calls]]
    BY <1>5, <2>2, NowType DEF Make
  <2> QED
    BY <1>5, <2>1, <2>3 DEF Make, TypeOK, clientVars
<1>6. CASE Enter(c, t)
  <2>1. [m EXCEPT !.at = "found"] \in Calls /\ m.obj \in 0..MaxSels
    BY <1>0 DEF Calls, Stages
  <2>2. call' \in [Conns -> [Threads -> Calls]]
    BY <1>6, <2>1, NowType DEF Enter
  <2> QED
    BY <1>6, <2>1, <2>2 DEF Enter, TypeOK, clientVars
<1>7. ASSUME NEW n \in Selectors, Apply(c, t, n)
      PROVE  TypeOK'
  <2> DEFINE k == [m EXCEPT
               !.at = IF m.op = "Close" THEN "deleting" ELSE "replied",
               !.ans = IF m.op = "Path" THEN n.cur ELSE Nil]
  <2>1. k \in Calls
    BY <1>0 DEF Calls, Stages, Selectors
  <2>2. call' \in [Conns -> [Threads -> Calls]]
    BY <1>7, <2>1, NowType DEF Apply
  <2>3. sel' \in [Conns -> [1..MaxSels -> Selectors]]
    BY <1>7 DEF Apply, TypeOK
  <2> QED
    BY <1>7, <2>2, <2>3 DEF Apply, TypeOK, clientVars
<1>8. CASE Delete(c, t)
  <2>1. [m EXCEPT !.at = "replied"] \in Calls
    BY <1>0 DEF Calls, Stages
  <2>2. call' \in [Conns -> [Threads -> Calls]]
    BY <1>8, <2>1, NowType DEF Delete
  <2> QED
    BY <1>8, <2>2, ZeroInRange DEF Delete, TypeOK, clientVars
<1> QED
  BY <1>1, <1>2, <1>3, <1>4, <1>5, <1>6, <1>7, <1>8 DEF Steps

LEMMA NextType == TypeOK /\ [Next]_vars => TypeOK'
<1> SUFFICES ASSUME TypeOK, [Next]_vars PROVE TypeOK'
  OBVIOUS
<1>1. CASE UNCHANGED vars
  BY <1>1 DEF vars, TypeOK
<1>2. ASSUME NEW c \in Conns, BeginAction(c)
      PROVE  TypeOK'
  <2>1. PICK t \in Threads : BeginsStep(c, t)
    BY <1>2, BeginActionCase
  <2>2. call' \in [Conns -> [Threads -> Calls]]
    BY <2>1, NowType DEF BeginsStep
  <2> QED
    BY <2>1, <2>2 DEF BeginsStep, TypeOK, serverVars
<1>3. ASSUME NEW c \in Conns, ClientRace(c)
      PROVE  TypeOK'
  BY <1>3, ExitType DEF ClientRace
<1>4. ASSUME NEW c \in Conns, NEW t \in Threads, Steps(c, t)
      PROVE  TypeOK'
  BY <1>4, StepsType
<1>5. CASE ServerRace \/ Stop
  BY <1>5, DownType DEF ServerRace, Stop
<1> QED
  BY <1>1, <1>2, <1>3, <1>4, <1>5 DEF Next, BeginAction

\* Every reachable state of clients, calls and daemon is well typed.
THEOREM TypeCorrect == Spec => []TypeOK
BY InitType, NextType, PTL DEF Spec

-----------------------------------------------------------------------------
(***************************************************************************)
(* The client's map has a path for every fingerprint the daemon can answer *)
(* with, unless the program has reported it down.  The invariant follows a *)
(* fingerprint from the map, which is written before the request goes out, *)
(* through requests and selectors back into the answers.                   *)
(***************************************************************************)
Known(c) == live[c] \cup reported[c]

SelectorTracked(c) ==
    \A i \in 1..MaxSels :
        /\ sel[c][i].paths \subseteq Known(c)
        /\ sel[c][i].cur \in sel[c][i].paths \cup {Nil}

CallTracked(c, t) ==
    /\ call[c][t].ans \in Known(c) \cup {Nil}
    /\ call[c][t].at # "local" /\ call[c][t].op \in {"Initialize", "Refresh"} =>
          call[c][t].arg \subseteq Known(c)

Tracked ==
    \A c \in Conns : life[c] # "killed" =>
        SelectorTracked(c) /\ \A t \in Threads : CallTracked(c, t)

\* What is reported down has no path in the map.
Apart == \A c \in Conns : live[c] \cap reported[c] = {}

\* A handler that has a selector has a real one.
HasObject ==
    \A c \in Conns, t \in Threads :
        call[c][t].at \in {"storing", "found"} => call[c][t].obj # 0

TrackInv == TypeOK /\ Tracked /\ Apart /\ HasObject

LEMMA InitTrackInv == Init => TrackInv
<1> SUFFICES ASSUME Init PROVE TrackInv
  OBVIOUS
<1>1. TypeOK
  BY InitType
<1>2. Tracked
  BY DEF Init, Tracked, SelectorTracked, CallTracked, Idle, Empty
<1>3. HasObject
  BY DEF Init, HasObject, Idle
<1>4. Apart
  BY DEF Init, Apart
<1> QED
  BY <1>1, <1>2, <1>3, <1>4 DEF TrackInv

\* A step of one goroutine leaves the calls of the others alone.
LEMMA StepsOthers ==
    ASSUME TypeOK, NEW c \in Conns, NEW t \in Threads,
           Steps(c, t), ~FailFatal(c, t)
    PROVE  \A d \in Conns, u \in Threads :
               d # c \/ u # t => call'[d][u] = call[d][u]
<1>1. \E m : Now(c, t, m)
  BY DEF Steps, Store, Return, FailReported, Lookup, Make, Enter, Apply, Delete
<1> QED
  BY <1>1 DEF Now, TypeOK

LEMMA HasObjectStep == TrackInv /\ [Next]_vars => HasObject'
<1> SUFFICES ASSUME TrackInv, [Next]_vars, NEW d \in Conns, NEW u \in Threads,
                    call'[d][u].at \in {"storing", "found"}
             PROVE  call'[d][u].obj # 0
  BY DEF HasObject
<1> USE DEF TrackInv
<1>0. call[d][u] \in Calls /\ Idle.at = "idle"
  BY CallType DEF Idle
<1>1. CASE call'[d][u] = call[d][u]
  BY <1>1 DEF HasObject
<1>2. ASSUME NEW c \in Conns, BeginAction(c)
      PROVE  call'[d][u].obj # 0
  <2>1. PICK t \in Threads : BeginsStep(c, t)
    BY <1>2, BeginActionCase
  <2>2. PICK m \in Calls : Now(c, t, m) /\ m.at \in {"local", "sent"}
    BY <2>1 DEF BeginsStep
  <2>3. call'[d][u] = m \/ call'[d][u] = call[d][u]
    BY <2>2, NowType
  <2>4. call'[d][u] # m
    BY <2>2
  <2> QED
    BY <1>1, <2>3, <2>4
<1>3. ASSUME NEW c \in Conns, Exit(c)
      PROVE  call'[d][u].obj # 0
  BY <1>0, <1>1, <1>3 DEF Exit, TypeOK
<1>4. ASSUME NEW c \in Conns, NEW t \in Threads, Steps(c, t), ~FailFatal(c, t)
      PROVE  call'[d][u].obj # 0
  <2> DEFINE m == call[c][t]
  <2>0. m \in Calls /\ Idle \in Calls
    BY CallType, IdleType
  <2>1. CASE d # c \/ u # t
    BY <1>1, <1>4, <2>1, StepsOthers
  <2>2. CASE d = c /\ u = t
    <3>1. CASE Store(c, t) \/ Return(c, t) \/ FailReported(c, t) \/ Delete(c, t)
      <4>1. call'[c][t].at \in {"sent", "idle", "replied"}
        BY <3>1, <2>0, <1>0 DEF Store, Return, FailReported, Delete, Now, TypeOK,
           Calls
      <4> QED
        BY <4>1, <2>2
    <3>2. CASE Lookup(c, t)
      <4>1. call'[c][t].obj = selectors[c]
            /\ (selectors[c] = 0 => call'[c][t].at = "missing")
        BY <3>2, <2>0 DEF Lookup, Now, TypeOK, Calls
      <4> QED
        BY <4>1, <2>2
    <3>3. CASE Make(c, t)
      <4>1. call'[c][t].obj = made[c] + 1
        BY <3>3, <2>0 DEF Make, Now, TypeOK, Calls
      <4>2. made[c] \in Nat
        BY DEF TypeOK
      <4> QED
        BY <4>1, <4>2, <2>2
    <3>4. CASE Enter(c, t)
      <4>1. call'[c][t].obj = m.obj /\ m.at = "storing"
        BY <3>4, <2>0 DEF Enter, Now, TypeOK, Calls
      <4> QED
        BY <4>1, <2>2 DEF HasObject
    <3>5. ASSUME NEW n \in Selectors, Apply(c, t, n)
          PROVE  call'[d][u].obj # 0
      <4>1. call'[c][t].at \in {"deleting", "replied"}
        BY <3>5, <2>0 DEF Apply, Now, TypeOK, Calls
      <4> QED
        BY <4>1, <2>2
    <3> QED
      BY <1>4, <3>1, <3>2, <3>3, <3>4, <3>5 DEF Steps
  <2> QED
    BY <2>1, <2>2
<1>5. CASE Down
  <2>1. call'[d][u] = call[d][u] \/ call'[d][u].at \in {"idle", "sent"}
    BY <1>5 DEF Down, Idle
  <2> QED
    BY <1>1, <2>1
<1>6. CASE UNCHANGED vars
  BY <1>1, <1>6 DEF vars
<1> QED
  BY <1>2, <1>3, <1>4, <1>5, <1>6
  DEF Next, BeginAction, ClientRace, Steps, FailFatal, ServerRace, Stop

\* How Store changes what the client knows.
LEMMA StoreKnown ==
    ASSUME TypeOK, NEW c \in Conns, NEW t \in Threads, Store(c, t),
           live[c] \cap reported[c] = {}
    PROVE  /\ Known(c)' = Known(c) \cup call[c][t].arg
           /\ live'[c] \cap reported'[c] = {}
           /\ \A d \in Conns : d # c => live'[d] = live[d] /\ reported'[d] = reported[d]
BY DEF Store, Notes, TypeOK, Known

LEMMA ApartStep == TrackInv /\ [Next]_vars => Apart'
<1> SUFFICES ASSUME TrackInv, [Next]_vars PROVE Apart'
  OBVIOUS
<1> USE DEF TrackInv
<1>1. CASE UNCHANGED <<live, reported>>
  BY <1>1 DEF Apart
<1>2. ASSUME NEW c \in Conns, NEW t \in Threads, Store(c, t) PROVE Apart'
  BY <1>2, StoreKnown DEF Apart
<1>3. ASSUME NEW c \in Conns, Exit(c) PROVE Apart'
  BY <1>3 DEF Exit, Apart, TypeOK
<1>4. ASSUME NEW c \in Conns, BeginAction(c) PROVE UNCHANGED <<live, reported>>
  BY <1>4, BeginActionCase DEF BeginsStep
<1>5. ASSUME NEW c \in Conns, NEW t \in Threads, Steps(c, t),
             ~FailFatal(c, t), ~Store(c, t)
      PROVE  UNCHANGED <<live, reported>>
  BY <1>5 DEF Steps, Return, FailReported, Lookup, Make, Enter, Apply, Delete,
     clientVars
<1>6. CASE ServerRace \/ Stop \/ UNCHANGED vars
  BY <1>1, <1>6 DEF ServerRace, Stop, Down, clientVars, vars
<1> QED
  BY <1>1, <1>2, <1>3, <1>4, <1>5, <1>6
  DEF Next, BeginAction, ClientRace, FailFatal

LEMMA TrackedStep == TrackInv /\ [Next]_vars => Tracked'
<1> SUFFICES ASSUME TrackInv, [Next]_vars, NEW d \in Conns, life'[d] # "killed"
             PROVE  SelectorTracked(d)' /\ \A u \in Threads : CallTracked(d, u)'
  BY DEF Tracked
<1> DEFINE Goal == SelectorTracked(d)' /\ \A u \in Threads : CallTracked(d, u)'
<1> USE DEF TrackInv
<1>0. \A u \in Threads : call[d][u] \in Calls
  BY CallType
\* It is enough that what is known does not shrink, that the selectors keep to them
\* and that each call is a tracked one or what it was.
<1>1. ASSUME life[d] # "killed",
             Known(d) \subseteq Known(d)',
             sel'[d] = sel[d],
             NEW t, NEW m,
             \A u \in Threads : call'[d][u] = IF u = t THEN m ELSE call[d][u],
             t \in Threads => /\ m.ans \in Known(d)' \cup {Nil}
                              /\ m.at # "local" /\ m.op \in {"Initialize", "Refresh"}
                                    => m.arg \subseteq Known(d)'
      PROVE  Goal
  <2>1. SelectorTracked(d) /\ \A u \in Threads : CallTracked(d, u)
    BY <1>1 DEF Tracked
  <2>2. SelectorTracked(d)'
    BY <1>1, <2>1 DEF SelectorTracked
  <2>3. ASSUME NEW u \in Threads PROVE CallTracked(d, u)'
    BY <1>1, <2>1 DEF CallTracked
  <2> QED
    BY <2>2, <2>3
<1>2. CASE /\ life[d] # "killed"
           /\ UNCHANGED <<live[d], reported[d], sel[d], call[d]>>
  BY <1>2 DEF Tracked, SelectorTracked, CallTracked, Known
<1>3. ASSUME NEW c \in Conns, BeginAction(c)
      PROVE  Goal
  <2>1. PICK t \in Threads : BeginsStep(c, t)
    BY <1>3, BeginActionCase
  <2>2. PICK m \in Calls : /\ Now(c, t, m)
                           /\ m.at = "sent" => m.op \notin {"Initialize", "Refresh"}
                           /\ m.at \in {"local", "sent"}
                           /\ m.ans = Nil
    BY <2>1 DEF BeginsStep
  <2>3. /\ life[d] # "killed" /\ live' = live /\ reported' = reported /\ sel' = sel
        /\ Known(d)' = Known(d)
    BY <2>1 DEF BeginsStep, serverVars, Known
  <2>4. CASE d # c
    BY <1>2, <2>2, <2>3, <2>4 DEF Now, TypeOK
  <2>5. CASE d = c
    <3>1. \A u \in Threads : call'[d][u] = IF u = t THEN m ELSE call[d][u]
      BY <2>2, <2>5, NowType
    <3> QED
      BY <1>1, <2>2, <2>3, <3>1
  <2> QED
    BY <2>4, <2>5
<1>4. ASSUME NEW c \in Conns, Exit(c)
      PROVE  Goal
  <2>1. d # c
    BY <1>4 DEF Exit, TypeOK
  <2>2. life[d] # "killed" /\ UNCHANGED <<live[d], reported[d], sel[d], call[d]>>
    BY <1>4, <2>1 DEF Exit, TypeOK, serverVars
  <2> QED
    BY <1>2, <2>2
<1>5. CASE Down
  <2>1. life[d] # "killed" /\ Known(d)' = Known(d)
    BY <1>5 DEF Down, clientVars, Known
  <2>2. SelectorTracked(d)'
    BY <1>5 DEF Down, SelectorTracked, Empty
  <2>3. ASSUME NEW u \in Threads PROVE CallTracked(d, u)'
    <3>1. CallTracked(d, u)
      BY <2>1 DEF Tracked
    <3>2. \/ call'[d][u] = call[d][u]
          \/ call'[d][u].ans = Nil /\ call'[d][u].arg = {}
      BY <1>5 DEF Down, Idle
    <3> QED
      BY <2>1, <3>1, <3>2 DEF CallTracked
  <2> QED
    BY <2>2, <2>3
<1>6. ASSUME NEW c \in Conns, NEW t \in Threads, Steps(c, t), ~FailFatal(c, t)
      PROVE  Goal
  <2> DEFINE m == call[c][t]
  <2>0. m \in Calls /\ Idle \in Calls
    BY CallType, IdleType
  <2>1. life[d] # "killed"
    BY <1>6 DEF Steps, Store, Return, FailReported, Lookup, Make, Enter, Apply,
       Delete, clientVars, TypeOK
  <2>2. CASE d # c
    <3>1. UNCHANGED <<live[d], reported[d], sel[d], call[d]>>
      BY <1>6, <2>2 DEF Steps, Store, Return, FailReported, Lookup, Make, Enter,
         Apply, Delete, Now, Notes, clientVars, serverVars, TypeOK
    <3> QED
      BY <1>2, <2>1, <3>1
  <2>3. CASE d = c
    <3>0. CallTracked(c, t)
      BY <2>1, <2>3 DEF Tracked
    <3>1. CASE Store(c, t)
      <4> DEFINE k == [m EXCEPT !.at = "sent"]
      <4>1. k \in Calls /\ k.ans = m.ans /\ k.arg = m.arg
        BY <2>0 DEF Calls, Stages
      <4>2. Now(c, t, k) /\ sel' = sel
        BY <3>1 DEF Store, serverVars
      <4>3. Known(c)' = Known(c) \cup m.arg
        BY <3>1, StoreKnown DEF Apart
      <4>4. \A u \in Threads : call'[d][u] = IF u = t THEN k ELSE call[d][u]
        BY <2>3, <4>1, <4>2, NowType
      <4>5. k.ans \in Known(d)' \cup {Nil} /\ k.arg \subseteq Known(d)'
        BY <2>3, <3>0, <4>1, <4>3 DEF CallTracked
      <4> HIDE DEF k
      <4> QED
        BY <1>1, <2>1, <2>3, <4>2, <4>3, <4>4, <4>5
    <3>2. CASE Return(c, t) \/ FailReported(c, t)
      <4>1. Now(c, t, Idle) /\ sel' = sel /\ Known(d)' = Known(d)
        BY <3>2 DEF Return, FailReported, serverVars, Known
      <4>2. \A u \in Threads : call'[d][u] = IF u = t THEN Idle ELSE call[d][u]
        BY <2>0, <2>3, <4>1, NowType
      <4>3. Idle.ans = Nil /\ Idle.arg = {}
        BY DEF Idle
      <4> QED
        BY <1>1, <2>1, <4>1, <4>2, <4>3
    <3>3. CASE Lookup(c, t) \/ Make(c, t) \/ Enter(c, t) \/ Delete(c, t)
      <4>1. sel' = sel /\ Known(d)' = Known(d) /\ m.at # "local"
        BY <3>3 DEF Lookup, Make, Enter, Delete, clientVars, serverVars, Known
      <4>2. /\ call'[d][t].ans = m.ans
            /\ call'[d][t].arg = m.arg
            /\ call'[d][t].op = m.op
        <5>1. CASE Lookup(c, t)
          BY <2>0, <2>3, <5>1 DEF Lookup, Now, TypeOK, Calls
        <5>2. CASE Make(c, t)
          BY <2>0, <2>3, <5>2 DEF Make, Now, TypeOK, Calls
        <5>3. CASE Enter(c, t)
          BY <2>0, <2>3, <5>3 DEF Enter, Now, TypeOK, Calls
        <5>4. CASE Delete(c, t)
          BY <2>0, <2>3, <5>4 DEF Delete, Now, TypeOK, Calls
        <5> QED
          BY <3>3, <5>1, <5>2, <5>3, <5>4
      <4>3. \A u \in Threads : CallTracked(d, u) /\ SelectorTracked(d)
        BY <2>1 DEF Tracked
      <4>4. ASSUME NEW u \in Threads PROVE CallTracked(d, u)'
        <5>1. CASE u = t
          BY <2>3, <4>1, <4>2, <4>3, <5>1 DEF CallTracked
        <5>2. CASE u # t
          BY <1>6, <4>1, <4>3, <5>2, StepsOthers DEF CallTracked
        <5> QED
          BY <5>1, <5>2
      <4>5. SelectorTracked(d)'
        BY <4>1, <4>3 DEF SelectorTracked
      <4> QED
        BY <4>4, <4>5
    <3>4. ASSUME NEW n \in Selectors, Apply(c, t, n)
          PROVE  Goal
      <4>1. m.obj \in 1..MaxSels /\ m.at = "found"
        BY <2>0, <3>4, BoundAssumption DEF Apply, HasObject, Calls
      <4>2. SelectorTracked(c)
        BY <2>1, <2>3 DEF Tracked
      <4>3. /\ sel[c][m.obj].paths \subseteq Known(c)
            /\ sel[c][m.obj].cur \in sel[c][m.obj].paths \cup {Nil}
        BY <4>1, <4>2 DEF SelectorTracked
      <4>4. m.op \in {"Initialize", "Refresh"} => m.arg \subseteq Known(c)
        BY <3>0, <4>1 DEF CallTracked
      <4>5. n.paths \subseteq Known(c) /\ n.cur \in n.paths \cup {Nil}
        BY <3>4, <4>3, <4>4 DEF Apply, DefaultSelector
      <4>6. /\ Known(c)' = Known(c)
            /\ \A i \in 1..MaxSels : sel'[c][i] = IF i = m.obj THEN n ELSE sel[c][i]
        BY <3>4, <4>1 DEF Apply, clientVars, TypeOK, Known
      <4>7. SelectorTracked(d)'
        BY <2>3, <4>2, <4>5, <4>6 DEF SelectorTracked
      <4>8. /\ \A u \in Threads \ {t} : call'[d][u] = call[d][u]
            /\ call'[d][t].ans \in {n.cur, Nil}
            /\ call'[d][t].arg = m.arg
            /\ call'[d][t].op = m.op
        BY <2>0, <2>3, <3>4 DEF Apply, Now, TypeOK, Calls
      <4>9. \A u \in Threads : CallTracked(d, u)
        BY <2>1 DEF Tracked
      <4>10. CallTracked(d, t)'
        BY <2>3, <4>4, <4>5, <4>6, <4>8 DEF CallTracked
      <4>11. ASSUME NEW u \in Threads \ {t} PROVE CallTracked(d, u)'
        BY <2>3, <4>6, <4>8, <4>9 DEF CallTracked
      <4> QED
        BY <4>7, <4>10, <4>11
    <3> QED
      BY <1>6, <3>1, <3>2, <3>3, <3>4 DEF Steps
  <2> QED
    BY <2>2, <2>3
<1>7. CASE UNCHANGED vars
  BY <1>2, <1>7 DEF vars
<1> QED
  BY <1>3, <1>4, <1>5, <1>6, <1>7
  DEF Next, BeginAction, ClientRace, Steps, FailFatal, ServerRace, Stop

LEMMA NextTrackInv == TrackInv /\ [Next]_vars => TrackInv'
BY NextType, HasObjectStep, TrackedStep, ApartStep DEF TrackInv

\* However Refresh, PathDown, Close and Path calls interleave in the client,
\* on the way and in the daemon, Path turns an answer into nil only if the
\* program has reported the path down and has not been offered it since.
THEOREM NilOnlyIfReportedHolds == Spec => []NilOnlyIfReported
<1>1. TrackInv => NilOnlyIfReported
  BY DEF TrackInv, Tracked, CallTracked, Known, NilOnlyIfReported, PathOf
<1> QED
  BY InitTrackInv, NextTrackInv, <1>1, PTL DEF Spec

=============================================================================
