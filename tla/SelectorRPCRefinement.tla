------------------------ MODULE SelectorRPCRefinement ------------------------
(***************************************************************************)
(* SelectorRPC implements PathService if SetPreferences is not called      *)
(* while Initiate runs, for any number of connections, goroutines and      *)
(* paths.  The invariant says, for each moment in the life of a            *)
(* connection, which calls there are and which selector they have.         *)
(***************************************************************************)
EXTENDS SelectorRPCProofs

\* The selector that the daemon's map has for c has been initialised.
Ready(c) ==
    /\ selectors[c] # 0
    /\ sel[c][selectors[c]].cur \in sel[c][selectors[c]].paths

Blank(c) == \A i \in 1..MaxSels : sel[c][i] = Empty

\* Which operations are in which stage, by which goroutine and when.
CallInv(c, t) ==
    LET m == call[c][t]
    IN  /\ m.at = "idle" => m.op = "none"
        /\ m.at = "local" => /\ m.op \in {"Initialize", "PathDown", "Refresh"}
                             /\ m.ans = Nil /\ life[c] # "killed"
        /\ m.at = "deleting" => m.op = "Close"
        /\ m.op = "Initialize" => t = "dial" /\ life[c] \in {"dialing", "killed"}
        /\ m.op = "Close" => t = "app" /\ life[c] \in {"closing", "killed"}

NewInv(c) ==
    /\ selectors[c] = 0
    /\ Blank(c)
    /\ \A t \in Threads : call[c][t].at = "idle"

\* Initialize is the only call; it makes the selector.
DialingInv(c) ==
    \A t \in Threads : LET m == call[c][t] IN m.at # "idle" =>
        /\ m.op = "Initialize"
        /\ m.at \in {"local", "sent", "missing", "storing"} => selectors[c] = 0
        /\ m.at = "found" => m.obj = selectors[c]
        /\ IF m.at = "replied" THEN Ready(c) ELSE Blank(c)

\* Every handler finds the selector that Initialize made.
OpenInv(c) ==
    /\ Ready(c)
    /\ \A t \in Threads :
          /\ call[c][t].at \in {"idle", "local", "sent", "found", "replied"}
          /\ call[c][t].at = "found" => call[c][t].obj = selectors[c]

ConnInv(c) ==
    /\ \A t \in Threads : CallInv(c, t)
    /\ life[c] = "new" => NewInv(c)
    /\ daemon /\ life[c] = "dialing" => DialingInv(c)
    /\ daemon /\ life[c] = "open" => OpenInv(c)

RefInv == TrackInv /\ \A c \in Conns : ConnInv(c)

-----------------------------------------------------------------------------
(***************************************************************************)
(* The invariant.  A step concerns one connection, except that the daemon  *)
(* ends.                                                                   *)
(***************************************************************************)
USE DEF Ready, Blank

LEMMA InitRefInv == Init => RefInv
<1> SUFFICES ASSUME Init PROVE RefInv
  OBVIOUS
<1>1. ASSUME NEW c \in Conns PROVE ConnInv(c)
  BY DEF Init, ConnInv, CallInv, NewInv, Idle
<1> QED BY <1>1, InitTrackInv DEF RefInv

LEMMA OtherConn ==
    ASSUME NEW d \in Conns, ConnInv(d),
           UNCHANGED <<life[d], call[d], selectors[d], sel[d], daemon>>
    PROVE  ConnInv(d)'
BY DEF ConnInv, CallInv, NewInv, DialingInv, OpenInv

\* A connection is killed: only the calls it has at the daemon remain.
LEMMA ExitInv ==
    ASSUME RefInv, NEW c \in Conns, Exit(c)
    PROVE  \A d \in Conns : ConnInv(d)'
<1>1. TypeOK
  BY DEF RefInv, TrackInv
<1>2. ASSUME NEW d \in Conns, d # c PROVE ConnInv(d)'
  <2>1. UNCHANGED <<life[d], call[d], selectors[d], sel[d], daemon>>
    BY <1>1, <1>2 DEF Exit, TypeOK, serverVars
  <2> QED BY <2>1, OtherConn DEF RefInv
<1>3. ConnInv(c)'
  <2>1. /\ life'[c] = "killed"
        /\ \A t \in Threads : /\ call'[c][t] \in {Idle, call[c][t]}
                              /\ call[c][t].at = "local" => call'[c][t] = Idle
    BY <1>1 DEF Exit, TypeOK
  <2>2. \A t \in Threads : CallInv(c, t)
    BY DEF RefInv, ConnInv
  <2>3. \A t \in Threads : CallInv(c, t)'
    BY <2>1, <2>2 DEF CallInv, Idle
  <2> QED BY <2>1, <2>3 DEF ConnInv
<1> QED BY <1>2, <1>3

\* The daemon ends, and with it every selector.
LEMMA DownCall ==
    ASSUME Down, NEW d \in Conns, NEW t \in Threads
    PROVE  \/ /\ call[d][t].at \in {"idle", "local"}
              /\ call'[d][t] = call[d][t]
           \/ /\ life[d] = "killed"
              /\ call'[d][t] = Idle
           \/ /\ call[d][t].at \notin {"idle", "local"}
              /\ life[d] # "killed"
              /\ call'[d][t].op = call[d][t].op
              /\ call'[d][t].at = "sent"
              /\ call'[d][t].ans = Nil
<1>1. call'[d][t] = LET m == call[d][t]
                    IN  IF m.at \in {"idle", "local"} THEN m
                        ELSE IF life[d] = "killed" THEN Idle
                        ELSE [Idle EXCEPT !.op = m.op, !.at = "sent"]
  BY DEF Down
<1> DEFINE k == [Idle EXCEPT !.op = call[d][t].op, !.at = "sent"]
<1>2. k.op = call[d][t].op /\ k.at = "sent" /\ k.ans = Nil
  BY DEF Idle
<1> HIDE DEF k
<1>3. call'[d][t] = IF call[d][t].at \in {"idle", "local"} THEN call[d][t]
                    ELSE IF life[d] = "killed" THEN Idle ELSE k
  BY <1>1 DEF k
<1> QED BY <1>2, <1>3

LEMMA DownInv ==
    ASSUME RefInv, Down
    PROVE  \A d \in Conns : ConnInv(d)'
<1> SUFFICES ASSUME NEW d \in Conns PROVE ConnInv(d)'
  OBVIOUS
<1>1. TypeOK /\ ConnInv(d)
  BY DEF RefInv, TrackInv
<1>2. /\ ~daemon' /\ life'[d] = life[d] /\ selectors'[d] = 0
      /\ \A i \in 1..MaxSels : sel'[d][i] = Empty
  BY <1>1 DEF Down, clientVars
<1>4. ASSUME NEW t \in Threads PROVE CallInv(d, t)'
  <2>1. CallInv(d, t)
    BY <1>1 DEF ConnInv
  <2> QED BY <1>2, <2>1, DownCall DEF CallInv, Idle
<1>5. ASSUME life[d] = "new" PROVE NewInv(d)'
  <2>1. ASSUME NEW t \in Threads PROVE call'[d][t].at = "idle"
    <3>1. call[d][t].at = "idle"
      BY <1>1, <1>5 DEF ConnInv, NewInv
    <3> QED BY <1>5, <3>1, DownCall
  <2> QED BY <1>2, <2>1 DEF NewInv
<1> QED BY <1>2, <1>4, <1>5 DEF ConnInv

\* What changes when the call of goroutine t of c becomes k.
LEMMA OneCall ==
    ASSUME TypeOK, NEW c \in Conns, NEW t \in Threads, NEW k, Now(c, t, k)
    PROVE  /\ call'[c][t] = k
           /\ \A u \in Threads : u # t => call'[c][u] = call[c][u]
           /\ \A d \in Conns : d # c => call'[d] = call[d]
BY DEF TypeOK, Now

LEMMA BeginChanges ==
    ASSUME RefInv, NEW c \in Conns, NEW t, NEW op, NEW at, NEW S,
           Begin(c, t, op, at, S),
           \A d \in Conns : d # c => life'[d] = life[d]
    PROVE  /\ t \in Threads /\ call[c][t].at = "idle"
           /\ \A u \in Threads : u # t => call'[c][u] = call[c][u]
           /\ call'[c][t].op = op /\ call'[c][t].at = at
           /\ call'[c][t].arg = S /\ call'[c][t].ans = Nil
           /\ UNCHANGED <<selectors, sel, daemon>>
           /\ \A d \in Conns : d # c => ConnInv(d)' /\ call'[d] = call[d]
<1> DEFINE k == [Idle EXCEPT !.op = op, !.at = at, !.arg = S]
<1>1. TypeOK
  BY DEF RefInv, TrackInv
<1>2. t \in Threads /\ call[c][t] = Idle /\ Now(c, t, k)
      /\ UNCHANGED <<selectors, sel, daemon>>
  BY DEF Begin, serverVars
<1>3. k.op = op /\ k.at = at /\ k.arg = S /\ k.ans = Nil /\ Idle.at = "idle"
  BY DEF Idle
<1> HIDE DEF k
<1>4. /\ call'[c][t] = k
      /\ \A u \in Threads : u # t => call'[c][u] = call[c][u]
      /\ \A d \in Conns : d # c => call'[d] = call[d]
  BY <1>1, <1>2, OneCall
<1>5. ASSUME NEW d \in Conns, d # c PROVE ConnInv(d)'
  BY <1>2, <1>4, <1>5, OtherConn DEF RefInv
<1> QED BY <1>2, <1>3, <1>4, <1>5

LEMMA BeginInv ==
    ASSUME ~Overlap, RefInv, NEW c \in Conns, BeginAction(c)
    PROVE  \A d \in Conns : ConnInv(d)'
<1>0. TypeOK /\ ConnInv(c)
  BY DEF RefInv, TrackInv
<1>1. ASSUME NEW S \in PathSets, Initialize(c, S)
      PROVE  \A d \in Conns : ConnInv(d)'
  <2>1. /\ Begin(c, "dial", "Initialize", "local", S)
        /\ life[c] = "new" /\ life'[c] = "dialing"
        /\ \A d \in Conns : d # c => life'[d] = life[d]
    BY <1>0, <1>1 DEF Initialize, TypeOK
  <2>2. /\ "dial" \in Threads
        /\ \A u \in Threads : u # "dial" => call'[c][u] = call[c][u]
        /\ call'[c]["dial"].op = "Initialize" /\ call'[c]["dial"].at = "local"
        /\ call'[c]["dial"].ans = Nil
        /\ UNCHANGED <<selectors, sel, daemon>>
        /\ \A d \in Conns : d # c => ConnInv(d)'
    BY <2>1, BeginChanges
  <2>3. NewInv(c) /\ \A u \in Threads : CallInv(c, u)
    BY <1>0, <2>1 DEF ConnInv
  <2>4. ASSUME NEW u \in Threads PROVE CallInv(c, u)'
    BY <2>1, <2>2, <2>3 DEF CallInv, NewInv
  <2>5. DialingInv(c)'
    BY <2>2, <2>3 DEF DialingInv, NewInv
  <2>6. ConnInv(c)'
    BY <2>1, <2>4, <2>5 DEF ConnInv
  <2> QED BY <2>2, <2>6
<1>2. ASSUME NEW t, NEW op \in {"SetPreferences", "Path", "PathDown", "Refresh"},
             NEW at \in {"local", "sent"}, NEW S,
             at = "local" => op \in {"PathDown", "Refresh"},
             life[c] \in {"open", "closing"}, life' = life, Begin(c, t, op, at, S)
      PROVE  \A d \in Conns : ConnInv(d)'
  <2>2. /\ t \in Threads
        /\ \A u \in Threads : u # t => call'[c][u] = call[c][u]
        /\ call'[c][t].op = op /\ call'[c][t].at = at
        /\ call'[c][t].ans = Nil
        /\ UNCHANGED <<selectors, sel, daemon>>
        /\ \A d \in Conns : d # c => ConnInv(d)'
    BY <1>2, BeginChanges
  <2>3. \A u \in Threads : CallInv(c, u)
    BY <1>0 DEF ConnInv
  <2>4. ASSUME NEW u \in Threads PROVE CallInv(c, u)'
    BY <1>2, <2>2, <2>3 DEF CallInv
  <2>5. ASSUME daemon, life[c] = "open" PROVE OpenInv(c)'
    BY <1>0, <1>2, <2>2, <2>5 DEF ConnInv, OpenInv
  <2>6. ConnInv(c)'
    BY <1>2, <2>2, <2>4, <2>5 DEF ConnInv
  <2> QED BY <2>2, <2>6
<1>3. ASSUME NEW S \in PathSets, Refresh(c, S)
      PROVE  \A d \in Conns : ConnInv(d)'
  BY <1>2, <1>3 DEF Refresh, InUse
<1>4. CASE SetPreferences(c)
  BY <1>2, <1>4 DEF SetPreferences
<1>5. CASE Path(c)
  BY <1>2, <1>5 DEF Path, InUse
<1>6. ASSUME NEW fp \in Fps, PathDown(c, fp)
      PROVE  \A d \in Conns : ConnInv(d)'
  BY <1>2, <1>6 DEF PathDown, InUse
<1>7. CASE Close(c)
  <2>1. /\ Begin(c, "app", "Close", "sent", {})
        /\ life[c] = "open" /\ life'[c] = "closing"
        /\ \A d \in Conns : d # c => life'[d] = life[d]
    BY <1>0, <1>7 DEF Close, TypeOK
  <2>2. /\ "app" \in Threads
        /\ \A u \in Threads : u # "app" => call'[c][u] = call[c][u]
        /\ call'[c]["app"].op = "Close" /\ call'[c]["app"].at = "sent"
        /\ \A d \in Conns : d # c => ConnInv(d)'
    BY <2>1, BeginChanges
  <2>3. \A u \in Threads : CallInv(c, u)
    BY <1>0 DEF ConnInv
  <2>4. ASSUME NEW u \in Threads PROVE CallInv(c, u)'
    BY <2>1, <2>2, <2>3 DEF CallInv
  <2> QED BY <2>1, <2>2, <2>4 DEF ConnInv
<1> QED BY <1>1, <1>3, <1>4, <1>5, <1>6, <1>7 DEF BeginAction

\* A step of a call, except that it ends the process: what it does to the call
\* and what it leaves alone.
LEMMA StepsChanges ==
    ASSUME RefInv, NEW c \in Conns, NEW t \in Threads,
           Steps(c, t), ~FailFatal(c, t)
    PROVE  /\ call[c][t].at # "idle"
           /\ \A u \in Threads : u # t => call'[c][u] = call[c][u]
           /\ daemon' = daemon
           /\ \A d \in Conns : d # c =>
                 UNCHANGED <<life[d], call[d], selectors[d], sel[d], daemon>>
<1>1. TypeOK /\ CallInv(c, t)
  BY DEF RefInv, TrackInv, ConnInv
<1>2. PICK k : Now(c, t, k)
  BY DEF Steps, Store, Return, FailReported, Lookup, Make, Enter, Apply, Delete
<1>3. /\ \A u \in Threads : u # t => call'[c][u] = call[c][u]
      /\ \A d \in Conns : d # c => call'[d] = call[d]
  BY <1>1, <1>2, OneCall
<1>4. /\ daemon' = daemon
      /\ \A d \in Conns : d # c =>
            life'[d] = life[d] /\ selectors'[d] = selectors[d] /\ sel'[d] = sel[d]
  BY <1>1 DEF Steps, Store, Return, FailReported, Lookup, Make, Enter, Apply,
     Delete, clientVars, serverVars, TypeOK
<1>5. call[c][t].at # "idle"
  BY <1>1 DEF Steps, Store, Return, FailReported, Lookup, Make, Enter, Apply,
     Delete, CallInv
<1> QED BY <1>3, <1>4, <1>5

\* The stages a call goes through while nothing is done to a selector.
LEMMA StageInv ==
    ASSUME RefInv, NEW c \in Conns, NEW t \in Threads,
           Store(c, t) \/ Lookup(c, t) \/ Make(c, t) \/ Enter(c, t) \/ Delete(c, t),
           \A u \in Threads : u # t => call'[c][u] = call[c][u],
           daemon' = daemon
    PROVE  ConnInv(c)'
<1> DEFINE m == call[c][t]
           k == call'[c][t]
<1>0. TypeOK /\ ConnInv(c) /\ m \in Calls
  BY CallType DEF RefInv, TrackInv
<1>1. /\ life' = life /\ sel' = sel
      /\ k.op = m.op /\ k.ans = m.ans
      /\ m.at # "idle"
      /\ \/ m.at = "local" /\ k.at = "sent" /\ selectors'[c] = selectors[c]
         \/ /\ m.at = "sent" /\ selectors'[c] = selectors[c]
            /\ k.at = IF selectors[c] = 0 THEN "missing" ELSE "found"
            /\ k.obj = selectors[c]
         \/ m.at = "missing" /\ k.at = "storing" /\ selectors'[c] = selectors[c]
         \/ m.at = "storing" /\ k.at = "found" /\ selectors'[c] = k.obj
         \/ m.at = "deleting" /\ k.at = "replied"
  <2>1. CASE Store(c, t)
    BY <1>0, <2>1 DEF Store, Now, TypeOK, Calls, serverVars
  <2>2. CASE Lookup(c, t)
    BY <1>0, <2>2 DEF Lookup, Now, TypeOK, Calls, clientVars, serverVars
  <2>3. CASE Make(c, t)
    BY <1>0, <2>3 DEF Make, Now, TypeOK, Calls, clientVars
  <2>4. CASE Enter(c, t)
    BY <1>0, <2>4 DEF Enter, Now, TypeOK, Calls, clientVars
  <2>5. CASE Delete(c, t)
    BY <1>0, <2>5 DEF Delete, Now, TypeOK, Calls, clientVars
  <2> QED BY <2>1, <2>2, <2>3, <2>4, <2>5
<1>2. \A u \in Threads : CallInv(c, u)
  BY <1>0 DEF ConnInv
<1> HIDE DEF k
<1>3. ASSUME NEW u \in Threads PROVE CallInv(c, u)'
  <2>1. CASE u = t
    BY <1>1, <1>2, <2>1 DEF CallInv, k
  <2>2. CASE u # t
    BY <1>1, <1>2, <2>2 DEF CallInv
  <2> QED BY <2>1, <2>2
<1>4. life[c] # "new"
  BY <1>0, <1>1 DEF ConnInv, NewInv
<1>5. ASSUME daemon, life[c] = "dialing" PROVE DialingInv(c)'
  <2>1. m.op = "Initialize" /\ t = "dial" /\ m.at # "deleting" /\ Blank(c)'
        /\ (m.at \in {"local", "sent", "missing", "storing"} => selectors[c] = 0)
    BY <1>0, <1>1, <1>2, <1>5 DEF ConnInv, DialingInv, CallInv
  <2>2. ASSUME NEW u \in Threads, u # t PROVE call'[c][u].at = "idle"
    <3>1. call[c][u].at # "idle" => u = "dial"
      BY <1>0, <1>2, <1>5 DEF ConnInv, DialingInv, CallInv
    <3> QED BY <2>1, <2>2, <3>1
  <2>3. /\ k.op = "Initialize"
        /\ k.at \in {"local", "sent", "missing", "storing"} => selectors'[c] = 0
        /\ k.at = "found" => k.obj = selectors'[c]
        /\ k.at # "replied"
    BY <1>1, <2>1
  <2> QED BY <2>1, <2>2, <2>3 DEF DialingInv, k
<1>6. ASSUME daemon, life[c] = "open" PROVE OpenInv(c)'
  <2>1. OpenInv(c)
    BY <1>0, <1>6 DEF ConnInv
  <2>2. /\ selectors'[c] = selectors[c]
        /\ k.at \in {"sent", "found"}
        /\ k.at = "found" => k.obj = selectors[c]
    BY <1>1, <2>1 DEF OpenInv
  <2> QED BY <1>1, <2>1, <2>2 DEF OpenInv, k
<1> QED BY <1>1, <1>3, <1>4, <1>5, <1>6 DEF ConnInv

\* A call returns.
LEMMA ReturnInv ==
    ASSUME RefInv, NEW c \in Conns, NEW t \in Threads,
           Return(c, t) \/ FailReported(c, t),
           \A u \in Threads : u # t => call'[c][u] = call[c][u],
           daemon' = daemon, call[c][t].at # "idle"
    PROVE  ConnInv(c)'
<1> DEFINE m == call[c][t]
<1>0. TypeOK /\ ConnInv(c)
  BY DEF RefInv, TrackInv
<1>1. /\ selectors' = selectors /\ sel' = sel /\ call'[c][t] = Idle
      /\ life'[c] = IF life[c] = "killed" THEN "killed"
                    ELSE IF m.op = "Initialize" /\ daemon THEN "open"
                    ELSE IF m.op = "Close" THEN "closed"
                    ELSE life[c]
      /\ daemon => m.at = "replied"
  BY <1>0 DEF Return, FailReported, Now, TypeOK, serverVars
<1>2. \A u \in Threads : CallInv(c, u)
  BY <1>0 DEF ConnInv
<1>3. ASSUME NEW u \in Threads PROVE CallInv(c, u)'
  <2>1. CASE u = t
    BY <1>1, <2>1 DEF CallInv, Idle
  <2>2. CASE u # t
    <3>1. call'[c][u] = call[c][u] /\ CallInv(c, u) /\ CallInv(c, t)
      BY <1>2, <2>2
    <3>2. CASE life'[c] = life[c]
      BY <3>1, <3>2 DEF CallInv
    <3>3. CASE life'[c] # life[c]
      <4>1. m.op \in {"Initialize", "Close"} /\ life[c] # "killed" /\ life'[c] # "killed"
        BY <1>1, <3>3
      <4>2. call[c][u].op \notin {"Initialize", "Close"}
        BY <2>2, <3>1, <4>1 DEF CallInv
      <4> QED BY <3>1, <4>1, <4>2 DEF CallInv
    <3> QED BY <3>2, <3>3
  <2> QED BY <2>1, <2>2
<1>4. life[c] # "new"
  BY <1>0 DEF ConnInv, NewInv
<1>5. ASSUME daemon, life'[c] = "dialing" PROVE DialingInv(c)'
  BY <1>0, <1>1, <1>2, <1>5 DEF ConnInv, DialingInv, CallInv, Idle
<1>6. ASSUME daemon, life'[c] = "open" PROVE OpenInv(c)'
  <2>1. CASE life[c] = "open"
    BY <1>0, <1>1, <1>6, <2>1 DEF ConnInv, OpenInv, Idle
  <2>2. CASE life[c] # "open"
    <3>1. m.op = "Initialize" /\ t = "dial" /\ life[c] = "dialing"
      BY <1>1, <1>2, <1>6, <2>2 DEF CallInv
    <3>2. DialingInv(c)
      BY <1>0, <1>6, <3>1 DEF ConnInv
    <3>3. Ready(c)'
      BY <1>1, <1>6, <3>2 DEF DialingInv
    <3>4. ASSUME NEW u \in Threads PROVE call'[c][u].at = "idle"
      <4>1. u # t => call[c][u].at = "idle"
        BY <1>2, <3>1, <3>2 DEF DialingInv, CallInv
      <4> QED BY <1>1, <4>1 DEF Idle
    <3> QED BY <3>3, <3>4 DEF OpenInv
  <2> QED BY <2>1, <2>2
<1>7. life'[c] # "new"
  BY <1>1, <1>4
<1> QED BY <1>3, <1>5, <1>6, <1>7 DEF ConnInv

\* The handler calls its selector.
LEMMA ApplyInv ==
    ASSUME RefInv, NEW c \in Conns, NEW t \in Threads, NEW n \in Selectors,
           Apply(c, t, n),
           \A u \in Threads : u # t => call'[c][u] = call[c][u],
           daemon' = daemon
    PROVE  ConnInv(c)'
<1> DEFINE m == call[c][t]
           k == call'[c][t]
<1>0. TypeOK /\ ConnInv(c) /\ m \in Calls /\ HasObject
  BY CallType DEF RefInv, TrackInv
<1>1. /\ daemon /\ m.at = "found" /\ DefaultSelector(sel[c][m.obj], m, n)
      /\ life' = life /\ selectors' = selectors
      /\ k.op = m.op /\ k.at = IF m.op = "Close" THEN "deleting" ELSE "replied"
  BY <1>0 DEF Apply, Now, TypeOK, Calls, clientVars
<1>2. m.obj \in 1..MaxSels
  BY <1>0, <1>1, BoundAssumption DEF HasObject, Calls
<1>3. sel'[c][m.obj] = n
  BY <1>0, <1>2 DEF Apply, TypeOK
<1>4. \A u \in Threads : CallInv(c, u)
  BY <1>0 DEF ConnInv
<1> HIDE DEF k
<1>5. ASSUME NEW u \in Threads PROVE CallInv(c, u)'
  <2>1. CASE u = t
    BY <1>1, <1>4, <2>1 DEF CallInv, k
  <2>2. CASE u # t
    BY <1>1, <1>4, <2>2 DEF CallInv
  <2> QED BY <2>1, <2>2
<1>6. life[c] # "new"
  BY <1>0, <1>1 DEF ConnInv, NewInv
<1>7. ASSUME life[c] = "dialing" PROVE DialingInv(c)'
  <2>1. DialingInv(c)
    BY <1>0, <1>1, <1>7 DEF ConnInv
  <2>2. m.op = "Initialize" /\ t = "dial" /\ m.obj = selectors[c]
    BY <1>1, <1>4, <2>1 DEF DialingInv, CallInv
  <2>3. n.cur \in n.paths
    BY <1>1, <2>2 DEF DefaultSelector
  <2>4. Ready(c)'
    BY <1>1, <1>2, <1>3, <2>2, <2>3
  <2>5. ASSUME NEW u \in Threads, u # t PROVE call'[c][u].at = "idle"
    BY <1>4, <2>1, <2>2, <2>5 DEF DialingInv, CallInv
  <2>6. k.op = "Initialize" /\ k.at = "replied"
    BY <1>1, <2>2
  <2> QED BY <2>4, <2>5, <2>6 DEF DialingInv, k
<1>8. ASSUME life[c] = "open" PROVE OpenInv(c)'
  <2>1. OpenInv(c)
    BY <1>0, <1>1, <1>8 DEF ConnInv
  <2>2. m.op # "Close" /\ m.obj = selectors[c]
    BY <1>1, <1>4, <1>8, <2>1 DEF OpenInv, CallInv
  <2>3. sel[c][m.obj].cur \in sel[c][m.obj].paths
    BY <2>1, <2>2 DEF OpenInv
  <2>4. n.cur \in n.paths
    BY <1>1, <2>3 DEF DefaultSelector
  <2>5. Ready(c)'
    BY <1>1, <1>2, <1>3, <2>2, <2>4
  <2>6. k.at = "replied"
    BY <1>1, <2>2
  <2> QED BY <1>1, <2>1, <2>5, <2>6 DEF OpenInv, k
<1> QED BY <1>1, <1>5, <1>6, <1>7, <1>8 DEF ConnInv

LEMMA NextRefInv == ~Overlap /\ RefInv /\ [Next]_vars => RefInv'
<1> SUFFICES ASSUME ~Overlap, RefInv, [Next]_vars
             PROVE  \A d \in Conns : ConnInv(d)'
  BY NextTrackInv DEF RefInv
<1>1. ASSUME NEW c \in Conns, BeginAction(c) PROVE \A d \in Conns : ConnInv(d)'
  BY <1>1, BeginInv
<1>2. ASSUME NEW c \in Conns, Exit(c) PROVE \A d \in Conns : ConnInv(d)'
  BY <1>2, ExitInv
<1>3. ASSUME NEW c \in Conns, NEW t \in Threads, Steps(c, t), ~FailFatal(c, t)
      PROVE  \A d \in Conns : ConnInv(d)'
  <2>1. /\ call[c][t].at # "idle"
        /\ \A u \in Threads : u # t => call'[c][u] = call[c][u]
        /\ daemon' = daemon
        /\ \A d \in Conns : d # c =>
              UNCHANGED <<life[d], call[d], selectors[d], sel[d], daemon>>
    BY <1>3, StepsChanges
  <2>2. ASSUME NEW d \in Conns, d # c PROVE ConnInv(d)'
    BY <2>1, <2>2, OtherConn DEF RefInv
  <2>3. ConnInv(c)'
    BY <1>3, <2>1, StageInv, ReturnInv, ApplyInv DEF Steps
  <2> QED BY <2>2, <2>3
<1>4. CASE Down
  BY <1>4, DownInv
<1>5. CASE UNCHANGED vars
  BY <1>5, OtherConn DEF vars, RefInv
<1> QED
  BY <1>1, <1>2, <1>3, <1>4, <1>5
  DEF Next, BeginAction, ClientRace, Steps, FailFatal, ServerRace, Stop

LEMMA RefInvHolds == ASSUME ~Overlap PROVE Spec => []RefInv
<1>1. Init => RefInv
  BY InitRefInv
<1>2. RefInv /\ [Next]_vars => RefInv'
  BY NextRefInv
<1> QED BY <1>1, <1>2, PTL DEF Spec

\* While a program keeps SetPreferences out of Initiate, the daemon has an
\* initialised selector for its connection from the return of Initialize until
\* Close is called, whatever calls overtake each other in the handlers.
THEOREM InitializedAnswersHolds ==
    ASSUME ~Overlap
    PROVE  Spec => []InitializedAnswers
<1>1. RefInv => InitializedAnswers
  <2> SUFFICES ASSUME RefInv, NEW c \in Conns, daemon, life[c] = "open"
               PROVE  selectors[c] # 0 /\ sel[c][selectors[c]].cur # Nil
    BY DEF InitializedAnswers
  <2>1. Ready(c) /\ TypeOK
    BY DEF RefInv, TrackInv, ConnInv, OpenInv
  <2>2. selectors[c] \in 1..MaxSels
    BY <2>1, BoundAssumption DEF TypeOK
  <2>3. sel[c][selectors[c]] \in Selectors
    BY <2>1, <2>2 DEF TypeOK
  <2>4. sel[c][selectors[c]].paths \in SUBSET Fps
    BY <2>3 DEF Selectors
  <2> QED BY <2>1, <2>4, NilAssumption
<1> QED BY <1>1, RefInvHolds, PTL

-----------------------------------------------------------------------------
(***************************************************************************)
(* The refinement.  First the mapped state, one call and one connection at *)
(* a time.                                                                 *)
(***************************************************************************)
SeenCalls == [op : Ops, at : {"idle", "called", "pending", "done", "lost"},
              arg : SUBSET Fps, ans : Fps \cup {Nil}]

\* How the program sees the call m of a process that is not gone.
View(m, up) ==
    [op  |-> m.op,
     at  |-> IF m.at = "local" THEN "called"
             ELSE IF ~up THEN "lost"
             ELSE IF m.at \in {"deleting", "replied"} THEN "done" ELSE "pending",
     arg |-> IF up \/ m.at = "local" THEN m.arg ELSE {},
     ans |-> m.ans]

LEMMA SeenIs ==
    ASSUME NEW c \in Conns, NEW t \in Threads
    PROVE  Seen(c, t) = IF life[c] = "killed" \/ call[c][t].at = "idle"
                        THEN Service!None ELSE View(call[c][t], daemon)
BY DEF Seen, View, Service!None

LEMMA SeenNextIs ==
    ASSUME NEW c \in Conns, NEW t \in Threads
    PROVE  Seen(c, t)' = IF life'[c] = "killed" \/ call'[c][t].at = "idle"
                         THEN Service!None ELSE View(call'[c][t], daemon')
BY DEF Seen, View, Service!None

LEMMA SeenType ==
    ASSUME TypeOK, NEW c \in Conns, NEW t \in Threads
    PROVE  Seen(c, t) \in SeenCalls
<1>1. call[c][t] \in Calls
  BY CallType
<1>2. Service!None \in SeenCalls
  BY DEF Service!None, SeenCalls, Ops
<1>3. View(call[c][t], daemon) \in SeenCalls
  BY <1>1 DEF View, SeenCalls, Calls
<1> QED BY <1>2, <1>3, SeenIs

\* A call is None for the program exactly if it is idle or its process is gone.
LEMMA SeenNone ==
    ASSUME NEW c \in Conns, NEW t \in Threads
    PROVE  /\ Pend[c][t] = Seen(c, t)
           /\ Seen(c, t) = Service!None <=> life[c] = "killed" \/ call[c][t].at = "idle"
<1>1. Pend[c][t] = Seen(c, t)
  BY DEF Pend
<1>2. View(call[c][t], daemon).at # "idle" /\ Service!None.at = "idle"
  BY DEF View, Service!None
<1> QED BY <1>1, <1>2, SeenIs

LEMMA SeenSame ==
    ASSUME NEW d \in Conns, NEW u \in Threads,
           UNCHANGED <<call[d][u], daemon>>,
           life'[d] = "killed" <=> life[d] = "killed"
    PROVE  Seen(d, u)' = Seen(d, u)
BY SeenIs, SeenNextIs

LEMMA PendSame ==
    ASSUME \A d \in Conns, u \in Threads : Seen(d, u)' = Seen(d, u)
    PROVE  Pend' = Pend
BY DEF Pend

LEMMA PendOne ==
    ASSUME NEW c \in Conns, NEW t \in Threads, NEW x, Seen(c, t)' = x,
           \A d \in Conns, u \in Threads :
               d # c \/ u # t => Seen(d, u)' = Seen(d, u)
    PROVE  Pend' = [Pend EXCEPT ![c][t] = x]
BY DEF Pend

LEMMA ObjSame ==
    ASSUME \A d \in Conns : Object(d)' = Object(d)
    PROVE  Obj' = Obj
BY DEF Obj

LEMMA ObjOne ==
    ASSUME NEW c \in Conns, NEW x, Object(c)' = x,
           \A d \in Conns : d # c => Object(d)' = Object(d)
    PROVE  Obj' = [Obj EXCEPT ![c] = x]
BY DEF Obj

LEMMA ObjectSame ==
    ASSUME NEW d \in Conns, UNCHANGED <<selectors[d], sel[d], daemon>>,
           life'[d] \in {"dialing", "open"} <=> life[d] \in {"dialing", "open"}
    PROVE  Object(d)' = Object(d)
BY DEF Object

-----------------------------------------------------------------------------
(***************************************************************************)
(* Then one step lemma per kind of action.                                 *)
(***************************************************************************)
LEMMA InitMaps == Init => Service!Init
<1> SUFFICES ASSUME Init PROVE Service!Init
  OBVIOUS
<1>1. ASSUME NEW c \in Conns, NEW t \in Threads PROVE Seen(c, t) = Service!None
  BY SeenIs DEF Init, Idle
<1>2. Pend = [c \in Conns |-> [t \in Threads |-> Service!None]]
  BY <1>1 DEF Pend
<1>3. Obj = [c \in Conns |-> Service!Empty]
  BY DEF Init, Obj, Object, Empty, Service!Empty
<1> QED BY <1>2, <1>3 DEF Init, Service!Init

\* A call begins: the program invokes the service.
LEMMA BeginInvokes ==
    ASSUME RefInv, NEW c \in Conns, NEW t, NEW op, NEW at \in {"local", "sent"},
           NEW S, Begin(c, t, op, at, S),
           at = "local" <=> op \in Service!Telling,
           IF op \in DOMAIN Service!Opens
           THEN /\ life[c] = Service!Opens[op]
                /\ life' = [life EXCEPT ![c] = Service!Enters[op]]
           ELSE life[c] \in {"open", "closing"} /\ life' = life
    PROVE  t \in Threads /\ Service!Invoke(c, t, op, S)
<1> DEFINE k == call'[c][t]
<1>0. TypeOK /\ ConnInv(c)
  BY DEF RefInv, TrackInv
<1>1. /\ DOMAIN Service!Opens = {"Initialize", "Close"}
      /\ Service!Opens["Initialize"] = "new" /\ Service!Opens["Close"] = "open"
      /\ Service!Enters["Initialize"] = "dialing"
      /\ Service!Enters["Close"] = "closing"
  BY DEF Service!Opens, Service!Enters
<1>2. /\ \A d \in Conns : d # c => life'[d] = life[d]
      /\ life[c] # "killed" /\ life'[c] # "killed"
      /\ op = "Initialize" => life[c] = "new" /\ life'[c] = "dialing"
      /\ op = "Close" => life'[c] = "closing"
      /\ op \notin {"Initialize", "Close"} => life' = life
  BY <1>0, <1>1 DEF TypeOK
<1>3. /\ t \in Threads /\ call[c][t].at = "idle"
      /\ \A u \in Threads : u # t => call'[c][u] = call[c][u]
      /\ k.op = op /\ k.at = at /\ k.arg = S /\ k.ans = Nil
      /\ UNCHANGED <<selectors, sel, daemon>>
      /\ \A d \in Conns : d # c => call'[d] = call[d]
  BY <1>2, BeginChanges
<1>4. Pend[c][t] = Service!None
  BY <1>3, SeenNone
<1> DEFINE x == IF op \in Service!Telling
                THEN [op |-> op, at |-> "called", arg |-> S, ans |-> Nil]
                ELSE IF daemon THEN [op |-> op, at |-> "pending", arg |-> S, ans |-> Nil]
                               ELSE Service!Lost(op)
<1>5. Seen(c, t)' = x
  <2>1. Seen(c, t)' = View(k, daemon)
    BY <1>2, <1>3, SeenNextIs
  <2>2. Service!Lost(op) = [op |-> op, at |-> "lost", arg |-> {}, ans |-> Nil]
    BY DEF Service!Lost
  <2> QED BY <1>3, <2>1, <2>2 DEF View
<1>6. ASSUME NEW d \in Conns, NEW u \in Threads, d # c \/ u # t
      PROVE  Seen(d, u)' = Seen(d, u)
  BY <1>2, <1>3, <1>6, SeenSame
<1>7. Pend' = [Pend EXCEPT ![c][t] = x]
  BY <1>3, <1>5, <1>6, PendOne
<1>8. Obj' = [Obj EXCEPT ![c] = IF op = "Close" THEN Service!Empty ELSE @]
  <2>1. ASSUME NEW d \in Conns, d # c PROVE Object(d)' = Object(d)
    BY <1>2, <1>3, <2>1, ObjectSame
  <2>2. Object(c)' = IF op = "Close" THEN Service!Empty ELSE Object(c)
    <3>1. CASE op = "Close"
      BY <1>2, <3>1 DEF Object, Empty, Service!Empty
    <3>2. CASE op = "Initialize"
      <4>1. selectors[c] = 0
        BY <1>0, <1>2, <3>2 DEF ConnInv, NewInv
      <4> QED BY <1>2, <1>3, <3>2, <4>1 DEF Object
    <3>3. CASE op \notin {"Initialize", "Close"}
      BY <1>2, <1>3, <3>3, ObjectSame
    <3> QED BY <3>1, <3>2, <3>3
  <2>3. Obj[c] = Object(c)
    BY DEF Obj
  <2> HIDE DEF Object
  <2>4. Obj' = [Obj EXCEPT ![c] = IF op = "Close" THEN Service!Empty ELSE Object(c)]
    BY <2>1, <2>2, ObjOne
  <2> QED BY <2>3, <2>4
<1>9. reported' = reported /\ got' = [got EXCEPT ![c] = IF op = "Path" THEN Nil ELSE @]
  BY DEF Begin
<1> HIDE DEF x
<1> QED BY <1>3, <1>4, <1>7, <1>8, <1>9 DEF Service!Invoke, x

LEMMA BeginMaps ==
    ASSUME ~Overlap, RefInv, NEW c \in Conns, BeginAction(c)
    PROVE  Service!Next
<1>0. /\ DOMAIN Service!Opens = {"Initialize", "Close"}
      /\ Service!Opens["Initialize"] = "new" /\ Service!Opens["Close"] = "open"
      /\ Service!Enters["Initialize"] = "dialing"
      /\ Service!Enters["Close"] = "closing"
      /\ Service!Telling = {"Initialize", "PathDown", "Refresh"}
  BY DEF Service!Opens, Service!Enters, Service!Telling
<1>1. ASSUME NEW S \in PathSets, Initialize(c, S) PROVE Service!Next
  <2>1. "dial" \in Threads /\ Service!Invoke(c, "dial", "Initialize", S)
    BY <1>0, <1>1, BeginInvokes DEF Initialize, PathSets
  <2> QED BY <2>1 DEF Service!Next, PathSets
<1>2. ASSUME NEW S \in PathSets, Refresh(c, S) PROVE Service!Next
  <2>1. "pool" \in Threads /\ Service!Invoke(c, "pool", "Refresh", S)
    BY <1>0, <1>2, BeginInvokes DEF Refresh, InUse, PathSets
  <2> QED BY <2>1 DEF Service!Next, PathSets
<1>3. CASE SetPreferences(c)
  <2>1. "app" \in Threads /\ Service!Invoke(c, "app", "SetPreferences", {})
    BY <1>0, <1>3, BeginInvokes DEF SetPreferences
  <2> QED BY <2>1 DEF Service!Next
<1>4. CASE Path(c)
  <2>1. "writer" \in Threads /\ Service!Invoke(c, "writer", "Path", {})
    BY <1>0, <1>4, BeginInvokes DEF Path, InUse
  <2> QED BY <2>1 DEF Service!Next
<1>5. ASSUME NEW fp \in Fps, PathDown(c, fp) PROVE Service!Next
  <2>1. "scmp" \in Threads /\ Service!Invoke(c, "scmp", "PathDown", {fp})
    BY <1>0, <1>5, BeginInvokes DEF PathDown, InUse
  <2> QED BY <2>1 DEF Service!Next
<1>6. CASE Close(c)
  <2>1. "app" \in Threads /\ Service!Invoke(c, "app", "Close", {})
    BY <1>0, <1>6, BeginInvokes DEF Close
  <2> QED BY <2>1 DEF Service!Next
<1> QED BY <1>1, <1>2, <1>3, <1>4, <1>5, <1>6 DEF BeginAction

\* A process ends.
LEMMA ExitMaps ==
    ASSUME RefInv, NEW c \in Conns, Exit(c), life[c] # "killed",
           \/ \E t \in Threads : /\ ~daemon \/ life[c] = "closed"
                                 /\ call[c][t].at # "idle"
           \/ \E t, u \in Threads : /\ t # u
                                    /\ call[c][t].at = "local"
                                    /\ call[c][u].at = "local" \/ Reads(call[c][u])
    PROVE  Service!Die(c)
<1>0. TypeOK /\ \A t \in Threads : CallInv(c, t)
  BY DEF RefInv, TrackInv, ConnInv
<1>1. /\ life' = [life EXCEPT ![c] = "killed"] /\ life'[c] = "killed"
      /\ \A d \in Conns : d # c => life'[d] = life[d] /\ call'[d] = call[d]
      /\ UNCHANGED <<selectors, sel, daemon>>
      /\ reported' = [reported EXCEPT ![c] = {}] /\ got' = [got EXCEPT ![c] = Nil]
  BY <1>0 DEF Exit, TypeOK, serverVars
<1>2. \/ \E t \in Threads : (~daemon \/ life[c] = "closed") /\ Pend[c][t] # Service!None
      \/ \E t, u \in Threads :
            /\ t # u
            /\ Pend[c][t].at = "called"
            /\ Pend[c][u].at = "called" \/ Pend[c][u].ans # Nil
  <2>1. ASSUME NEW t \in Threads, call[c][t].at # "idle"
        PROVE  Pend[c][t] # Service!None /\ Pend[c][t].ans = call[c][t].ans
    BY <2>1, SeenNone, SeenIs DEF View
  <2>2. ASSUME NEW t \in Threads, call[c][t].at = "local"
        PROVE  Pend[c][t].at = "called"
    BY <2>2, SeenNone, SeenIs DEF View
  <2> QED BY <2>1, <2>2 DEF Reads
<1>3. Pend' = [Pend EXCEPT ![c] = [t \in Threads |-> Service!None]]
  <2>1. ASSUME NEW t \in Threads PROVE Seen(c, t)' = Service!None
    BY <1>1, SeenNextIs
  <2>2. ASSUME NEW d \in Conns, d # c, NEW t \in Threads PROVE Seen(d, t)' = Seen(d, t)
    BY <1>1, <2>2, SeenSame
  <2> QED BY <2>1, <2>2 DEF Pend
<1>4. Obj' = [Obj EXCEPT ![c] = Service!Empty]
  <2>1. Object(c)' = Service!Empty
    BY <1>1 DEF Object, Empty, Service!Empty
  <2>2. ASSUME NEW d \in Conns, d # c PROVE Object(d)' = Object(d)
    BY <1>1, <2>2, ObjectSame
  <2> QED BY <2>1, <2>2, ObjOne
<1> QED BY <1>1, <1>2, <1>3, <1>4 DEF Service!Die

\* The daemon ends.
LEMMA DownMaps ==
    ASSUME RefInv, daemon, Down
    PROVE  Service!End
<1>1. life' = life /\ daemon' = FALSE /\ reported' = reported /\ got' = got
  BY DEF Down, clientVars
<1>2. ASSUME NEW d \in Conns, NEW u \in Threads
      PROVE  Seen(d, u)' = IF Seen(d, u).at \in {"idle", "called"} THEN Seen(d, u)
                           ELSE Service!Lost(Seen(d, u).op)
  <2>0. CallInv(d, u)
    BY DEF RefInv, ConnInv
  <2>1. CASE life[d] = "killed" \/ call[d][u].at = "idle"
    <3>1. life'[d] = "killed" \/ call'[d][u].at = "idle"
      BY <1>1, <2>1, DownCall
    <3>2. Seen(d, u) = Service!None /\ Seen(d, u)' = Service!None
      BY <2>1, <3>1, SeenIs, SeenNextIs
    <3>3. Service!None.at = "idle"
      BY DEF Service!None
    <3> QED BY <3>2, <3>3
  <2>3. CASE life[d] # "killed" /\ call[d][u].at = "local"
    <3>1. call'[d][u] = call[d][u]
      BY <2>3, DownCall
    <3>2. Seen(d, u)' = View(call[d][u], FALSE) /\ Seen(d, u) = View(call[d][u], daemon)
      BY <1>1, <2>3, <3>1, SeenIs, SeenNextIs
    <3>3. View(call[d][u], FALSE) = View(call[d][u], daemon)
          /\ View(call[d][u], daemon).at = "called"
      BY <2>3 DEF View
    <3> QED BY <3>2, <3>3
  <2>2. CASE life[d] # "killed" /\ call[d][u].at \notin {"idle", "local"}
    <3>1. /\ call'[d][u].op = call[d][u].op /\ call'[d][u].at = "sent"
          /\ call'[d][u].ans = Nil
      BY <2>0, <2>2, DownCall DEF CallInv
    <3>2. Seen(d, u)' = [op |-> call[d][u].op, at |-> "lost", arg |-> {}, ans |-> Nil]
      BY <1>1, <2>2, <3>1, SeenNextIs DEF View
    <3>3. Seen(d, u).at \notin {"idle", "called"} /\ Seen(d, u).op = call[d][u].op
      BY <2>2, SeenIs DEF View
    <3> QED BY <3>2, <3>3 DEF Service!Lost
  <2> QED BY <2>1, <2>2, <2>3
<1>3. Pend' = [c \in Conns |-> [t \in Threads |->
          IF Pend[c][t].at \in {"idle", "called"} THEN Pend[c][t]
          ELSE Service!Lost(Pend[c][t].op)]]
  BY <1>2 DEF Pend
<1>4. Obj' = [c \in Conns |-> Service!Empty]
  BY <1>1 DEF Obj, Object, Empty, Service!Empty
<1> QED BY <1>1, <1>3, <1>4 DEF Service!End

\* The client's map is written: what the call says counts.
LEMMA StoreMaps ==
    ASSUME RefInv, NEW c \in Conns, NEW t \in Threads, Store(c, t)
    PROVE  Service!Note(c, t) \/ UNCHANGED Service!vars
<1> DEFINE m == call[c][t]
           k == call'[c][t]
<1>0. TypeOK /\ m \in Calls /\ CallInv(c, t)
  BY CallType DEF RefInv, TrackInv, ConnInv
<1>1. /\ UNCHANGED <<life, got, selectors, sel, daemon>>
      /\ m.at = "local" /\ m.ans = Nil
      /\ reported' = [reported EXCEPT ![c] = IF m.op = "PathDown" THEN @ \cup m.arg
                                                                 ELSE @ \ m.arg]
      /\ k.op = m.op /\ k.arg = m.arg /\ k.ans = Nil /\ k.at = "sent"
  BY <1>0 DEF Store, Notes, Now, TypeOK, Calls, serverVars, CallInv
<1>2. \A d \in Conns, u \in Threads : d # c \/ u # t => call'[d][u] = call[d][u]
  <2>1. PICK x : Now(c, t, x)
    BY DEF Store
  <2> QED BY <1>0, <2>1, OneCall
<1>3. ASSUME NEW d \in Conns, NEW u \in Threads, d # c \/ u # t
      PROVE  Seen(d, u)' = Seen(d, u)
  BY <1>1, <1>2, <1>3, SeenSame
<1>4. Obj' = Obj
  <2>1. ASSUME NEW d \in Conns PROVE Object(d)' = Object(d)
    BY <1>1, ObjectSame
  <2> QED BY <2>1, ObjSame
<1> HIDE DEF k
<1>6. CASE life[c] # "killed"
  <2> DEFINE s == Seen(c, t)
  <2>1. Seen(c, t) = View(m, daemon) /\ Seen(c, t)' = View(k, daemon)
    BY <1>1, <1>6, SeenIs, SeenNextIs DEF k
  <2>2. s = [op |-> m.op, at |-> "called", arg |-> m.arg, ans |-> Nil]
    BY <1>1, <2>1 DEF View
  <2>3. View(k, daemon) = IF daemon THEN [s EXCEPT !.at = "pending"]
                                    ELSE Service!Lost(m.op)
    BY <1>1, <2>2 DEF View, Service!Lost
  <2>4. Pend' = [Pend EXCEPT ![c][t] = View(k, daemon)]
    BY <1>3, <2>1, PendOne
  <2>5. Pend[c][t] = s /\ s.at = "called" /\ s.op = m.op /\ s.arg = m.arg
    BY <2>2, SeenNone
  <2> HIDE DEF s
  <2>6. Pend' = [Pend EXCEPT ![c][t] = IF daemon THEN [Pend[c][t] EXCEPT !.at = "pending"]
                                                 ELSE Service!Lost(Pend[c][t].op)]
    BY <2>3, <2>4, <2>5
  <2> QED BY <1>1, <1>4, <2>5, <2>6 DEF Service!Note
<1>5. life[c] # "killed"
  BY <1>0, <1>1 DEF CallInv
<1> QED BY <1>5, <1>6

\* The program does not see the lookup of a selector, nor its being made, entered
\* and deleted.
LEMMA StageStutters ==
    ASSUME RefInv, NEW c \in Conns, NEW t \in Threads,
           Lookup(c, t) \/ Make(c, t) \/ Enter(c, t) \/ Delete(c, t)
    PROVE  UNCHANGED Service!vars
<1> DEFINE m == call[c][t]
           k == call'[c][t]
<1>0. TypeOK /\ ConnInv(c) /\ m \in Calls /\ HasObject /\ CallInv(c, t)
  BY CallType DEF RefInv, TrackInv, ConnInv
<1>1. /\ life' = life /\ sel' = sel /\ daemon' = daemon
      /\ reported' = reported /\ got' = got
      /\ k.op = m.op /\ k.arg = m.arg /\ k.ans = m.ans
      /\ m.at \notin {"idle", "local"} /\ k.at \notin {"idle", "local"}
      /\ m.at \in {"deleting", "replied"} <=> k.at \in {"deleting", "replied"}
      /\ \/ selectors' = selectors
         \/ m.at = "storing" /\ daemon /\ selectors'[c] = m.obj
         \/ m.at = "deleting" /\ selectors'[c] = 0
      /\ \A d \in Conns : d # c => selectors'[d] = selectors[d]
  <2>2. CASE Lookup(c, t)
    BY <1>0, <2>2 DEF Lookup, Now, TypeOK, Calls, clientVars, serverVars
  <2>3. CASE Make(c, t)
    BY <1>0, <2>3 DEF Make, Now, TypeOK, Calls, clientVars
  <2>4. CASE Enter(c, t)
    BY <1>0, <2>4 DEF Enter, Now, TypeOK, Calls, clientVars
  <2>5. CASE Delete(c, t)
    BY <1>0, <2>5 DEF Delete, Now, TypeOK, Calls, clientVars
  <2> QED BY <2>2, <2>3, <2>4, <2>5
<1>2. \A d \in Conns, u \in Threads : d # c \/ u # t => call'[d][u] = call[d][u]
  <2>1. PICK x : Now(c, t, x)
    BY DEF Lookup, Make, Enter, Delete
  <2> QED BY <1>0, <2>1, OneCall
<1>3. Seen(c, t)' = Seen(c, t)
  <2>1. View(k, daemon) = View(m, daemon)
    BY <1>1 DEF View
  <2> QED BY <1>1, <2>1, SeenIs, SeenNextIs
<1>4. Pend' = Pend
  <2>1. ASSUME NEW d \in Conns, NEW u \in Threads PROVE Seen(d, u)' = Seen(d, u)
    BY <1>1, <1>2, <1>3, SeenSame
  <2> QED BY <2>1, PendSame
<1>5. Object(c)' = Object(c)
  <2>1. CASE selectors' = selectors
    BY <1>1, <2>1, ObjectSame
  <2>2. CASE m.at = "storing" /\ daemon /\ selectors'[c] = m.obj
    <3>1. CASE life[c] \notin {"dialing", "open"}
      BY <1>1, <3>1 DEF Object
    <3>2. CASE life[c] = "dialing"
      <4>1. Blank(c) /\ selectors[c] = 0
        BY <1>0, <2>2, <3>2 DEF ConnInv, DialingInv
      <4>2. m.obj \in 1..MaxSels
        BY <1>0, <2>2, BoundAssumption DEF HasObject, Calls
      <4> QED BY <1>1, <2>2, <4>1, <4>2 DEF Object
    <3>3. life[c] # "open"
      BY <1>0, <2>2 DEF ConnInv, OpenInv
    <3> QED BY <3>1, <3>2, <3>3
  <2>3. CASE m.at = "deleting"
    BY <1>0, <1>1, <2>3 DEF CallInv, Object
  <2> QED BY <1>1, <2>1, <2>2, <2>3
<1>6. Obj' = Obj
  <2>1. ASSUME NEW d \in Conns PROVE Object(d)' = Object(d)
    BY <1>1, <1>5, ObjectSame
  <2> QED BY <2>1, ObjSame
<1> QED BY <1>1, <1>4, <1>6 DEF Service!vars

\* A reply or an error arrives.
LEMMA ReturnMaps ==
    ASSUME RefInv, NEW c \in Conns, NEW t \in Threads,
           Return(c, t) \/ FailReported(c, t)
    PROVE  Service!Respond(c, t) \/ Service!Error(c, t) \/ UNCHANGED Service!vars
<1> DEFINE m == call[c][t]
<1>0. TypeOK /\ CallInv(c, t)
  BY DEF RefInv, TrackInv, ConnInv
<1>1. /\ UNCHANGED <<reported, selectors, sel, daemon>>
      /\ m.at # "idle"
      /\ \A d \in Conns : d # c => life'[d] = life[d]
      /\ life'[c] = "killed" <=> life[c] = "killed"
  BY <1>0 DEF Return, FailReported, TypeOK, serverVars, CallInv
<1>2. /\ call'[c][t] = Idle
      /\ \A d \in Conns, u \in Threads : d # c \/ u # t => call'[d][u] = call[d][u]
  <2>1. Now(c, t, Idle)
    BY DEF Return, FailReported
  <2> QED BY <1>0, <2>1, OneCall
<1>3. Pend' = [Pend EXCEPT ![c][t] = Service!None]
  <2>1. Seen(c, t)' = Service!None
    BY <1>2, SeenNextIs DEF Idle
  <2>2. ASSUME NEW d \in Conns, NEW u \in Threads, d # c \/ u # t
        PROVE  Seen(d, u)' = Seen(d, u)
    BY <1>1, <1>2, <2>2, SeenSame
  <2> QED BY <2>1, <2>2, PendOne
<1>4. Obj' = Obj
  <2>1. life'[c] \in {"dialing", "open"} <=> life[c] \in {"dialing", "open"}
    BY <1>0 DEF Return, FailReported, TypeOK, CallInv
  <2>2. ASSUME NEW d \in Conns PROVE Object(d)' = Object(d)
    BY <1>1, <2>1, ObjectSame
  <2> QED BY <2>2, ObjSame
<1>5. CASE life[c] = "killed"
  <2>1. life' = life /\ got' = got
    BY <1>0, <1>5 DEF Return, FailReported, TypeOK
  <2>2. ASSUME NEW d \in Conns, NEW u \in Threads PROVE Seen(d, u)' = Seen(d, u)
    <3>1. CASE d = c
      BY <1>1, <1>5, <3>1, SeenIs, SeenNextIs
    <3>2. CASE d # c
      BY <1>1, <1>2, <3>2, SeenSame
    <3> QED BY <3>1, <3>2
  <2>3. Pend' = Pend
    BY <2>2, PendSame
  <2> QED BY <1>1, <1>4, <2>1, <2>3 DEF Service!vars
<1>6. CASE life[c] # "killed"
  <2>1. Pend[c][t] = View(m, daemon)
    BY <1>1, <1>6, SeenNone, SeenIs
  <2>2. Pend[c][t].op = m.op /\ Pend[c][t].ans = m.ans
    BY <2>1 DEF View
  <2>3. CASE Return(c, t)
    <3>1. Pend[c][t].at = "done" /\ daemon
      BY <2>1, <2>3 DEF Return, View
    <3>2. /\ DOMAIN Service!Ends = {"Initialize", "Close"}
          /\ Service!Ends["Initialize"] = "open" /\ Service!Ends["Close"] = "closed"
      BY DEF Service!Ends
    <3>3. life' = [life EXCEPT ![c] = IF m.op \in DOMAIN Service!Ends
                                      THEN Service!Ends[m.op] ELSE @]
      BY <1>0, <1>6, <2>3, <3>2 DEF Return, TypeOK
    <3>4. PathOf(c, m.ans) = IF m.ans \in reported[c] THEN Nil ELSE m.ans
      <4>1. m.ans \in live[c] \cup reported[c] \cup {Nil}
            /\ live[c] \cap reported[c] = {} /\ reported[c] \subseteq Fps
            /\ live[c] \subseteq Fps
        BY <1>0, <1>6 DEF RefInv, TrackInv, Tracked, CallTracked, Known, Apart, TypeOK
      <4> QED BY <4>1, NilAssumption DEF PathOf
    <3>5. got' = [got EXCEPT ![c] = IF m.op # "Path" THEN @
                                    ELSE IF m.ans \in reported[c] THEN Nil ELSE m.ans]
      BY <1>6, <2>3, <3>4 DEF Return
    <3> QED BY <1>1, <1>3, <1>4, <2>2, <3>1, <3>3, <3>5 DEF Service!Respond
  <2>4. CASE FailReported(c, t)
    <3>1. Pend[c][t].at = "lost" /\ got' = got
      BY <2>1, <2>4 DEF FailReported, View
    <3> QED BY <1>1, <1>3, <1>4, <2>2, <2>4, <3>1 DEF FailReported, Service!Error
  <2> QED BY <2>3, <2>4
<1> QED BY <1>5, <1>6

\* Marking a pending call done and giving it its answer.
DoneWith(c, t, a) == [Pend EXCEPT ![c][t].at = "done", ![c][t].ans = a]

LEMMA PendDone ==
    ASSUME TypeOK, NEW c \in Conns, NEW t \in Threads, NEW a
    PROVE  DoneWith(c, t, a)
             = [Pend EXCEPT ![c][t] = [op |-> Seen(c, t).op, at |-> "done",
                                       arg |-> Seen(c, t).arg, ans |-> a]]
<1>1. Seen(c, t) \in SeenCalls /\ Pend[c][t] = Seen(c, t)
  BY SeenType, SeenNone
<1>2. [[Seen(c, t) EXCEPT !.at = "done"] EXCEPT !.ans = a]
        = [op |-> Seen(c, t).op, at |-> "done", arg |-> Seen(c, t).arg, ans |-> a]
  <2>1. PICK r \in SeenCalls : r = Seen(c, t)
    BY <1>1
  <2>2. r = [op |-> r.op, at |-> r.at, arg |-> r.arg, ans |-> r.ans]
    BY DEF SeenCalls
  <2>3. [r EXCEPT !.at = "done"]
          = [op |-> r.op, at |-> "done", arg |-> r.arg, ans |-> r.ans]
    BY <2>2
  <2>4. [[op |-> r.op, at |-> "done", arg |-> r.arg, ans |-> r.ans] EXCEPT !.ans = a]
          = [op |-> r.op, at |-> "done", arg |-> r.arg, ans |-> a]
    OBVIOUS
  <2> QED BY <2>1, <2>3, <2>4
<1>3. Pend = [d \in Conns |-> Pend[d]] /\ Pend[c] = [u \in Threads |-> Pend[c][u]]
  BY DEF Pend
<1> HIDE DEF Pend
<1> QED BY <1>1, <1>2, <1>3 DEF DoneWith

\* A handler calls its selector: the call takes effect.
LEMMA ApplyMaps ==
    ASSUME RefInv, NEW c \in Conns, NEW t \in Threads, NEW n \in Selectors,
           Apply(c, t, n)
    PROVE  \/ Service!Effect(c, t)
           \/ Service!LateEffect(c, t)
           \/ UNCHANGED Service!vars
<1> DEFINE m == call[c][t]
           k == call'[c][t]
<1>13. PICK a : a = IF m.op = "Path" THEN n.cur ELSE Nil
  OBVIOUS
<1>0. TypeOK /\ ConnInv(c) /\ m \in Calls /\ HasObject /\ CallInv(c, t)
  BY CallType DEF RefInv, TrackInv, ConnInv
<1>1. /\ daemon /\ m.at = "found" /\ DefaultSelector(sel[c][m.obj], m, n)
      /\ UNCHANGED <<life, reported, got, selectors, daemon>>
      /\ k.op = m.op /\ k.arg = m.arg /\ k.ans = a
      /\ k.at \in {"deleting", "replied"}
  BY <1>0, <1>13 DEF Apply, Now, TypeOK, Calls, clientVars
<1>2. m.obj \in 1..MaxSels
  BY <1>0, <1>1, BoundAssumption DEF HasObject, Calls
<1>3. sel'[c][m.obj] = n /\ \A d \in Conns : d # c => sel'[d] = sel[d]
  BY <1>0, <1>2 DEF Apply, TypeOK
<1>4. \A d \in Conns, u \in Threads : d # c \/ u # t => call'[d][u] = call[d][u]
  <2>1. PICK x : Now(c, t, x)
    BY DEF Apply
  <2> QED BY <1>0, <2>1, OneCall
<1> HIDE DEF k
<1>5. ASSUME NEW d \in Conns, NEW u \in Threads, d # c \/ u # t
      PROVE  Seen(d, u)' = Seen(d, u)
  BY <1>1, <1>4, <1>5, SeenSame
<1>6. ASSUME NEW d \in Conns, d # c PROVE Object(d)' = Object(d)
  BY <1>1, <1>3, <1>6, ObjectSame
<1>7. CASE life[c] = "killed"
  <2>1. Seen(c, t)' = Seen(c, t)
    BY <1>1, <1>7, SeenIs, SeenNextIs
  <2>2. Object(c)' = Object(c)
    BY <1>1, <1>7 DEF Object
  <2>3. Pend' = Pend
    BY <1>5, <2>1, PendSame
  <2>4. Obj' = Obj
    BY <1>6, <2>2, ObjSame
  <2> QED BY <1>1, <2>3, <2>4 DEF Service!vars
<1>8. ASSUME life[c] # "killed"
      PROVE  /\ Pend[c][t].at = "pending" /\ Pend[c][t].op = m.op
             /\ Pend[c][t].arg = m.arg
             /\ Pend' = DoneWith(c, t, a)
  <2>1. Pend[c][t] = View(m, daemon) /\ Seen(c, t) = View(m, daemon)
    BY <1>1, <1>8, SeenNone, SeenIs
  <2>2. Seen(c, t)' = View(k, daemon)
    BY <1>1, <1>8, SeenNextIs DEF k
  <2>3. View(k, daemon) = [op |-> Seen(c, t).op, at |-> "done",
                           arg |-> Seen(c, t).arg, ans |-> a]
    BY <1>1, <2>1 DEF View
  <2>4. Pend' = [Pend EXCEPT ![c][t] = View(k, daemon)]
    BY <1>5, <2>2, PendOne
  <2>5. Pend' = DoneWith(c, t, a)
    BY <1>0, <2>3, <2>4, PendDone
  <2> QED BY <1>1, <2>1, <2>5 DEF View
<1>9. CASE life[c] \in {"closing", "closed"}
  <2>1. Obj' = Obj
    <3>1. Object(c)' = Object(c)
      BY <1>1, <1>9 DEF Object
    <3> QED BY <1>6, <3>1, ObjSame
  <2>2. a \in Fps \cup {Nil} /\ (a # Nil => m.op = "Path")
    BY <1>13 DEF Selectors
  <2>3. Service!LateEffect(c, t)
    BY <1>1, <1>8, <1>9, <2>1, <2>2 DEF Service!LateEffect, DoneWith
  <2> QED BY <2>3
<1>10. CASE life[c] \in {"dialing", "open"}
  <2>1. m.obj = selectors[c]
    BY <1>0, <1>1, <1>10 DEF ConnInv, DialingInv, OpenInv
  <2>2. Obj[c] = sel[c][m.obj] /\ Object(c)' = n
    BY <1>1, <1>2, <1>3, <1>10, <2>1 DEF Obj, Object
  <2>3. Service!Promise(sel[c][m.obj], m.op, m.arg, n)
    <3>1. CASE life[c] = "dialing"
      <4>1. m.op = "Initialize" /\ sel[c][m.obj].cur = Nil
        BY <1>0, <1>1, <1>2, <3>1 DEF ConnInv, DialingInv, Empty
      <4>2. Nil \notin m.arg
        BY <1>0, NilAssumption DEF Calls
      <4> QED BY <1>1, <4>1, <4>2 DEF DefaultSelector, Service!Promise
    <3>2. CASE life[c] = "open"
      <4>1. m.op # "Initialize" /\ sel[c][m.obj].cur \in sel[c][m.obj].paths
        BY <1>0, <1>1, <2>1, <3>2 DEF ConnInv, OpenInv, CallInv
      <4> QED BY <1>1, <4>1 DEF DefaultSelector, Service!Promise
    <3> QED BY <1>10, <3>1, <3>2
  <2>4. Obj' = [Obj EXCEPT ![c] = n]
    BY <1>6, <2>2, ObjOne
  <2>5. n \in [paths : SUBSET Fps, cur : Fps]
    <3>1. n.cur \in n.paths
      BY <2>3 DEF Service!Promise
    <3> QED BY <3>1 DEF Selectors
  <2> QED BY <1>1, <1>8, <1>10, <2>2, <2>3, <2>4, <2>5, <1>13
          DEF Service!Effect, DoneWith
<1>11. life[c] # "new"
  BY <1>0, <1>1 DEF ConnInv, NewInv
<1>12. life[c] \in Lives
  BY <1>0 DEF TypeOK
<1> QED BY <1>7, <1>9, <1>10, <1>11, <1>12 DEF Lives

LEMMA NextMaps == ~Overlap /\ RefInv /\ [Next]_vars => [Service!Next]_(Service!vars)
<1> SUFFICES ASSUME ~Overlap, RefInv, [Next]_vars
             PROVE  [Service!Next]_(Service!vars)
  OBVIOUS
<1>1. ASSUME NEW c \in Conns, BeginAction(c) PROVE Service!Next
  BY <1>1, BeginMaps
<1>2. ASSUME NEW c \in Conns, ClientRace(c) PROVE Service!Next
  <2>1. Service!Die(c)
    BY <1>2, ExitMaps DEF ClientRace
  <2> QED BY <2>1 DEF Service!Next
<1>3. ASSUME NEW c \in Conns, NEW t \in Threads, FailFatal(c, t) PROVE Service!Next
  <2>1. CallInv(c, t)
    BY DEF RefInv, ConnInv
  <2>2. call[c][t].at # "idle"
    BY <1>3, <2>1 DEF FailFatal, CallInv
  <2>3. Service!Die(c)
    BY <1>3, <2>2, ExitMaps DEF FailFatal
  <2> QED BY <2>3 DEF Service!Next
<1>4. ASSUME NEW c \in Conns, NEW t \in Threads, Return(c, t) \/ FailReported(c, t)
      PROVE  Service!Next \/ UNCHANGED Service!vars
  BY <1>4, ReturnMaps DEF Service!Next
<1>5. ASSUME NEW c \in Conns, NEW t \in Threads, NEW n \in Selectors, Apply(c, t, n)
      PROVE  Service!Next \/ UNCHANGED Service!vars
  BY <1>5, ApplyMaps DEF Service!Next
<1>6. ASSUME NEW c \in Conns, NEW t \in Threads,
             Lookup(c, t) \/ Make(c, t) \/ Enter(c, t) \/ Delete(c, t)
      PROVE  UNCHANGED Service!vars
  BY <1>6, StageStutters
<1>9. ASSUME NEW c \in Conns, NEW t \in Threads, Store(c, t)
      PROVE  Service!Next \/ UNCHANGED Service!vars
  BY <1>9, StoreMaps DEF Service!Next
<1>7. CASE ServerRace \/ Stop
  <2>1. Service!End
    BY <1>7, DownMaps DEF ServerRace, Stop
  <2> QED BY <2>1 DEF Service!Next
<1>8. CASE UNCHANGED vars
  <2>1. Pend' = Pend /\ Obj' = Obj
    BY <1>8 DEF vars, Pend, Obj, Seen, Object
  <2> QED BY <1>8, <2>1 DEF vars, Service!vars
<1> QED
  BY <1>1, <1>2, <1>3, <1>4, <1>5, <1>6, <1>7, <1>8, <1>9 DEF Next, BeginAction, Steps

\* If a program keeps SetPreferences out of Initiate, its calls behave, however
\* the handlers interleave and whenever a process ends, as calls of one path
\* object per connection on which each takes effect at once.
THEOREM ImplementsServiceHolds ==
    ASSUME ~Overlap
    PROVE  Spec => ImplementsService
<1>1. Init => Service!Init
  BY InitMaps
<1>2. RefInv /\ [Next]_vars => [Service!Next]_(Service!vars)
  BY NextMaps
<1> QED BY <1>1, <1>2, RefInvHolds, PTL DEF Spec, ImplementsService, Service!Spec

=============================================================================
