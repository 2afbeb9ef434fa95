-------------------------- MODULE TracerRPCProofs --------------------------
(***************************************************************************)
(* Proofs about TracerRPC, for any sessions, any script and any bound on   *)
(* the events of a session.                                                *)
(*                                                                         *)
(* The invariant is a conjunction over the sessions, since a step changes  *)
(* the call, the stage and what was told of one session at most.           *)
(***************************************************************************)
EXTENDS TracerRPC, TLAPS

\* The last report of s has been told.
Settled(s) == call[s] = Nothing \/ call[s].at = "answered"

\* s has reported its start.
Started(s) == \E i \in DOMAIN said[s] : said[s][i].ev = "StartedConnection"

Named(s) ==
    \A j \in DOMAIN said[s] :
        said[s][j].named <=> \E i \in 1..j : said[s][i].ev = "StartedConnection"

\* What the script has been told is what was reported, but for the report that is
\* under way or has failed.
SessionInv(s) ==
    /\ IF Settled(s) THEN said[s] = seen[s]
                     ELSE said[s] = Append(seen[s], Told(call[s].msg))
    /\ Named(s)
    /\ named[s] <=> Started(s)
    /\ stage[s] = "new" => ~Started(s)

TracerInv == TypeOK /\ \A s \in Sessions : SessionInv(s)

-----------------------------------------------------------------------------
(***************************************************************************)
(* Types.                                                                  *)
(***************************************************************************)
Answers == [at : {"sent", "lost", "locking", "answered", "refused"}, msg : Msgs]

LEMMA SentType ==
    ASSUME TypeOK, NEW s \in Sessions, call[s] # Nothing
    PROVE  call[s] \in Answers /\ Told(call[s].msg) \in Notices
<1>1. call[s] \in Answers
  BY DEF TypeOK, Calls, Answers
<1> QED BY <1>1 DEF Answers, Told, Notices, Msgs

\* What a call changes.
LEMMA CallType ==
    ASSUME TypeOK, NEW s \in Sessions, NEW ev \in Events, NEW known \in BOOLEAN,
           Call(s, ev, known)
    PROVE  /\ call' \in [Sessions -> Calls]
           /\ conn' \in {"up", "torn", "draining", "down"}
           /\ said' \in [Sessions -> Seq(Notices)]
           /\ UNCHANGED <<client, daemon, stuck, seen>>
<1>1. PICK full \in BOOLEAN :
          call' = [call EXCEPT ![s] =
                     [at |-> IF conn = "up" THEN "sent" ELSE "lost",
                      msg |-> [ev |-> ev, named |-> known, full |-> full]]]
  BY DEF Call
<1>2. [ev |-> ev, named |-> known, full |-> full] \in Msgs
  BY DEF Msgs
<1>3. [at |-> IF conn = "up" THEN "sent" ELSE "lost",
       msg |-> [ev |-> ev, named |-> known, full |-> full]] \in Calls
  BY <1>2 DEF Calls
<1>4. said' \in [Sessions -> Seq(Notices)]
  <2>1. [ev |-> ev, named |-> known] \in Notices
    BY DEF Notices
  <2>2. said \in [Sessions -> Seq(Notices)]
    BY DEF TypeOK
  <2>3. Append(said[s], [ev |-> ev, named |-> known]) \in Seq(Notices)
    BY <2>1, <2>2
  <2> QED BY <2>2, <2>3 DEF Call
<1>5. call' \in [Sessions -> Calls]
  BY <1>1, <1>3 DEF TypeOK
<1> QED BY <1>4, <1>5 DEF Call, TypeOK

LEMMA TellType ==
    ASSUME TypeOK, NEW s \in Sessions, Tell(s)
    PROVE  TypeOK'
<1>1. call[s] \in Answers /\ Told(call[s].msg) \in Notices
  BY SentType DEF Tell, Nothing
<1>2. \A a \in {"answered", "refused"} : [call[s] EXCEPT !.at = a] \in Calls
  BY <1>1 DEF Calls, Answers
<1>3. call' \in [Sessions -> Calls]
  BY <1>2 DEF Tell, TypeOK
<1>4. seen' \in [Sessions -> Seq(Notices)]
  <2>1. seen \in [Sessions -> Seq(Notices)]
    BY DEF TypeOK
  <2>2. Append(seen[s], Told(call[s].msg)) \in Seq(Notices)
    BY <1>1, <2>1
  <2>3. [seen EXCEPT ![s] = Append(@, Told(call[s].msg))] \in [Sessions -> Seq(Notices)]
    BY <2>1, <2>2
  <2> QED BY <2>1, <2>3 DEF Tell
<1> QED BY <1>3, <1>4 DEF Tell, TypeOK

LEMMA HandleType ==
    ASSUME TypeOK, NEW s \in Sessions, Handle(s)
    PROVE  TypeOK'
<1>1. call[s] \in Answers
  BY SentType DEF Handle, Nothing
<1>2. \A a \in {"locking", "refused"} : [call[s] EXCEPT !.at = a] \in Calls
  BY <1>1 DEF Calls, Answers
<1>3. call' \in [Sessions -> Calls]
  BY <1>2 DEF Handle, TypeOK
<1> QED BY <1>3 DEF Handle, TypeOK

LEMMA InitType == Init => TypeOK
<1> SUFFICES ASSUME Init PROVE TypeOK
  OBVIOUS
<1>1. <<>> \in Seq(Notices) /\ Nothing \in Calls
  BY DEF Calls
<1>2. daemon \in BOOLEAN /\ stuck \in BOOLEAN
  BY Zenon DEF Init
<1> QED BY <1>1, <1>2, BoundAssumption DEF Init, TypeOK, Stages

\* Every event a session reports is a call.
LEMMA TracerCalls ==
    ASSUME TypeOK, NEW s \in Sessions, Tracer(s)
    PROVE  \E ev \in Events, known \in BOOLEAN :
             /\ Call(s, ev, known)
             /\ stage[s] # "Close"
             /\ \/ ev = "TracerForConnection" /\ stage[s] = "new" /\ ~known /\ named' = named
                \/ ev = "StartedConnection" /\ known /\ named' = [named EXCEPT ![s] = TRUE]
                \/ ev \notin Opening /\ known = named[s] /\ named' = named
             /\ stage' \in [Sessions -> Stages]
             /\ named' \in [Sessions -> BOOLEAN]
             /\ left' \in [Sessions -> 0..MaxPlain]
             /\ stage[s] # "new" => stage'[s] # "new"
             /\ ev \in Opening => stage'[s] # "new"
             /\ \A t \in Sessions : t # s => stage'[t] = stage[t]
<1> USE BoundAssumption DEF Stages
<1>1. /\ Events = {"TracerForConnection", "StartedConnection", "Plain", "SetLossTimer",
                   "Debug", "ClosedConnection", "Close"}
      /\ Opening = {"TracerForConnection", "StartedConnection"}
      /\ Running = {"Plain", "SetLossTimer", "Debug"}
  BY DEF Events, Opening, Running, Closing
<1>2. named[s] \in BOOLEAN
  BY DEF TypeOK
<1>3. CASE NewConnectionTracerClient(s)
  BY <1>1, <1>3 DEF NewConnectionTracerClient, TypeOK
<1>4. CASE StartedConnection(s)
  <2>1. named' \in [Sessions -> BOOLEAN]
    BY <1>4 DEF StartedConnection, TypeOK
  <2> QED BY <1>1, <1>4, <2>1 DEF StartedConnection, TypeOK
<1>5. ASSUME NEW ev \in Running, Report(s, ev)
      PROVE  /\ Call(s, ev, named[s]) /\ ev \in Events /\ ev \notin Opening
             /\ left' \in [Sessions -> 0..MaxPlain] /\ UNCHANGED <<stage, named>>
             /\ stage[s] # "Close"
  BY <1>1, <1>5 DEF Report, TypeOK
<1>6. CASE PlainEvent(s) \/ SetLossTimer(s) \/ Debug(s)
  <2>1. PICK ev \in Running : Report(s, ev)
    BY <1>1, <1>6 DEF PlainEvent, SetLossTimer, Debug
  <2> QED BY <1>2, <1>5, <2>1 DEF TypeOK
<1>7. CASE ClosedConnection(s)
  BY <1>1, <1>2, <1>7 DEF ClosedConnection, TypeOK
<1>8. CASE Close(s)
  BY <1>1, <1>2, <1>8 DEF Close, TypeOK
<1> QED BY <1>3, <1>4, <1>6, <1>7, <1>8 DEF Tracer

LEMMA NextType == TypeOK /\ [Next]_vars => TypeOK'
<1> SUFFICES ASSUME TypeOK, [Next]_vars PROVE TypeOK'
  OBVIOUS
<1>1. CASE UNCHANGED vars
  BY <1>1 DEF vars, TypeOK
<1>2. ASSUME NEW s \in Sessions, Tracer(s) PROVE TypeOK'
  <2>1. PICK ev \in Events, known \in BOOLEAN :
          /\ Call(s, ev, known)
          /\ stage' \in [Sessions -> Stages]
          /\ named' \in [Sessions -> BOOLEAN]
          /\ left' \in [Sessions -> 0..MaxPlain]
    BY <1>2, TracerCalls
  <2>2. /\ call' \in [Sessions -> Calls]
        /\ conn' \in {"up", "torn", "draining", "down"}
        /\ said' \in [Sessions -> Seq(Notices)]
        /\ UNCHANGED <<client, daemon, stuck, seen>>
    BY <2>1, CallType
  <2> QED BY <2>1, <2>2 DEF TypeOK
<1>3. ASSUME NEW s \in Sessions, Steps(s) PROVE TypeOK'
  <2>1. CASE Return(s)
    <3>1. Nothing \in Calls
      BY DEF Calls
    <3> QED BY <2>1, <3>1 DEF Return, TypeOK
  <2>2. CASE Fatal(s)
    BY <2>2 DEF Fatal, TypeOK
  <2>3. CASE Handle(s) \/ Tell(s)
    BY <2>3, HandleType, TellType
  <2>4. CASE Panic(s)
    BY <2>4 DEF Panic, DaemonExits, TypeOK
  <2> QED BY <1>3, <2>1, <2>2, <2>3, <2>4 DEF Steps
<1>4. CASE StrayPacket \/ CloseClient \/ Spin \/ Stop \/ Drain
  BY <1>4 DEF StrayPacket, CloseClient, Spin, Stop, Drain, DaemonExits, TypeOK
<1> QED BY <1>1, <1>2, <1>3, <1>4 DEF Next

\* The state of the tracers, of their connection and of what the script has been
\* told is well typed.
THEOREM TypeCorrect == Spec => []TypeOK
BY InitType, NextType, PTL DEF Spec

-----------------------------------------------------------------------------
(***************************************************************************)
(* Sessions.  A step that leaves the session alone leaves its part of the  *)
(* invariant alone.                                                        *)
(***************************************************************************)
LEMMA SessionKept ==
    ASSUME NEW s \in Sessions, SessionInv(s),
           stage'[s] = stage[s], named'[s] = named[s], said'[s] = said[s],
           call'[s] = call[s], seen'[s] = seen[s]
    PROVE  SessionInv(s)'
BY DEF SessionInv, Named, Settled, Started

\* So does one that only ends the wait for an answer.
LEMMA SessionReturned ==
    ASSUME NEW s \in Sessions, SessionInv(s), call[s].at = "answered",
           stage'[s] = stage[s], named'[s] = named[s], said'[s] = said[s],
           call'[s] = Nothing, seen'[s] = seen[s]
    PROVE  SessionInv(s)'
BY DEF SessionInv, Named, Settled, Started

\* The last element of a longer sequence.
LEMMA Longer ==
    ASSUME NEW S, NEW q \in Seq(S), NEW e \in S
    PROVE  /\ DOMAIN q = 1..Len(q) /\ Len(q) \in Nat
           /\ DOMAIN Append(q, e) = 1..(Len(q) + 1)
           /\ \A i \in 1..Len(q) : Append(q, e)[i] = q[i]
           /\ Append(q, e)[Len(q) + 1] = e
OBVIOUS

\* A new report follows what was reported, all of which has been told.
LEMMA SessionCalls ==
    ASSUME TypeOK, NEW s \in Sessions, SessionInv(s), Tracer(s)
    PROVE  SessionInv(s)'
<1>1. PICK ev \in Events, known \in BOOLEAN :
          /\ Call(s, ev, known)
          /\ \/ ev = "TracerForConnection" /\ stage[s] = "new" /\ ~known /\ named' = named
             \/ ev = "StartedConnection" /\ known /\ named' = [named EXCEPT ![s] = TRUE]
             \/ ev \notin Opening /\ known = named[s] /\ named' = named
          /\ stage[s] # "new" => stage'[s] # "new"
          /\ ev \in Opening => stage'[s] # "new"
  BY TracerCalls
<1> DEFINE old == said[s]
           e == [ev |-> ev, named |-> known]
           n == Len(old)
<1>2. /\ old \in Seq(Notices) /\ e \in Notices
      /\ said'[s] = Append(old, e) /\ seen' = seen
      /\ e.ev = ev /\ e.named = known
  BY <1>1 DEF Call, TypeOK, Notices
<1>3. PICK full \in BOOLEAN :
          call'[s] = [at |-> IF conn = "up" THEN "sent" ELSE "lost",
                      msg |-> [ev |-> ev, named |-> known, full |-> full]]
  BY <1>1 DEF Call, TypeOK
<1>4. ~Settled(s)' /\ Told(call'[s].msg) = e
  BY <1>3 DEF Settled, Nothing, Told
<1>5. old = seen[s]
  BY <1>1 DEF SessionInv, Settled, Call
<1> HIDE DEF old, e
<1>6. /\ DOMAIN old = 1..n /\ n \in Nat
      /\ DOMAIN said'[s] = 1..(n + 1)
      /\ \A i \in 1..n : said'[s][i] = old[i]
      /\ said'[s][n + 1] = e
  BY <1>2, Longer
<1> HIDE DEF n
<1>7. Started(s)' <=> Started(s) \/ ev = "StartedConnection"
  BY <1>2, <1>6 DEF Started, old
<1>8. named'[s] <=> Started(s)'
  <2>1. named[s] <=> Started(s)
    BY DEF SessionInv
  <2>2. ev = "StartedConnection" => named'[s]
    BY <1>1 DEF TypeOK, Opening
  <2>3. ev # "StartedConnection" => named'[s] = named[s]
    BY <1>1
  <2> QED BY <1>7, <2>1, <2>2, <2>3
<1>9. known <=> named'[s]
  <2>1. stage[s] = "new" => ~named[s]
    BY DEF SessionInv
  <2> QED BY <1>1, <2>1 DEF TypeOK
<1>10. Named(s)'
  <2> SUFFICES ASSUME NEW j \in 1..(n + 1)
               PROVE  said'[s][j].named <=>
                        \E i \in 1..j : said'[s][i].ev = "StartedConnection"
    BY <1>6 DEF Named
  <2>1. CASE j \in 1..n
    <3>1. \A i \in 1..j : said'[s][i] = old[i]
      BY <1>6, <2>1
    <3> QED BY <1>6, <2>1, <3>1 DEF SessionInv, Named, old
  <2>2. CASE j = n + 1
    <3>1. Started(s)' <=> \E i \in 1..j : said'[s][i].ev = "StartedConnection"
      BY <1>6, <2>2 DEF Started
    <3> QED BY <1>2, <1>6, <1>8, <1>9, <2>2, <3>1
  <2>3. j \in 1..n \/ j = n + 1
    BY <1>6
  <2> QED BY <2>1, <2>2, <2>3
<1>11. said'[s] = Append(seen'[s], Told(call'[s].msg))
  BY <1>2, <1>4, <1>5
<1>12. stage'[s] = "new" => ~Started(s)'
  BY <1>1, <1>7 DEF SessionInv, Opening
<1> QED BY <1>4, <1>8, <1>10, <1>11, <1>12 DEF SessionInv

\* A handler ends: the report has been told, or has not and is refused.
LEMMA SessionHandled ==
    ASSUME TypeOK, NEW s \in Sessions, SessionInv(s), Handle(s) \/ Tell(s)
    PROVE  SessionInv(s)'
<1>1. /\ UNCHANGED <<stage, named, said>>
      /\ call[s] \in Answers
      /\ ~Settled(s)
  <2>1. call[s].at \in {"sent", "locking"} /\ UNCHANGED <<stage, named, said>>
    BY DEF Handle, Tell
  <2>2. call[s] # Nothing
    BY <2>1 DEF Nothing
  <2> QED BY <2>1, <2>2, SentType DEF Settled
<1>2. said[s] = Append(seen[s], Told(call[s].msg))
  BY <1>1 DEF SessionInv
<1>3. CASE /\ seen'[s] = seen[s] /\ call'[s].msg = call[s].msg
           /\ call'[s].at \in {"locking", "refused"}
  <2>1. ~Settled(s)'
    BY <1>3 DEF Settled, Nothing
  <2> QED BY <1>1, <1>2, <1>3, <2>1 DEF SessionInv, Named, Started
<1>4. CASE /\ seen'[s] = Append(seen[s], Told(call[s].msg)) /\ call'[s].at = "answered"
  BY <1>1, <1>2, <1>4 DEF SessionInv, Named, Started, Settled
<1>5. CASE Handle(s)
  <2>1. /\ seen'[s] = seen[s] /\ call'[s].msg = call[s].msg
        /\ call'[s].at \in {"locking", "refused"}
    BY <1>1, <1>5 DEF Handle, TypeOK, Answers
  <2> QED BY <1>3, <2>1
<1>6. CASE Tell(s)
  <2>1. CASE Callable(call[s].msg.ev)
    <3>1. /\ seen'[s] = Append(seen[s], Told(call[s].msg)) /\ call'[s].at = "answered"
      BY <1>1, <1>6, <2>1 DEF Tell, TypeOK, Answers
    <3> QED BY <1>4, <3>1
  <2>2. CASE ~Callable(call[s].msg.ev)
    <3>1. /\ seen'[s] = seen[s] /\ call'[s].msg = call[s].msg
          /\ call'[s].at = "refused"
      BY <1>1, <1>6, <2>2 DEF Tell, TypeOK, Answers
    <3> QED BY <1>3, <3>1
  <2> QED BY <2>1, <2>2
<1> QED BY <1>5, <1>6

LEMMA InitInv == Init => TracerInv
<1> SUFFICES ASSUME Init PROVE TracerInv
  OBVIOUS
<1>1. ASSUME NEW s \in Sessions PROVE SessionInv(s)
  <2>1. seen[s] = <<>> /\ said[s] = <<>> /\ call[s] = Nothing /\ ~named[s]
    BY DEF Init
  <2>2. DOMAIN said[s] = {}
    BY <2>1
  <2> QED BY <2>1, <2>2 DEF SessionInv, Named, Settled, Started
<1> QED BY <1>1, InitType DEF TracerInv

\* Every step changes one session at most, in one of the ways above.
LEMMA NextInv == TracerInv /\ [Next]_vars => TracerInv'
<1> SUFFICES ASSUME TracerInv, [Next]_vars PROVE TracerInv'
  OBVIOUS
<1>1. TypeOK /\ TypeOK'
  BY NextType DEF TracerInv
<1> SUFFICES ASSUME NEW t \in Sessions PROVE SessionInv(t)'
  BY <1>1 DEF TracerInv
<1>2. SessionInv(t)
  BY DEF TracerInv
<1> DEFINE Kept(u) == /\ stage'[u] = stage[u] /\ named'[u] = named[u]
                     /\ said'[u] = said[u]
                     /\ call'[u] = call[u] /\ seen'[u] = seen[u]
<1>3. Kept(t) => SessionInv(t)'
  BY <1>2, SessionKept
<1>4. CASE UNCHANGED vars
  BY <1>3, <1>4 DEF vars
<1>5. ASSUME NEW s \in Sessions, Tracer(s) PROVE SessionInv(t)'
  <2>1. CASE s # t
    <3>1. Kept(t)
      <4>1. PICK ev \in Events, known \in BOOLEAN :
              /\ Call(s, ev, known)
              /\ stage'[t] = stage[t]
              /\ named' = named \/ named' = [named EXCEPT ![s] = TRUE]
        BY <1>1, <1>5, <2>1, TracerCalls
      <4> QED BY <1>1, <2>1, <4>1 DEF Call, TypeOK
    <3> QED BY <1>3, <3>1
  <2>2. CASE s = t
    BY <1>1, <1>2, <1>5, <2>2, SessionCalls
  <2> QED BY <2>1, <2>2
<1>6. ASSUME NEW s \in Sessions, Steps(s) PROVE SessionInv(t)'
  <2>1. CASE Fatal(s) \/ Panic(s)
    BY <1>3, <2>1 DEF Fatal, Panic, DaemonExits
  <2>2. CASE s # t /\ (Return(s) \/ Handle(s) \/ Tell(s))
    <3>1. Kept(t)
      BY <1>1, <2>2 DEF Return, Handle, Tell, TypeOK
    <3> QED BY <1>3, <3>1
  <2>3. CASE s = t /\ Return(s)
    BY <1>1, <1>2, <2>3, SessionReturned DEF Return, TypeOK
  <2>4. CASE s = t /\ (Handle(s) \/ Tell(s))
    BY <1>1, <1>2, <2>4, SessionHandled
  <2> QED BY <1>6, <2>1, <2>2, <2>3, <2>4 DEF Steps
<1>7. CASE StrayPacket \/ CloseClient \/ Spin \/ Stop \/ Drain
  BY <1>3, <1>7 DEF StrayPacket, CloseClient, Spin, Stop, Drain, DaemonExits
<1> QED BY <1>4, <1>5, <1>6, <1>7 DEF Next

LEMMA InvHolds == Spec => []TracerInv
BY InitInv, NextInv, PTL DEF Spec

-----------------------------------------------------------------------------
\* What the script has been told is what was reported, or all but the last of it.
LEMMA Lags ==
    ASSUME TracerInv, NEW s \in Sessions
    PROVE  /\ Len(said[s]) \in {Len(seen[s]), Len(seen[s]) + 1}
           /\ DOMAIN seen[s] \subseteq DOMAIN said[s]
           /\ \A i \in DOMAIN seen[s] : seen[s][i] = said[s][i]
           /\ DOMAIN seen[s] = 1..Len(seen[s])
<1>1. TypeOK /\ SessionInv(s)
  BY DEF TracerInv
<1>2. seen[s] \in Seq(Notices)
  BY <1>1 DEF TypeOK
<1>3. CASE Settled(s)
  BY <1>1, <1>2, <1>3 DEF SessionInv
<1>4. CASE ~Settled(s)
  <2>1. Told(call[s].msg) \in Notices
    BY <1>1, <1>4, SentType DEF Settled
  <2>2. said[s] = Append(seen[s], Told(call[s].msg))
    BY <1>1, <1>4 DEF SessionInv
  <2> QED BY <1>2, <2>1, <2>2, Longer
<1> QED BY <1>3, <1>4

\* The script hears of every session what was reported and in that order,
\* whatever the other sessions report and wherever a call fails.
THEOREM InOrderHolds == Spec => []InOrder
<1>1. TracerInv => InOrder
  BY Lags DEF InOrder
<1> QED BY <1>1, InvHolds, PTL

\* An event reaches the script under its addresses exactly if the script has
\* heard of the session's start.
THEOREM NamedOnceStartedHolds == Spec => []NamedOnceStarted
<1>1. TracerInv => NamedOnceStarted
  <2> SUFFICES ASSUME TracerInv, NEW s \in Sessions, NEW j \in DOMAIN seen[s]
               PROVE  seen[s][j].named <=>
                        \E i \in 1..j : seen[s][i].ev = "StartedConnection"
    BY DEF NamedOnceStarted
  <2>1. /\ \A i \in DOMAIN seen[s] : i \in DOMAIN said[s] /\ seen[s][i] = said[s][i]
        /\ DOMAIN seen[s] = 1..Len(seen[s])
    BY Lags
  <2>2. 1..j \subseteq DOMAIN seen[s]
    <3>1. seen[s] \in Seq(Notices)
      BY DEF TracerInv, TypeOK
    <3> QED BY <2>1, <3>1
  <2>3. \A i \in 1..j : seen[s][i] = said[s][i]
    BY <2>1, <2>2
  <2>4. said[s][j].named <=> \E i \in 1..j : said[s][i].ev = "StartedConnection"
    BY <2>1 DEF TracerInv, SessionInv, Named
  <2> QED BY <2>1, <2>3, <2>4
<1> QED BY <1>1, InvHolds, PTL

\* Every tracer method that has returned in a process that runs has told the
\* script, whichever event it reported.
THEOREM NothingLostHolds == Spec => []NothingLost
<1>1. TracerInv => NothingLost
  BY DEF TracerInv, SessionInv, Settled, NothingLost
<1> QED BY <1>1, InvHolds, PTL

-----------------------------------------------------------------------------
(***************************************************************************)
(* What a process needs in order to survive its own reports.               *)
(***************************************************************************)

\* Every report under way is whole and neither lost nor refused, and the shared
\* client is closed only when no session has anything left to report.
Unharmed ==
    /\ client = "running"
    /\ \A s \in Sessions : call[s] # Nothing =>
           call[s].at \in {"sent", "locking", "answered"} /\ call[s].msg.full
    /\ \/ conn = "up"
       \/ conn = "down" /\ \A s \in Sessions : stage[s] = "Close" /\ call[s] = Nothing

\* A report is sent whole, on a connection that is up.
LEMMA CallUnharmed ==
    ASSUME ~Zero, TypeOK, Unharmed, NEW s \in Sessions, stage[s] # "Close",
           NEW ev, NEW known, Call(s, ev, known)
    PROVE  Unharmed'
<1>1. conn = "up" /\ conn' = "up" /\ client' = "running"
  BY DEF Unharmed, Call
<1>2. call' = [call EXCEPT ![s] =
                 [at |-> "sent", msg |-> [ev |-> ev, named |-> known, full |-> TRUE]]]
  BY <1>1 DEF Call
<1>3. ASSUME NEW t \in Sessions, call'[t] # Nothing
      PROVE  call'[t].at \in {"sent", "locking", "answered"} /\ call'[t].msg.full
  <2>1. CASE t = s
    BY <1>2, <2>1 DEF TypeOK
  <2>2. CASE t # s
    BY <1>2, <1>3, <2>2 DEF TypeOK, Unharmed
  <2> QED BY <2>1, <2>2
<1> QED BY <1>1, <1>3 DEF Unharmed

\* A handler answers a whole report, whatever its event, if the script has the
\* one function NewStats makes no stub for.
LEMMA HandleUnharmed ==
    ASSUME "Close" \in Script, TypeOK, Unharmed, NEW s \in Sessions,
           Handle(s) \/ Tell(s)
    PROVE  Unharmed'
<1>1. call[s] # Nothing /\ call[s].msg.full
  BY DEF Handle, Tell, Unharmed, Nothing
<1>2. call[s] \in Answers
  BY <1>1, SentType
<1>3. Callable(call[s].msg.ev) /\ ~Derefs(call[s].msg)
  BY <1>1, <1>2 DEF Callable, Derefs, Msgs, Answers
<1>4. PICK a \in {"locking", "answered"} : call' = [call EXCEPT ![s].at = a]
  BY <1>3 DEF Handle, Tell
<1>5. conn = "up"
  BY <1>1 DEF Unharmed
<1>6. ASSUME NEW t \in Sessions, call'[t] # Nothing
      PROVE  call'[t].at \in {"sent", "locking", "answered"} /\ call'[t].msg.full
  <2>1. CASE t = s
    BY <1>1, <1>2, <1>4, <2>1 DEF TypeOK, Answers
  <2>2. CASE t # s
    BY <1>4, <1>6, <2>2 DEF TypeOK, Unharmed
  <2> QED BY <2>1, <2>2
<1> QED BY <1>5, <1>6 DEF Handle, Tell, Unharmed

\* Reporting never ends the process of a script that has stats.Close, when no
\* report carries a zero value behind a pointer, no stray packet is reported,
\* the daemon is not stopped, and a session dialled with the SelectorClient is
\* the only one of its process.  The run tracer_stub has all of it but the
\* function: the stub NewStats does not register (stats.go) is what it lacks.
THEOREM NeverKilledHolds ==
    ASSUME "Close" \in Script, ~Zero, ~Stray, ~Stops,
           \A s \in Dialled : Sessions = {s}
    PROVE  Spec => []NeverKilled
<1>1. Init => Unharmed
  BY DEF Init, Unharmed
<1>2. TypeOK /\ Unharmed /\ [Next]_vars => Unharmed'
  <2> SUFFICES ASSUME TypeOK, Unharmed, [Next]_vars PROVE Unharmed'
    OBVIOUS
  <2>1. CASE UNCHANGED vars
    BY <2>1 DEF vars, Unharmed
  <2>2. ASSUME NEW s \in Sessions, Tracer(s) PROVE Unharmed'
    <3>1. PICK ev, known : Call(s, ev, known) /\ stage[s] # "Close"
      BY <2>2, TracerCalls
    <3> QED BY <3>1, CallUnharmed
  <2>3. ASSUME NEW s \in Sessions, Return(s) PROVE Unharmed'
    <3>1. call[s] # Nothing
      BY <2>3 DEF Return, Nothing
    <3> QED BY <2>3, <3>1 DEF Return, Unharmed, TypeOK
  <2>4. ASSUME NEW s \in Sessions, Fatal(s) PROVE FALSE
    BY <2>4 DEF Fatal, Unharmed, Nothing
  <2>5. ASSUME NEW s \in Sessions, Handle(s) \/ Tell(s) PROVE Unharmed'
    BY <2>5, HandleUnharmed
  <2>6. ASSUME NEW s \in Sessions, Panic(s) PROVE FALSE
    BY <2>6 DEF Panic, Panics, Unharmed, Nothing
  <2>7. CASE CloseClient
    <3>1. \A t \in Sessions : stage[t] = "Close" /\ call[t] = Nothing
      BY <2>7, DialledAssumption DEF CloseClient
    <3> QED BY <2>7, <3>1 DEF CloseClient, Unharmed
  <2>8. ~Drain
    BY DEF Drain, Unharmed
  <2>9. CASE Spin
    BY <2>9 DEF Spin, Unharmed
  <2> QED BY <2>1, <2>2, <2>3, <2>4, <2>5, <2>6, <2>7, <2>8, <2>9
          DEF Next, Steps, StrayPacket, Stop
<1>3. Unharmed => NeverKilled
  BY DEF Unharmed, NeverKilled
<1> QED BY <1>1, <1>2, <1>3, TypeCorrect, PTL DEF Spec
=============================================================================
