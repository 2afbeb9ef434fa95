----------------------------- MODULE TapsProofs -----------------------------
(***************************************************************************)
(* Proofs about Taps, for any number of listeners, clients and addresses.  *)
(***************************************************************************)
EXTENDS Taps, TLAPS

LisType == [on : {"new", "open", "closed"}, addr : Addrs \cup {Nil},
            p : Objects \cup {Nil}]
AccType == [in : {"accept", "stream", "returned"}, peer : Clients \cup {Nil}]

ApiType ==
    /\ pre \in [Objects -> Preconnections]
    /\ given \in Preconnections
    /\ lis \in [Listeners -> LisType]
    /\ queue \in [Listeners -> Seq(Clients)]
    /\ acc \in [Listeners -> [Loops -> AccType]]
    /\ server \in {"up", "dead"}

ClientType ==
    /\ app \in Examples
    /\ client \in [Clients -> {"new", "up", "closed", "failed", "gone"}]
    /\ session \in [Clients -> {"none", "up", "over"}]
    /\ via \in [Clients -> Listeners \cup {Nil}]

DataType ==
    /\ at \in [Ends -> [Clients -> 0..2]]
    /\ wire \in [Ends -> [Clients -> Nat]]
    /\ sent \in [Clients -> 0..Messages]

\* A worker is at a step of its program.
Position == \A e \in Ends, c \in Clients : at[e][c] <= Len(Steps(e))

\* A goroutine that has left Accept knows its peer.
PeerKnown ==
    \A l \in Listeners, g \in Loops :
        acc[l][g].in # "accept" => acc[l][g].peer \in Clients

TypeInv == ApiType /\ ClientType /\ DataType /\ Position /\ PeerKnown

LEMMA TypeSplit == TypeOK <=> ApiType /\ ClientType /\ DataType
BY DEF TypeOK, ApiType, ClientType, DataType, LisType, AccType

-----------------------------------------------------------------------------
(***************************************************************************)
(* Types.                                                                  *)
(***************************************************************************)
LEMMA CopyType == ASSUME NEW p \in Preconnections
                  PROVE  Copy(p) = p
BY DEF Copy, Preconnections

LEMMA LoopType ==
    ASSUME ApiType, NEW l \in Listeners, NEW g \in Loops,
           NEW in \in {"accept", "stream", "returned"}, NEW c \in Clients \cup {Nil},
           Loop(l, g, in, c)
    PROVE  /\ acc' \in [Listeners -> [Loops -> AccType]]
           /\ acc'[l][g] = [in |-> in, peer |-> c]
           /\ \A k \in Listeners, h \in Loops : k # l \/ h # g => acc'[k][h] = acc[k][h]
BY DEF Loop, ApiType, AccType

LEMMA LoopPeer ==
    ASSUME ApiType, PeerKnown, NEW l \in Listeners, NEW g \in Loops,
           NEW in \in {"accept", "stream", "returned"}, NEW c \in Clients \cup {Nil},
           in # "accept" => c \in Clients,
           Loop(l, g, in, c)
    PROVE  PeerKnown'
<1>1. /\ acc'[l][g] = [in |-> in, peer |-> c]
      /\ \A k \in Listeners, h \in Loops : k # l \/ h # g => acc'[k][h] = acc[k][h]
  BY LoopType
<1> SUFFICES ASSUME NEW k \in Listeners, NEW h \in Loops, acc'[k][h].in # "accept"
             PROVE  acc'[k][h].peer \in Clients
  BY DEF PeerKnown
<1>2. CASE k = l /\ h = g
  BY <1>1, <1>2
<1>3. CASE k # l \/ h # g
  BY <1>1, <1>3 DEF PeerKnown
<1> QED BY <1>2, <1>3

LEMMA StepsLength ==
    ASSUME app \in Programs, NEW e \in Ends
    PROVE  Len(Steps(e)) \in 1..2
BY DEF Steps, Programs, Ends, concurrent, pingpong, capacityseeker

LEMMA StepsSame ==
    ASSUME app' = app, NEW e \in Ends
    PROVE  Steps(e)' = Steps(e)
BY DEF Steps

LEMMA AdvanceType ==
    ASSUME ClientType, DataType, Position, app' = app,
           NEW e \in Ends, NEW c \in Clients, Advance(e, c)
    PROVE  at' \in [Ends -> [Clients -> 0..2]] /\ Position'
<1> DEFINE n == IF at[e][c] = Len(Steps(e)) THEN 1 ELSE at[e][c] + 1
<1>1. app \in Programs
  BY ExamplesAssumption DEF ClientType
<1>2. \A d \in Ends : Len(Steps(d)) \in 1..2 /\ Steps(d)' = Steps(d)
  BY <1>1, StepsLength, StepsSame
<1>3. n \in 0..2 /\ n <= Len(Steps(e))
  <2> DEFINE m == Len(Steps(e))
             k == at[e][c]
  <2>1. k \in 0..2 /\ k <= m /\ m \in 1..2
    BY <1>2 DEF DataType, Position
  <2>2. n = IF k = m THEN 1 ELSE k + 1
    OBVIOUS
  <2> HIDE DEF m, k, n
  <2>3. n \in 0..2 /\ n <= m
    BY <2>1, <2>2
  <2> QED BY <2>3 DEF m
<1>4. at' = [at EXCEPT ![e][c] = n]
  BY DEF Advance, DataType
<1> HIDE DEF n
<1>5. at' \in [Ends -> [Clients -> 0..2]]
  BY <1>3, <1>4 DEF DataType
<1>6. \A d \in Ends, k \in Clients : at'[d][k] = at[d][k] \/ (d = e /\ at'[d][k] = n)
  BY <1>4 DEF DataType
<1> QED BY <1>2, <1>3, <1>5, <1>6 DEF Position

\* Giving a worker its first step, or none.
LEMMA PlaceType ==
    ASSUME ClientType, DataType, Position, app' = app,
           NEW e \in Ends, NEW c \in Clients, NEW n \in {0, 1},
           at' = [at EXCEPT ![e][c] = n]
    PROVE  at' \in [Ends -> [Clients -> 0..2]] /\ Position'
<1>1. app \in Programs
  BY ExamplesAssumption DEF ClientType
<1>2. \A d \in Ends : Len(Steps(d)) \in 1..2 /\ Steps(d)' = Steps(d)
  BY <1>1, StepsLength, StepsSame
<1>3. at' \in [Ends -> [Clients -> 0..2]]
  BY DEF DataType
<1>4. \A d \in Ends, k \in Clients : at'[d][k] = at[d][k] \/ at'[d][k] = n
  BY DEF DataType
<1> QED BY <1>2, <1>3, <1>4 DEF Position

LEMMA PositionSame ==
    ASSUME Position, app' = app, at' = at
    PROVE  Position'
BY StepsSame DEF Position

LEMMA EndType ==
    ASSUME ClientType, DataType, Position, app' = app, UNCHANGED <<via, sent>>,
           NEW e \in Ends, NEW c \in Clients,
           at' = [at EXCEPT ![e][c] = 0],
           wire' \in {wire, [d \in Ends |-> [wire[d] EXCEPT ![c] = 0]]},
           session' \in {session, [session EXCEPT ![c] = "over"]},
           client' \in {client, [client EXCEPT ![c] = "closed"],
                        [client EXCEPT ![c] = "failed"]}
    PROVE  ClientType' /\ DataType' /\ Position'
<1>1. at' \in [Ends -> [Clients -> 0..2]] /\ Position'
  BY PlaceType
<1>2. wire' \in [Ends -> [Clients -> Nat]]
  BY DEF DataType
<1>3. session' \in [Clients -> {"none", "up", "over"}]
  BY DEF ClientType
<1>4. client' \in [Clients -> {"new", "up", "closed", "failed", "gone"}]
  BY DEF ClientType
<1> QED BY <1>1, <1>2, <1>3, <1>4 DEF ClientType, DataType

LEMMA InitType == Init => TypeInv
<1> SUFFICES ASSUME Init PROVE TypeInv
  OBVIOUS
<1>1. Blank \in Preconnections /\ Accepting \in AccType /\ <<>> \in Seq(Clients)
  BY DEF Blank, Preconnections, Accepting, AccType
<1>2. ApiType
  BY <1>1 DEF Init, ApiType, LisType
<1>3. ClientType /\ DataType
  BY MessagesAssumption DEF Init, ClientType, DataType
<1>4. Position
  BY <1>3, ExamplesAssumption, StepsLength DEF Init, Position, ClientType
<1>5. PeerKnown
  BY DEF Init, PeerKnown, Accepting
<1> QED BY <1>2, <1>3, <1>4, <1>5 DEF TypeInv

\* The server's steps.
LEMMA ServerType ==
    ASSUME TypeInv,
           \/ \E a \in Addrs : Specify(a)
           \/ \E l \in Listeners : Listen(l) \/ CloseListener(l)
    PROVE  TypeInv'
<1> USE DEF TypeInv
<1>1. ASSUME NEW a \in Addrs, Specify(a) PROVE TypeInv'
  <2>1. ApiType'
    BY <1>1 DEF Specify, ApiType, Objects, Preconnections
  <2>2. ClientType' /\ DataType' /\ PeerKnown'
    BY <1>1 DEF Specify, ClientType, DataType, PeerKnown, dataVars
  <2>3. Position'
    BY <1>1, PositionSame DEF Specify, dataVars
  <2> QED BY <2>1, <2>2, <2>3
<1>2. ASSUME NEW l \in Listeners, Listen(l) PROVE TypeInv'
  <2>1. pre' \in [Objects -> Preconnections] /\ lis' \in [Listeners -> LisType]
    <3>1. CASE UNCHANGED <<pre, lis>>
      BY <3>1 DEF ApiType
    <3>2. CASE NewListener(l)
      <4>1. pre["app"] \in Preconnections /\ Copy(pre["app"]) \in Preconnections
        BY CopyType DEF ApiType, Objects
      <4>2. pre' \in [Objects -> Preconnections]
        BY <3>2, <4>1 DEF NewListener, ApiType
      <4>3. [on |-> "open", addr |-> pre["app"].local, p |-> Kept(l)] \in LisType
        BY <4>1 DEF LisType, Kept, Objects, Preconnections
      <4>4. lis' \in [Listeners -> LisType]
        BY <3>2, <4>3 DEF NewListener, ApiType
      <4> QED BY <4>2, <4>4
    <3> QED BY <1>2, <3>1, <3>2 DEF Listen
  <2>2. ApiType'
    BY <1>2, <2>1 DEF Listen, ApiType
  <2>3. ClientType' /\ DataType' /\ PeerKnown'
    BY <1>2 DEF Listen, ClientType, DataType, PeerKnown, dataVars
  <2>4. Position'
    BY <1>2, PositionSame DEF Listen, dataVars
  <2> QED BY <2>2, <2>3, <2>4
<1>3. ASSUME NEW l \in Listeners, CloseListener(l) PROVE TypeInv'
  <2>1. ApiType'
    <3>1. queue' \in [Listeners -> Seq(Clients)]
      BY <1>3 DEF CloseListener, ApiType
    <3>2. lis' \in [Listeners -> LisType]
      <4>1. lis[l] \in LisType
        BY DEF ApiType
      <4>2. [lis[l] EXCEPT !.on = "closed"] \in LisType
        BY <4>1 DEF LisType
      <4>3. lis' = [lis EXCEPT ![l] = [lis[l] EXCEPT !.on = "closed"]]
        BY <1>3 DEF CloseListener
      <4> QED BY <4>2, <4>3 DEF ApiType
    <3> QED BY <1>3, <3>1, <3>2 DEF CloseListener, ApiType
  <2>2. ClientType' /\ PeerKnown'
    BY <1>3 DEF CloseListener, ClientType, PeerKnown
  <2>3. DataType'
    BY <1>3 DEF CloseListener, DataType
  <2>4. Position'
    BY <1>3, PositionSame DEF CloseListener
  <2> QED BY <2>1, <2>2, <2>3, <2>4
<1> QED BY <1>1, <1>2, <1>3

LEMMA ServeType ==
    ASSUME TypeInv, NEW l \in Listeners, NEW g \in Loops, Serve(l, g)
    PROVE  TypeInv'
<1> USE DEF TypeInv
<1> DEFINE c == acc[l][g].peer
<1>1. CASE AcceptSession(l, g)
  <2>1. queue[l] \in Seq(Clients) /\ queue[l] # <<>>
    BY <1>1 DEF AcceptSession, ApiType
  <2>2. Head(queue[l]) \in Clients /\ Tail(queue[l]) \in Seq(Clients)
    BY <2>1
  <2>3. queue' \in [Listeners -> Seq(Clients)]
    BY <1>1, <2>2 DEF AcceptSession, ApiType
  <2>4. /\ pre' \in [Objects -> Preconnections]
        /\ acc' \in [Listeners -> [Loops -> AccType]]
        /\ PeerKnown' /\ server' \in {"up", "dead"}
    <3>1. CASE lis[l].p = Nil
      BY <1>1, <3>1 DEF AcceptSession, ApiType, PeerKnown
    <3>2. CASE lis[l].p # Nil
      <4>1. lis[l].p \in Objects
        BY <3>2 DEF ApiType, LisType
      <4>2. pre' = [pre EXCEPT ![lis[l].p].remote = Head(queue[l])]
        BY <1>1, <3>2 DEF AcceptSession
      <4>3. pre' \in [Objects -> Preconnections]
        BY <4>1, <4>2, <2>2 DEF ApiType, Preconnections
      <4>4. Loop(l, g, "stream", Head(queue[l]))
        BY <1>1, <3>2 DEF AcceptSession
      <4>5. acc' \in [Listeners -> [Loops -> AccType]] /\ PeerKnown'
        BY <4>4, <2>2, LoopType, LoopPeer
      <4> QED BY <1>1, <3>2, <4>3, <4>5 DEF AcceptSession, ApiType
    <3> QED BY <3>1, <3>2
  <2>5. ApiType'
    BY <1>1, <2>3, <2>4 DEF AcceptSession, ApiType
  <2>6. ClientType' /\ DataType'
    BY <1>1 DEF AcceptSession, ClientType, DataType, dataVars
  <2>7. Position'
    BY <1>1, PositionSame DEF AcceptSession, dataVars
  <2> QED BY <2>4, <2>5, <2>6, <2>7
<1>2. CASE AcceptStream(l, g) \/ AcceptFails(l, g)
  <2>1. c \in Clients
    BY <1>2 DEF AcceptStream, AcceptFails, PeerKnown
  <2>2. acc' \in [Listeners -> [Loops -> AccType]] /\ PeerKnown'
    BY <1>2, <2>1, LoopType, LoopPeer DEF AcceptStream, AcceptFails
  <2>3. ApiType'
    BY <1>2, <2>2 DEF AcceptStream, AcceptFails, ApiType, apiVars
  <2>4. ClientType' /\ DataType'
    BY <1>2 DEF AcceptStream, AcceptFails, ClientType, DataType, dataVars
  <2>5. Position'
    BY <1>2, PositionSame DEF AcceptStream, AcceptFails, dataVars
  <2> QED BY <2>2, <2>3, <2>4, <2>5
<1>3. CASE AcceptClosed(l, g)
  <2>1. ApiType' /\ ClientType' /\ DataType' /\ PeerKnown'
    BY <1>3 DEF AcceptClosed, ApiType, ClientType, DataType, PeerKnown, apiVars, dataVars
  <2>2. Position'
    BY <1>3, PositionSame DEF AcceptClosed, dataVars
  <2> QED BY <2>1, <2>2
<1>4. CASE Dispatch(l, g)
  <2>1. c \in Clients /\ "server" \in Ends
    BY <1>4 DEF Dispatch, PeerKnown, Ends
  <2>2. acc' \in [Listeners -> [Loops -> AccType]] /\ PeerKnown'
    BY <1>4, <2>1, LoopType, LoopPeer DEF Dispatch
  <2>3. at' \in [Ends -> [Clients -> 0..2]] /\ Position'
    BY <1>4, <2>1, PlaceType DEF Dispatch
  <2>4. ApiType'
    BY <1>4, <2>2 DEF Dispatch, ApiType, apiVars
  <2>5. ClientType' /\ DataType'
    BY <1>4, <2>3 DEF Dispatch, ClientType, DataType
  <2> QED BY <2>2, <2>3, <2>4, <2>5
<1> QED BY <1>1, <1>2, <1>3, <1>4 DEF Serve

\* The clients' steps and those of the workers.
LEMMA ClientStepType ==
    ASSUME TypeInv, NEW c \in Clients,
           \/ \E l \in Listeners : Initiate(c, l)
           \/ InitiateFails(c) \/ Finish(c) \/ Kill(c) \/ IdleTimeout(c)
           \/ \E e \in Ends : Work(e, c)
    PROVE  TypeInv'
<1> USE DEF TypeInv
<1>e. "client" \in Ends /\ \A e \in Ends : Other(e) \in Ends
  BY DEF Ends, Other
<1>1. ASSUME NEW l \in Listeners, Initiate(c, l) PROVE TypeInv'
  <2>1. queue' \in [Listeners -> Seq(Clients)]
    <3>1. queue[l] \in Seq(Clients)
      BY DEF ApiType
    <3>2. Append(queue[l], c) \in Seq(Clients)
      BY <3>1
    <3> QED BY <1>1, <3>2 DEF Initiate, ApiType
  <2>2. ApiType' /\ PeerKnown'
    BY <1>1, <2>1 DEF Initiate, ApiType, PeerKnown, apiVars
  <2>3. at' \in [Ends -> [Clients -> 0..2]] /\ Position'
    BY <1>1, <1>e, PlaceType DEF Initiate
  <2>4. ClientType'
    BY <1>1 DEF Initiate, ClientType
  <2>5. DataType'
    BY <1>1, <2>3 DEF Initiate, DataType
  <2> QED BY <2>2, <2>3, <2>4, <2>5
<1>2. CASE InitiateFails(c)
  <2>1. ApiType' /\ ClientType' /\ DataType' /\ PeerKnown'
    BY <1>2 DEF InitiateFails, ApiType, ClientType, DataType, PeerKnown, apiVars, dataVars
  <2>2. Position'
    BY <1>2, PositionSame DEF InitiateFails, dataVars
  <2> QED BY <2>1, <2>2
<1>3. CASE Finish(c) \/ \E e \in Ends : Fail(e, c)
  <2>2. UNCHANGED <<app, pre, given, lis, queue, acc, server, via, sent>>
    BY <1>3 DEF Finish, Fail, apiVars
  <2>3. ClientType' /\ DataType' /\ Position'
    <3>1. CASE Finish(c)
      BY <1>e, <2>2, <3>1, EndType DEF Finish
    <3>2. ASSUME NEW e \in Ends, Fail(e, c) PROVE ClientType' /\ DataType' /\ Position'
      BY <2>2, <3>2, EndType DEF Fail, Leave
    <3> QED BY <1>3, <3>1, <3>2
  <2>4. ApiType' /\ PeerKnown'
    BY <2>2 DEF ApiType, PeerKnown
  <2> QED BY <2>3, <2>4
<1>4. CASE Kill(c)
  <2>1. at' \in [Ends -> [Clients -> 0..2]] /\ Position'
    BY <1>4, <1>e, PlaceType DEF Kill
  <2>2. ApiType' /\ ClientType' /\ DataType' /\ PeerKnown'
    BY <1>4, <2>1 DEF Kill, ApiType, ClientType, DataType, PeerKnown, apiVars
  <2> QED BY <2>1, <2>2
<1>5. CASE IdleTimeout(c)
  <2>1. wire' \in [Ends -> [Clients -> Nat]]
    BY <1>5 DEF IdleTimeout, DataType
  <2>2. ApiType' /\ ClientType' /\ DataType' /\ PeerKnown'
    BY <1>5, <2>1 DEF IdleTimeout, ApiType, ClientType, DataType, PeerKnown, apiVars
  <2>3. Position'
    BY <1>5, PositionSame DEF IdleTimeout
  <2> QED BY <2>2, <2>3
<1>6. ASSUME NEW e \in Ends, Write(e, c) \/ Read(e, c) PROVE TypeInv'
  <2>1. at' \in [Ends -> [Clients -> 0..2]] /\ Position'
    BY <1>6, AdvanceType DEF Write, Read
  <2>2. wire' \in [Ends -> [Clients -> Nat]]
    <3>1. CASE Write(e, c)
      <4>1. wire[e][c] + 1 \in Nat
        BY DEF DataType
      <4> QED BY <3>1, <4>1 DEF Write, DataType
    <3>2. CASE Read(e, c)
      <4>1. wire[Other(e)][c] - 1 \in Nat /\ Other(e) \in Ends
        BY <1>e, <3>2 DEF Read, DataType
      <4> QED BY <3>2, <4>1 DEF Read, DataType
    <3> QED BY <1>6, <3>1, <3>2
  <2>3. sent' \in [Clients -> 0..Messages]
    BY <1>6, MessagesAssumption DEF Write, Read, DataType
  <2>4. ApiType' /\ ClientType' /\ DataType' /\ PeerKnown'
    BY <1>6, <2>1, <2>2, <2>3
       DEF Write, Read, ApiType, ClientType, DataType, PeerKnown, apiVars
  <2> QED BY <2>1, <2>4
<1> QED BY <1>1, <1>2, <1>3, <1>4, <1>5, <1>6 DEF Work

LEMMA NextType == TypeInv /\ [Next]_vars => TypeInv'
<1> SUFFICES ASSUME TypeInv, [Next]_vars PROVE TypeInv'
  OBVIOUS
<1>1. CASE UNCHANGED vars
  <2>1. Position'
    BY <1>1, PositionSame DEF vars, dataVars, TypeInv
  <2> QED BY <1>1, <2>1 DEF vars, apiVars, dataVars, TypeInv, ApiType, ClientType,
                          DataType, PeerKnown
<1>2. CASE Next
  BY <1>2, ServerType, ServeType, ClientStepType DEF Next
<1> QED BY <1>1, <1>2

LEMMA TypesHold == Spec => []TypeInv
BY InitType, NextType, PTL DEF Spec

\* The state of the API, the transports and the programs is well typed.
THEOREM TypeCorrect == Spec => []TypeOK
<1>1. TypeInv => TypeOK
  BY TypeSplit DEF TypeInv
<1> QED BY <1>1, TypesHold, PTL

-----------------------------------------------------------------------------
(***************************************************************************)
(* Listeners and their Preconnections.  A listener that has a              *)
(* Preconnection has the copy made for it, and only one that was opened    *)
(* has any; so what Accept writes concerns that listener only.             *)
(***************************************************************************)
OwnCopy ==
    \A l \in Listeners : lis[l].p # Nil => lis[l].p = l /\ lis[l].on # "new"

\* A goroutine that has left Accept works on its listener's copy.
HasCopy ==
    \A l \in Listeners, g \in Loops : acc[l][g].in # "accept" => lis[l].p = l

ApiInv == TypeInv /\ OwnCopy /\ HasCopy /\ CopyIsolates

\* The steps that leave the API's state alone.
Elsewhere == UNCHANGED <<app, pre, given, lis, acc, server>>

LEMMA NextCases ==
    ASSUME [Next]_vars
    PROVE  \/ \E a \in Addrs : Specify(a)
           \/ \E l \in Listeners : Listen(l) \/ CloseListener(l)
           \/ \E l \in Listeners, g \in Loops : Serve(l, g)
           \/ Elsewhere
<1>1. CASE UNCHANGED vars
  BY <1>1 DEF vars, apiVars, Elsewhere
<1>2. ASSUME NEW c \in Clients, NEW l \in Listeners, Initiate(c, l) PROVE Elsewhere
  BY <1>2 DEF Initiate, apiVars, Elsewhere
<1>3. ASSUME NEW c \in Clients,
             InitiateFails(c) \/ Finish(c) \/ Kill(c) \/ IdleTimeout(c)
      PROVE  Elsewhere
  BY <1>3 DEF InitiateFails, Finish, Kill, IdleTimeout, apiVars, Elsewhere
<1>4. ASSUME NEW c \in Clients, NEW e \in Ends, Work(e, c) PROVE Elsewhere
  BY <1>4 DEF Work, Write, Read, Fail, apiVars, Elsewhere
<1> QED BY <1>1, <1>2, <1>3, <1>4 DEF Next

LEMMA ApiInit == Init => ApiInv
<1> SUFFICES ASSUME Init PROVE ApiInv
  OBVIOUS
<1>1. OwnCopy /\ HasCopy /\ CopyIsolates
  BY DEF Init, OwnCopy, HasCopy, CopyIsolates, Accepting, Objects
<1> QED BY <1>1, InitType DEF ApiInv

\* What Accept writes and what it leaves alone.
LEMMA AcceptWrites ==
    ASSUME ApiInv, NEW l \in Listeners, NEW g \in Loops, AcceptSession(l, g),
           lis[l].p # Nil
    PROVE  /\ lis[l].p = l
           /\ pre'[l] = [pre[l] EXCEPT !.remote = Head(queue[l])]
           /\ \A o \in Objects : o # l => pre'[o] = pre[o]
           /\ acc'[l][g] = [in |-> "stream", peer |-> Head(queue[l])]
           /\ \A k \in Listeners, h \in Loops : k # l \/ h # g => acc'[k][h] = acc[k][h]
           /\ UNCHANGED <<given, lis, server, app>>
<1>1. lis[l].p = l /\ l \in Objects
  BY DEF ApiInv, OwnCopy, Objects
<1>2. /\ pre' = [pre EXCEPT ![l].remote = Head(queue[l])]
      /\ Loop(l, g, "stream", Head(queue[l]))
      /\ UNCHANGED <<given, lis, server, app>>
  BY <1>1 DEF AcceptSession
<1>3. queue[l] \in Seq(Clients) /\ queue[l] # <<>>
  BY DEF AcceptSession, ApiInv, TypeInv, ApiType
<1>4. Head(queue[l]) \in Clients
  BY <1>3
<1>5. pre \in [Objects -> Preconnections] /\ ApiType
  BY DEF ApiInv, TypeInv, ApiType
<1>6. /\ acc'[l][g] = [in |-> "stream", peer |-> Head(queue[l])]
      /\ \A k \in Listeners, h \in Loops : k # l \/ h # g => acc'[k][h] = acc[k][h]
  BY <1>2, <1>4, <1>5, LoopType
<1>7. /\ pre'[l] = [pre[l] EXCEPT !.remote = Head(queue[l])]
      /\ \A o \in Objects : o # l => pre'[o] = pre[o]
  BY <1>1, <1>2, <1>5
<1> QED BY <1>1, <1>2, <1>6, <1>7

\* What Listen writes and what it leaves alone.
LEMMA ListenWrites ==
    ASSUME TypeInv, NEW l \in Listeners, NewListener(l)
    PROVE  /\ pre'[l] = pre["app"]
           /\ \A o \in Objects : o # l => pre'[o] = pre[o]
           /\ lis'[l] = [on |-> "open", addr |-> pre["app"].local, p |-> Kept(l)]
           /\ \A k \in Listeners : k # l => lis'[k] = lis[k]
<1>1. pre["app"] \in Preconnections
  BY DEF TypeInv, ApiType, Objects
<1>2. Copy(pre["app"]) = pre["app"]
  BY <1>1, CopyType
<1> QED BY <1>2 DEF NewListener, TypeInv, ApiType, Objects

\* What the other steps of an accept loop change: its own position.
LEMMA LoopMoves ==
    ASSUME ApiInv, NEW l \in Listeners, NEW g \in Loops,
           AcceptStream(l, g) \/ AcceptFails(l, g) \/ Dispatch(l, g)
    PROVE  /\ acc'[l][g].in # "accept" =>
                 acc[l][g].in # "accept" /\ acc'[l][g].peer = acc[l][g].peer
           /\ \A k \in Listeners, h \in Loops : k # l \/ h # g => acc'[k][h] = acc[k][h]
           /\ UNCHANGED <<pre, given, lis, server, app>>
<1>1. acc[l][g].peer \in Clients /\ acc[l][g].in # "accept"
  BY DEF ApiInv, TypeInv, PeerKnown, AcceptStream, AcceptFails, Dispatch
<1>2. ApiType
  BY DEF ApiInv, TypeInv
<1>3. PICK in \in {"accept", "returned"}, c \in {Nil, acc[l][g].peer} :
          Loop(l, g, in, c) /\ (in # "accept" => c = acc[l][g].peer)
  BY DEF AcceptStream, AcceptFails, Dispatch
<1>4. /\ acc'[l][g] = [in |-> in, peer |-> c]
      /\ \A k \in Listeners, h \in Loops : k # l \/ h # g => acc'[k][h] = acc[k][h]
  BY <1>1, <1>2, <1>3, LoopType
<1>5. UNCHANGED <<pre, given, lis, server, app>>
  BY DEF AcceptStream, AcceptFails, Dispatch, apiVars
<1> QED BY <1>1, <1>3, <1>4, <1>5

LEMMA ApiNext == ApiInv /\ [Next]_vars => ApiInv'
<1> SUFFICES ASSUME ApiInv, [Next]_vars PROVE ApiInv'
  OBVIOUS
<1>t. TypeInv /\ TypeInv' /\ pre \in [Objects -> Preconnections]
  BY NextType DEF ApiInv, TypeInv, ApiType
<1>n. \A l \in Listeners : l # "app" /\ l # Nil /\ l \in Objects /\ "app" \in Objects
  BY AppAssumption, NilAssumption DEF Objects
<1> SUFFICES OwnCopy' /\ HasCopy' /\ CopyIsolates'
  BY <1>t DEF ApiInv
<1>1. ASSUME NEW a \in Addrs, Specify(a) PROVE OwnCopy' /\ HasCopy' /\ CopyIsolates'
  <2>1. /\ pre'["app"] = [pre["app"] EXCEPT !.local = a]
        /\ \A o \in Objects : o # "app" => pre'[o] = pre[o]
        /\ given' = [given EXCEPT !.local = a] /\ UNCHANGED <<lis, acc>>
    BY <1>1, <1>t, <1>n DEF Specify, Objects
  <2>2. OwnCopy' /\ HasCopy'
    BY <2>1 DEF ApiInv, OwnCopy, HasCopy
  <2>3. CopyIsolates'
    BY <2>1, <1>n DEF ApiInv, OwnCopy, CopyIsolates
  <2> QED BY <2>2, <2>3
<1>2. ASSUME NEW l \in Listeners, Listen(l) PROVE OwnCopy' /\ HasCopy' /\ CopyIsolates'
  <2>1. CASE UNCHANGED <<pre, lis>>
    BY <1>2, <2>1 DEF Listen, ApiInv, OwnCopy, HasCopy, CopyIsolates
  <2>2. CASE NewListener(l)
    <3>1. /\ pre'[l] = pre["app"]
          /\ \A o \in Objects : o # l => pre'[o] = pre[o]
          /\ lis'[l] = [on |-> "open", addr |-> pre["app"].local, p |-> Kept(l)]
          /\ \A k \in Listeners : k # l => lis'[k] = lis[k]
      BY <1>t, <2>2, ListenWrites
    <3>2. UNCHANGED <<given, acc>> /\ lis[l].on = "new"
      BY <1>2 DEF Listen
    <3>3. lis[l].p = Nil
      BY <3>2 DEF ApiInv, OwnCopy
    <3>4. OwnCopy'
      BY <3>1 DEF ApiInv, OwnCopy, Kept
    <3>5. HasCopy'
      BY <1>n, <3>1, <3>2, <3>3 DEF ApiInv, HasCopy
    <3>6. pre'["app"] = given'
      BY <1>n, <3>1, <3>2 DEF ApiInv, CopyIsolates
    <3>7. ASSUME NEW k \in Listeners, lis'[k].p # Nil
          PROVE  pre'[lis'[k].p].local = lis'[k].addr
      BY <1>n, <3>1, <3>7 DEF ApiInv, CopyIsolates, OwnCopy, Kept
    <3> QED BY <3>4, <3>5, <3>6, <3>7 DEF CopyIsolates
  <2> QED BY <1>2, <2>1, <2>2 DEF Listen
<1>3. ASSUME NEW l \in Listeners, CloseListener(l)
      PROVE  OwnCopy' /\ HasCopy' /\ CopyIsolates'
  <2>1. /\ \A k \in Listeners : lis'[k].p = lis[k].p /\ lis'[k].addr = lis[k].addr
        /\ \A k \in Listeners : lis'[k].on = lis[k].on \/ lis'[k].on = "closed"
        /\ UNCHANGED <<pre, given, acc>>
    BY <1>3, <1>t DEF CloseListener, TypeInv, ApiType, LisType
  <2> QED BY <2>1 DEF ApiInv, OwnCopy, HasCopy, CopyIsolates
<1>4. ASSUME NEW l \in Listeners, NEW g \in Loops, Serve(l, g)
      PROVE  OwnCopy' /\ HasCopy' /\ CopyIsolates'
  <2>1. CASE AcceptSession(l, g) /\ lis[l].p = Nil
    BY <2>1 DEF AcceptSession, ApiInv, OwnCopy, HasCopy, CopyIsolates
  <2>2. CASE AcceptSession(l, g) /\ lis[l].p # Nil
    <3>1. /\ lis[l].p = l
          /\ pre'[l] = [pre[l] EXCEPT !.remote = Head(queue[l])]
          /\ \A o \in Objects : o # l => pre'[o] = pre[o]
          /\ \A k \in Listeners, h \in Loops : k # l \/ h # g => acc'[k][h] = acc[k][h]
          /\ UNCHANGED <<given, lis>>
      BY <2>2, AcceptWrites
    <3>2. pre'[l].local = pre[l].local
      BY <1>t, <1>n, <3>1 DEF Preconnections
    <3>3. OwnCopy' /\ HasCopy'
      BY <3>1 DEF ApiInv, OwnCopy, HasCopy
    <3>4. CopyIsolates'
      BY <1>n, <3>1, <3>2 DEF ApiInv, OwnCopy, CopyIsolates
    <3> QED BY <3>3, <3>4
  <2>3. CASE AcceptStream(l, g) \/ AcceptFails(l, g) \/ Dispatch(l, g)
    <3>1. /\ acc'[l][g].in # "accept" => acc[l][g].in # "accept"
          /\ \A k \in Listeners, h \in Loops : k # l \/ h # g => acc'[k][h] = acc[k][h]
          /\ UNCHANGED <<pre, given, lis>>
      BY <2>3, LoopMoves
    <3> QED BY <3>1 DEF ApiInv, OwnCopy, HasCopy, CopyIsolates
  <2>4. CASE AcceptClosed(l, g)
    BY <2>4 DEF AcceptClosed, apiVars, ApiInv, OwnCopy, HasCopy, CopyIsolates
  <2> QED BY <1>4, <2>1, <2>2, <2>3, <2>4 DEF Serve
<1>5. CASE Elsewhere
  BY <1>5 DEF Elsewhere, ApiInv, OwnCopy, HasCopy, CopyIsolates
<1> QED BY <1>1, <1>2, <1>3, <1>4, <1>5, NextCases

LEMMA ApiHolds == Spec => []ApiInv
BY ApiInit, ApiNext, PTL DEF Spec

\* The application's Preconnection holds what the application put there and that
\* of a listener the address it listens on, for any number of listeners made
\* from one Preconnection, over any transport.
THEOREM CopyIsolatesHolds == Spec => []CopyIsolates
<1>1. ApiInv => CopyIsolates
  BY DEF ApiInv
<1> QED BY <1>1, ApiHolds, PTL

=============================================================================
