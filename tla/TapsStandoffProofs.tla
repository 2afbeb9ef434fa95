------------------------- MODULE TapsStandoffProofs -------------------------
(***************************************************************************)
(* The two ends of a session never wait for each other, and the server has *)
(* every session that is up exactly once, for any number of listeners,     *)
(* accept loops, clients and messages.  A session is in one place: in a    *)
(* queue, with an accept loop or with its worker; and what is on the way   *)
(* follows from where the two workers are.                                 *)
(***************************************************************************)
EXTENDS TapsProofs

Queued(c) == \E l \in Listeners : \E i \in DOMAIN queue[l] : queue[l][i] = c
InLoop(c) ==
    \E l \in Listeners, g \in Loops : acc[l][g].in # "accept" /\ acc[l][g].peer = c

QueuedOnce ==
    \A l, k \in Listeners : \A i \in DOMAIN queue[l], j \in DOMAIN queue[k] :
        queue[l][i] = queue[k][j] => l = k /\ i = j

InOneLoop ==
    \A l, k \in Listeners, g, h \in Loops :
        /\ acc[l][g].in # "accept" /\ acc[k][h].in # "accept"
        /\ acc[l][g].peer = acc[k][h].peer
        => l = k /\ g = h

\* The server has no worker for a session it has not accepted.
Waits(c) ==
    /\ Queued(c) => ~InLoop(c)
    /\ Queued(c) \/ InLoop(c) => at["server"][c] = 0

\* There is nothing of a client that has not called Initiate.
Fresh(c) ==
    client[c] = "new" =>
        /\ session[c] = "none"
        /\ ~Queued(c) /\ ~InLoop(c)
        /\ at["server"][c] = 0
        /\ \A e \in Ends : wire[e][c] = 0

Places == QueuedOnce /\ InOneLoop /\ \A c \in Clients : Waits(c) /\ Fresh(c)

\* How far a worker is into the two steps it repeats.
Half(e, c) == IF at[e][c] = 2 THEN 1 ELSE 0

\* Each end of "concurrent" is one message ahead between its write and its read;
\* in "pingpong" the server is one behind between its read and its write.
Balance(c) ==
    session[c] = "up" /\ at["client"][c] # 0 =>
        /\ app = "concurrent" =>
              wire["client"][c] + wire["server"][c] = Half("client", c) + Half("server", c)
        /\ app = "pingpong" =>
              wire["client"][c] + wire["server"][c] + Half("server", c) = Half("client", c)

StandInv == TypeInv /\ Places /\ \A c \in Clients : Balance(c)

LEMMA StandInit == Init => StandInv
<1> SUFFICES ASSUME Init PROVE StandInv
  OBVIOUS
<1>1. QueuedOnce /\ InOneLoop
  BY DEF Init, QueuedOnce, InOneLoop, Accepting
<1>2. ASSUME NEW c \in Clients PROVE ~Queued(c) /\ ~InLoop(c)
  BY DEF Init, Queued, InLoop, Accepting
<1>3. ASSUME NEW c \in Clients PROVE Waits(c) /\ Fresh(c) /\ Balance(c)
  BY <1>2 DEF Init, Waits, Fresh, Balance, Ends
<1> QED BY <1>1, <1>3, InitType DEF StandInv, Places

-----------------------------------------------------------------------------
(***************************************************************************)
(* A session is in one place.                                              *)
(***************************************************************************)
\* Steps that move no session.
LEMMA PlacesKept ==
    ASSUME Places, acc' = acc,
           \A l \in Listeners : queue'[l] = queue[l] \/ queue'[l] = <<>>,
           \A c \in Clients : /\ client'[c] = "new" => client[c] = "new"
                              /\ at["server"][c] = 0 => at'["server"][c] = 0
                              /\ client[c] = "new" =>
                                    /\ session'[c] = "none"
                                    /\ \A e \in Ends : wire'[e][c] = 0
    PROVE  Places'
<1>1. QueuedOnce'
  BY DEF Places, QueuedOnce
<1>2. InOneLoop'
  BY DEF Places, InOneLoop
<1>3. ASSUME NEW c \in Clients PROVE Waits(c)' /\ Fresh(c)'
  <2>1. (Queued(c)' => Queued(c)) /\ (InLoop(c)' => InLoop(c))
    BY DEF Queued, InLoop
  <2>2. Waits(c) /\ Fresh(c)
    BY DEF Places
  <2> QED BY <2>1, <2>2 DEF Waits, Fresh
<1> QED BY <1>1, <1>2, <1>3 DEF Places

LEMMA QueueTail ==
    ASSUME NEW q \in Seq(Clients), q # <<>>
    PROVE  /\ 1 \in DOMAIN q /\ Head(q) = q[1] /\ Head(q) \in Clients
           /\ \A i \in DOMAIN Tail(q) : /\ i \in Nat /\ i + 1 \in DOMAIN q
                                        /\ i + 1 # 1
                                        /\ Tail(q)[i] = q[i + 1]
OBVIOUS

LEMMA QueueAppend ==
    ASSUME NEW q \in Seq(Clients), NEW c \in Clients
    PROVE  /\ Append(q, c)[Len(q) + 1] = c
           /\ \A i \in DOMAIN Append(q, c) :
                 i = Len(q) + 1 \/ (i \in DOMAIN q /\ Append(q, c)[i] = q[i])
OBVIOUS

\* A session is taken off a queue; what a loop then does with it is left open.
LEMMA TakeOff ==
    ASSUME TypeInv, Places, NEW l \in Listeners, queue[l] # <<>>,
           queue' = [queue EXCEPT ![l] = Tail(@)]
    PROVE  /\ QueuedOnce'
           /\ \A c \in Clients : Queued(c)' => Queued(c) /\ c # Head(queue[l])
           /\ Queued(Head(queue[l])) /\ Head(queue[l]) \in Clients
<1> DEFINE q == queue[l]
<1>1. q \in Seq(Clients) /\ queue \in [Listeners -> Seq(Clients)]
  BY DEF TypeInv, ApiType
<1>2. /\ 1 \in DOMAIN q /\ Head(q) = q[1] /\ Head(q) \in Clients
      /\ \A i \in DOMAIN Tail(q) : /\ i \in Nat /\ i + 1 \in DOMAIN q
                                   /\ i + 1 # 1
                                   /\ Tail(q)[i] = q[i + 1]
  BY <1>1, QueueTail
<1>3. queue'[l] = Tail(q) /\ \A k \in Listeners : k # l => queue'[k] = queue[k]
  BY <1>1
<1> HIDE DEF q
<1>4. ASSUME NEW k \in Listeners, NEW i \in DOMAIN queue'[k]
      PROVE  \E j \in DOMAIN queue[k] : /\ j = (IF k = l THEN i + 1 ELSE i)
                                        /\ queue'[k][i] = queue[k][j]
                                        /\ k = l => j # 1 /\ i \in Nat
  <2>1. CASE k = l
    <3>1. i \in DOMAIN Tail(q)
      BY <1>3, <2>1
    <3>2. i \in Nat /\ i + 1 \in DOMAIN q /\ i + 1 # 1 /\ Tail(q)[i] = q[i + 1]
      BY <1>2, <3>1
    <3>3. i + 1 \in DOMAIN queue[k] /\ queue'[k][i] = queue[k][i + 1]
      BY <1>3, <2>1, <3>2 DEF q
    <3> QED BY <2>1, <3>2, <3>3
  <2>2. CASE k # l
    BY <1>3, <2>2
  <2> QED BY <2>1, <2>2
<1>5. QueuedOnce'
  <2> SUFFICES ASSUME NEW k \in Listeners, NEW h \in Listeners,
                      NEW i \in DOMAIN queue'[k], NEW j \in DOMAIN queue'[h],
                      queue'[k][i] = queue'[h][j]
               PROVE  k = h /\ i = j
    BY DEF QueuedOnce
  <2>1. PICK a \in DOMAIN queue[k] : /\ a = (IF k = l THEN i + 1 ELSE i)
                                     /\ queue'[k][i] = queue[k][a]
                                     /\ k = l => i \in Nat
    BY <1>4
  <2>2. PICK b \in DOMAIN queue[h] : /\ b = (IF h = l THEN j + 1 ELSE j)
                                     /\ queue'[h][j] = queue[h][b]
                                     /\ h = l => j \in Nat
    BY <1>4
  <2>3. k = h /\ a = b
    BY <2>1, <2>2 DEF Places, QueuedOnce
  <2> QED BY <2>1, <2>2, <2>3
<1>6. ASSUME NEW c \in Clients, Queued(c)' PROVE Queued(c) /\ c # Head(q)
  <2>0. PICK k \in Listeners : \E i \in DOMAIN queue'[k] : queue'[k][i] = c
    BY <1>6 DEF Queued
  <2>1. PICK i \in DOMAIN queue'[k] : queue'[k][i] = c
    BY <2>0
  <2>2. PICK j \in DOMAIN queue[k] : queue[k][j] = c /\ (k = l => j # 1)
    BY <1>4, <2>1
  <2>3. c # q[1]
    BY <1>2, <2>2 DEF Places, QueuedOnce, q
  <2> QED BY <1>2, <2>2, <2>3 DEF Queued
<1>7. Queued(q[1])
  BY <1>2 DEF Queued, q
<1> QED BY <1>2, <1>5, <1>6, <1>7 DEF q

\* A loop that lets its session go, or keeps it.
LEMMA LoopPlaces ==
    ASSUME TypeInv, Places, NEW l \in Listeners, NEW g \in Loops,
           AcceptStream(l, g) \/ AcceptFails(l, g) \/ Dispatch(l, g)
    PROVE  Places'
<1> DEFINE p == acc[l][g].peer
<1>1. p \in Clients /\ acc[l][g].in # "accept"
  BY DEF TypeInv, PeerKnown, AcceptStream, AcceptFails, Dispatch
<1>2. PICK in \in {"accept", "returned"}, c \in {Nil, p} :
          Loop(l, g, in, c) /\ (in # "accept" => c = p)
  BY DEF AcceptStream, AcceptFails, Dispatch
<1>3. /\ acc'[l][g] = [in |-> in, peer |-> c]
      /\ \A k \in Listeners, h \in Loops : k # l \/ h # g => acc'[k][h] = acc[k][h]
  BY <1>1, <1>2, LoopType DEF TypeInv
<1>4. UNCHANGED <<queue, client, session, wire>>
  BY DEF AcceptStream, AcceptFails, Dispatch, dataVars
<1>5. ASSUME NEW k \in Listeners, NEW h \in Loops, acc'[k][h].in # "accept"
      PROVE  acc[k][h].in # "accept" /\ acc[k][h].peer = acc'[k][h].peer
  BY <1>1, <1>2, <1>3, <1>5
<1>6. InOneLoop'
  BY <1>5 DEF Places, InOneLoop
<1>7. QueuedOnce'
  BY <1>4 DEF Places, QueuedOnce
<1>8. ASSUME NEW d \in Clients
      PROVE  (Queued(d)' <=> Queued(d)) /\ (InLoop(d)' => InLoop(d))
  BY <1>4, <1>5 DEF Queued, InLoop
<1>9. ASSUME NEW d \in Clients PROVE Waits(d)' /\ Fresh(d)'
  <2>0. Waits(d) /\ Fresh(d)
    BY DEF Places
  <2>1. CASE at'["server"][d] = at["server"][d]
    BY <1>4, <1>8, <2>0, <2>1 DEF Waits, Fresh
  <2>2. CASE at'["server"][d] # at["server"][d]
    <3>1. Dispatch(l, g) /\ d = p
      <4>1. at \in [Ends -> [Clients -> 0..2]] /\ "server" \in Ends
        BY DEF TypeInv, DataType, Ends
      <4> QED BY <2>2, <4>1 DEF AcceptStream, AcceptFails, Dispatch, dataVars
    <3>2. acc'[l][g].in = "accept"
      <4>1. Loop(l, g, "accept", Nil) /\ ApiType
        BY <3>1 DEF Dispatch, TypeInv
      <4>2. acc'[l][g] = [in |-> "accept", peer |-> Nil]
        BY <4>1, LoopType
      <4> QED BY <4>2
    <3>3. InLoop(d)
      BY <1>1, <3>1 DEF InLoop
    <3>4. ~InLoop(d)'
      <4> SUFFICES ASSUME NEW k \in Listeners, NEW h \in Loops,
                          acc'[k][h].in # "accept", acc'[k][h].peer = d
                   PROVE  FALSE
        BY DEF InLoop
      <4>1. acc[k][h].in # "accept" /\ acc[k][h].peer = p
        BY <1>5, <3>1
      <4>2. k = l /\ h = g
        BY <1>1, <4>1 DEF Places, InOneLoop
      <4> QED BY <3>2, <4>2
    <3>5. ~Queued(d) /\ client[d] # "new"
      BY <2>0, <3>3 DEF Waits, Fresh
    <3> QED BY <1>4, <1>8, <3>4, <3>5 DEF Waits, Fresh
  <2> QED BY <2>1, <2>2
<1> QED BY <1>6, <1>7, <1>9 DEF Places

LEMMA AcceptPlaces ==
    ASSUME TypeInv, Places, NEW l \in Listeners, NEW g \in Loops,
           AcceptSession(l, g)
    PROVE  Places'
<1> DEFINE p == Head(queue[l])
<1>0. /\ queue[l] # <<>> /\ queue' = [queue EXCEPT ![l] = Tail(@)]
      /\ acc[l][g].in = "accept"
      /\ UNCHANGED <<client, session, at, wire>>
  BY DEF AcceptSession, dataVars
<1>1. /\ QueuedOnce'
      /\ \A c \in Clients : Queued(c)' => Queued(c) /\ c # p
      /\ Queued(p) /\ p \in Clients
  BY <1>0, TakeOff
<1>2. Waits(p) /\ Fresh(p)
  BY <1>1 DEF Places
<1> HIDE DEF p
<1>3. \/ acc' = acc
      \/ /\ acc'[l][g] = [in |-> "stream", peer |-> p]
         /\ \A k \in Listeners, h \in Loops : k # l \/ h # g => acc'[k][h] = acc[k][h]
  <2>1. acc' = acc \/ Loop(l, g, "stream", p)
    BY DEF AcceptSession, p
  <2> QED BY <1>1, <2>1, LoopType DEF TypeInv
<1>4. ASSUME NEW k \in Listeners, NEW h \in Loops, acc'[k][h].in # "accept"
      PROVE  \/ acc[k][h].in # "accept" /\ acc'[k][h].peer = acc[k][h].peer
             \/ k = l /\ h = g /\ acc'[k][h].peer = p
  BY <1>3, <1>4
<1>5. ~InLoop(p)
  BY <1>1, <1>2 DEF Waits
<1>6. InOneLoop'
  <2> SUFFICES ASSUME NEW k \in Listeners, NEW j \in Listeners,
                      NEW h \in Loops, NEW i \in Loops,
                      acc'[k][h].in # "accept", acc'[j][i].in # "accept",
                      acc'[k][h].peer = acc'[j][i].peer
               PROVE  k = j /\ h = i
    BY DEF InOneLoop
  <2>1. \/ acc[k][h].in # "accept" /\ acc'[k][h].peer = acc[k][h].peer
        \/ k = l /\ h = g /\ acc'[k][h].peer = p
    BY <1>4
  <2>2. \/ acc[j][i].in # "accept" /\ acc'[j][i].peer = acc[j][i].peer
        \/ j = l /\ i = g /\ acc'[j][i].peer = p
    BY <1>4
  <2> QED BY <1>5, <2>1, <2>2 DEF InLoop, Places, InOneLoop
<1>7. ASSUME NEW c \in Clients PROVE InLoop(c)' => InLoop(c) \/ c = p
  BY <1>4 DEF InLoop
<1>8. ASSUME NEW c \in Clients PROVE Waits(c)' /\ Fresh(c)'
  <2>1. Waits(c) /\ Fresh(c)
    BY DEF Places
  <2> QED BY <1>0, <1>1, <1>2, <1>7, <2>1 DEF Waits, Fresh
<1> QED BY <1>1, <1>6, <1>8 DEF Places

LEMMA InitiatePlaces ==
    ASSUME TypeInv, Places, NEW c \in Clients, NEW l \in Listeners, Initiate(c, l)
    PROVE  Places'
<1> DEFINE q == queue[l]
<1>0. /\ client[c] = "new" /\ client'[c] = "up"
      /\ \A d \in Clients : d # c => client'[d] = client[d] /\ session'[d] = session[d]
      /\ \A d \in Clients : at'["server"][d] = at["server"][d]
      /\ UNCHANGED <<acc, wire>>
  BY DEF Initiate, TypeInv, ClientType, DataType, Ends
<1>1. q \in Seq(Clients) /\ queue \in [Listeners -> Seq(Clients)]
  BY DEF TypeInv, ApiType
<1>2. /\ queue'[l] = Append(q, c)
      /\ \A k \in Listeners : k # l => queue'[k] = queue[k]
  BY <1>1 DEF Initiate
<1>3. /\ Append(q, c)[Len(q) + 1] = c
      /\ \A i \in DOMAIN Append(q, c) :
            i = Len(q) + 1 \/ (i \in DOMAIN q /\ Append(q, c)[i] = q[i])
  BY <1>1, QueueAppend
<1>4. ASSUME NEW k \in Listeners, NEW i \in DOMAIN queue'[k]
      PROVE  \/ i \in DOMAIN queue[k] /\ queue'[k][i] = queue[k][i]
             \/ k = l /\ i = Len(q) + 1 /\ queue'[k][i] = c
  BY <1>2, <1>3
<1> HIDE DEF q
<1>5. Waits(c) /\ Fresh(c)
  BY DEF Places
<1>6. ~Queued(c) /\ ~InLoop(c) /\ at["server"][c] = 0
  BY <1>0, <1>5 DEF Fresh
<1>7. QueuedOnce'
  <2> SUFFICES ASSUME NEW k \in Listeners, NEW h \in Listeners,
                      NEW i \in DOMAIN queue'[k], NEW j \in DOMAIN queue'[h],
                      queue'[k][i] = queue'[h][j]
               PROVE  k = h /\ i = j
    BY DEF QueuedOnce
  <2>1. \/ i \in DOMAIN queue[k] /\ queue'[k][i] = queue[k][i]
        \/ k = l /\ i = Len(q) + 1 /\ queue'[k][i] = c
    BY <1>4
  <2>2. \/ j \in DOMAIN queue[h] /\ queue'[h][j] = queue[h][j]
        \/ h = l /\ j = Len(q) + 1 /\ queue'[h][j] = c
    BY <1>4
  <2> QED BY <1>6, <2>1, <2>2 DEF Queued, Places, QueuedOnce
<1>8. InOneLoop'
  BY <1>0 DEF Places, InOneLoop
<1>9. ASSUME NEW d \in Clients
      PROVE  (Queued(d)' => Queued(d) \/ d = c) /\ (InLoop(d)' <=> InLoop(d))
  BY <1>0, <1>4 DEF Queued, InLoop
<1>10. ASSUME NEW d \in Clients PROVE Waits(d)' /\ Fresh(d)'
  <2>1. Waits(d) /\ Fresh(d)
    BY DEF Places
  <2> QED BY <1>0, <1>6, <1>9, <2>1 DEF Waits, Fresh
<1> QED BY <1>7, <1>8, <1>10 DEF Places

\* The steps of clients and workers after Initiate.
LEMMA WorkPlaces ==
    ASSUME TypeInv, Places, NEW c \in Clients,
           \/ InitiateFails(c) \/ Finish(c) \/ Kill(c) \/ IdleTimeout(c)
           \/ \E e \in Ends : Work(e, c)
    PROVE  Places'
<1>0. /\ client \in [Clients -> {"new", "up", "closed", "failed", "gone"}]
      /\ session \in [Clients -> {"none", "up", "over"}]
      /\ at \in [Ends -> [Clients -> 0..2]]
      /\ wire \in [Ends -> [Clients -> Nat]]
      /\ "client" \in Ends /\ "server" \in Ends /\ \A e \in Ends : Other(e) \in Ends
  BY DEF TypeInv, ClientType, DataType, Ends, Other
<1>1. \A d \in Clients : Fresh(d)
  BY DEF Places
<1> DEFINE Goal == \A d \in Clients :
                      /\ client'[d] = "new" => client[d] = "new"
                      /\ at["server"][d] = 0 => at'["server"][d] = 0
                      /\ client[d] = "new" =>
                            /\ session'[d] = "none"
                            /\ \A e \in Ends : wire'[e][d] = 0
<1>2. UNCHANGED <<queue, acc>>
  BY DEF InitiateFails, Finish, Kill, IdleTimeout, Work, Write, Read, Fail
<1>3. CASE InitiateFails(c) \/ Kill(c)
  <2>1. Goal
    BY <1>0, <1>1, <1>3 DEF InitiateFails, Kill, dataVars, Fresh
  <2> QED BY <1>2, <2>1, PlacesKept
<1>4. CASE IdleTimeout(c)
  <2>1. client[c] # "new"
    BY <1>1, <1>4 DEF IdleTimeout, Fresh
  <2>2. Goal
    BY <1>0, <1>1, <1>4, <2>1 DEF IdleTimeout, Fresh
  <2> QED BY <1>2, <2>2, PlacesKept
<1>5. CASE Finish(c) \/ \E e \in Ends : Fail(e, c)
  <2>2. client[c] # "new"
    BY <1>1, <1>5 DEF Finish, Fail, Fresh
  <2>3. Goal
    <3>1. CASE Finish(c)
      BY <1>0, <1>1, <2>2, <3>1 DEF Finish, Fresh
    <3>2. ASSUME NEW e \in Ends, Fail(e, c) PROVE Goal
      BY <1>0, <1>1, <2>2, <3>2 DEF Fail, Leave, Fresh
    <3> QED BY <1>5, <3>1, <3>2
  <2> QED BY <1>2, <2>3, PlacesKept
<1>6. ASSUME NEW e \in Ends, Write(e, c) \/ Read(e, c) PROVE Places'
  <2>1. client[c] # "new" /\ at[e][c] # 0
    BY <1>1, <1>6 DEF Write, Read, Doing, Fresh
  <2>2. UNCHANGED <<client, session>> /\ Advance(e, c)
    BY <1>6 DEF Write, Read
  <2>3. \A d \in Clients : at["server"][d] = 0 => at'["server"][d] = 0
    BY <1>0, <2>1, <2>2 DEF Advance
  <2>4. \A d \in Clients, f \in Ends : d # c => wire'[f][d] = wire[f][d]
    BY <1>0, <1>6 DEF Write, Read
  <2>5. Goal
    BY <1>1, <2>1, <2>2, <2>3, <2>4 DEF Fresh
  <2> QED BY <1>2, <2>5, PlacesKept
<1> QED BY <1>3, <1>4, <1>5, <1>6 DEF Work

LEMMA PlacesNext ==
    ASSUME TypeInv, Places, [Next]_vars
    PROVE  Places'
<1>0. \A c \in Clients : Fresh(c)
  BY DEF Places
<1>1. CASE UNCHANGED <<queue, acc, client, session, at, wire>>
  BY <1>0, <1>1, PlacesKept DEF Fresh
<1>2. ASSUME NEW l \in Listeners, CloseListener(l) PROVE Places'
  <2>1. \A k \in Listeners : queue'[k] = queue[k] \/ queue'[k] = <<>>
    BY <1>2 DEF CloseListener, TypeInv, ApiType
  <2>2. UNCHANGED <<acc, client, at>>
    BY <1>2 DEF CloseListener
  <2>3. ASSUME NEW c \in Clients, client[c] = "new"
        PROVE  session'[c] = "none" /\ \A e \in Ends : wire'[e][c] = 0
    BY <1>0, <1>2, <2>3 DEF CloseListener, Fresh
  <2> QED BY <2>1, <2>2, <2>3, PlacesKept
<1>3. ASSUME NEW l \in Listeners, NEW g \in Loops, Serve(l, g) PROVE Places'
  <2>1. CASE AcceptClosed(l, g)
    BY <1>1, <2>1 DEF AcceptClosed, dataVars
  <2> QED BY <1>3, <2>1, AcceptPlaces, LoopPlaces DEF Serve
<1>4. ASSUME NEW c \in Clients, NEW l \in Listeners, Initiate(c, l) PROVE Places'
  BY <1>4, InitiatePlaces
<1>5. CASE \E a \in Addrs : Specify(a)
  BY <1>1, <1>5 DEF Specify, dataVars
<1>6. CASE \E l \in Listeners : Listen(l)
  BY <1>1, <1>6 DEF Listen, dataVars
<1>7. CASE UNCHANGED vars
  BY <1>1, <1>7 DEF vars, dataVars
<1> QED BY <1>2, <1>3, <1>4, <1>5, <1>6, <1>7, WorkPlaces DEF Next

-----------------------------------------------------------------------------
(***************************************************************************)
(* What is on the way.                                                     *)
(***************************************************************************)
LEMMA BalanceKept ==
    ASSUME NEW c \in Clients, Balance(c), app' = app,
           session'[c] = "up" => /\ session[c] = "up"
                                 /\ wire'["client"][c] = wire["client"][c]
                                 /\ wire'["server"][c] = wire["server"][c]
                                 /\ at'["client"][c] \in {0, at["client"][c]}
                                 /\ Half("server", c)' = Half("server", c)
    PROVE  Balance(c)'
BY DEF Balance, Half

\* What the steps of the two programs that read are.
LEMMA ProgramSteps ==
    ASSUME NEW e \in Ends
    PROVE  /\ app = "concurrent" => Steps(e) = <<"write", "read">>
           /\ app = "pingpong" => Steps(e) = IF e = "client" THEN <<"write", "read">>
                                                             ELSE <<"read", "write">>
           /\ app = "capacityseeker" /\ e = "client" => Steps(e) = <<"write">>
BY DEF Steps, Ends, concurrent, pingpong, capacityseeker

\* A worker goes from one half to the other.
LEMMA AdvanceHalf ==
    ASSUME TypeInv, NEW e \in Ends, NEW c \in Clients, NEW op \in {"write", "read"},
           app \in {"concurrent", "pingpong"}, Doing(e, c, op), Advance(e, c)
    PROVE  /\ at'[e][c] # 0
           /\ op = Steps(e)[1] => Half(e, c) = 0 /\ Half(e, c)' = 1
           /\ op = Steps(e)[2] => Half(e, c) = 1 /\ Half(e, c)' = 0
<1>1. at \in [Ends -> [Clients -> 0..2]]
  BY DEF TypeInv, DataType
<1>2. Steps(e) \in {<<"write", "read">>, <<"read", "write">>}
  BY ProgramSteps
<1>3. at[e][c] \in {1, 2} /\ op = Steps(e)[at[e][c]]
  BY <1>1 DEF Doing
<1>4. Len(Steps(e)) = 2 /\ Steps(e)[1] # Steps(e)[2]
  BY <1>2
<1>5. at'[e][c] = IF at[e][c] = 2 THEN 1 ELSE at[e][c] + 1
  BY <1>1, <1>4 DEF Advance
<1> QED BY <1>3, <1>4, <1>5 DEF Half

LEMMA WorkBalance ==
    ASSUME TypeInv, NEW c \in Clients, Balance(c), NEW e \in Ends,
           Write(e, c) \/ Read(e, c)
    PROVE  Balance(c)'
<1> DEFINE wc == wire["client"][c]
           ws == wire["server"][c]
           hc == Half("client", c)
           hs == Half("server", c)
<1>0. /\ at \in [Ends -> [Clients -> 0..2]]
      /\ wire \in [Ends -> [Clients -> Nat]]
      /\ Ends = {"client", "server"} /\ Other("client") = "server"
      /\ Other("server") = "client"
  BY DEF TypeInv, DataType, Ends, Other
<1>1. PICK op \in {"write", "read"} :
         /\ Doing(e, c, op) /\ Advance(e, c) /\ session[c] = "up"
         /\ app' = app /\ session' = session
         /\ IF op = "write" THEN wire' = [wire EXCEPT ![e][c] = @ + 1]
            ELSE wire[Other(e)][c] > 0 /\ wire' = [wire EXCEPT ![Other(e)][c] = @ - 1]
  BY DEF Write, Read
<1>2. CASE app \notin {"concurrent", "pingpong"}
  BY <1>1, <1>2 DEF Balance
<1>3. CASE app \in {"concurrent", "pingpong"}
  <2>1. /\ at'[e][c] # 0
        /\ op = Steps(e)[1] => Half(e, c) = 0 /\ Half(e, c)' = 1
        /\ op = Steps(e)[2] => Half(e, c) = 1 /\ Half(e, c)' = 0
    BY <1>1, <1>3, AdvanceHalf
  <2>2. /\ at[e][c] # 0
        /\ \A d \in Ends : d # e => at'[d][c] = at[d][c]
    BY <1>0, <1>1 DEF Advance, Doing
  <2>3. /\ app = "concurrent" => Steps(e) = <<"write", "read">>
        /\ app = "pingpong" => Steps(e) = IF e = "client" THEN <<"write", "read">>
                                                          ELSE <<"read", "write">>
    BY ProgramSteps
  <2>4. \A d \in Ends : d # e => Half(d, c)' = Half(d, c)
    BY <2>2 DEF Half
  <2>5. /\ wc \in Nat /\ ws \in Nat /\ hc \in {0, 1} /\ hs \in {0, 1}
        /\ hc' \in {0, 1} /\ hs' \in {0, 1}
    BY <1>0 DEF Half
  <2>6. wc' + ws' = IF op = "write" THEN wc + ws + 1 ELSE wc + ws - 1
    <3>1. CASE op = "write"
      <4>1. CASE e = "client"
        BY <1>0, <1>1, <3>1, <4>1
      <4>2. CASE e = "server"
        BY <1>0, <1>1, <3>1, <4>2
      <4> QED BY <1>0, <4>1, <4>2
    <3>2. CASE op = "read"
      <4>1. CASE e = "client"
        BY <1>0, <1>1, <3>2, <4>1
      <4>2. CASE e = "server"
        BY <1>0, <1>1, <3>2, <4>2
      <4> QED BY <1>0, <4>1, <4>2
    <3> QED BY <3>1, <3>2
  <2> SUFFICES ASSUME at'["client"][c] # 0
               PROVE  /\ app = "concurrent" => wc' + ws' = hc' + hs'
                      /\ app = "pingpong" => wc' + ws' + hs' = hc'
    BY <1>1 DEF Balance
  <2>7. /\ app = "concurrent" => wc + ws = hc + hs
        /\ app = "pingpong" => wc + ws + hs = hc
    BY <1>0, <1>1, <2>2 DEF Balance
  <2> HIDE DEF wc, ws, hc, hs
  <2>8. CASE e = "client"
    <3>1. /\ hs' = hs
          /\ op = "write" => hc = 0 /\ hc' = 1
          /\ op = "read" => hc = 1 /\ hc' = 0
      BY <1>0, <1>3, <2>1, <2>3, <2>4, <2>8 DEF hc, hs
    <3> QED BY <2>5, <2>6, <2>7, <3>1
  <2>9. CASE e = "server"
    <3>1. /\ hc' = hc
          /\ app = "concurrent" => /\ op = "write" => hs = 0 /\ hs' = 1
                                   /\ op = "read" => hs = 1 /\ hs' = 0
          /\ app = "pingpong" => /\ op = "read" => hs = 0 /\ hs' = 1
                                 /\ op = "write" => hs = 1 /\ hs' = 0
      BY <1>0, <1>3, <2>1, <2>3, <2>4, <2>9 DEF hc, hs
    <3> QED BY <2>5, <2>6, <2>7, <3>1
  <2> QED BY <1>0, <2>8, <2>9
<1> QED BY <1>2, <1>3

LEMMA BalanceNext ==
    ASSUME TypeInv, Places, NEW c \in Clients, Balance(c), [Next]_vars
    PROVE  Balance(c)'
<1>0. /\ session \in [Clients -> {"none", "up", "over"}]
      /\ at \in [Ends -> [Clients -> 0..2]]
      /\ wire \in [Ends -> [Clients -> Nat]]
      /\ Ends = {"client", "server"} /\ \A e \in Ends : Other(e) \in Ends
      /\ Waits(c) /\ Fresh(c)
  BY DEF TypeInv, ClientType, DataType, Ends, Other, Places
<1>1. CASE UNCHANGED <<app, session, at, wire>>
  BY <1>1, BalanceKept DEF Half
<1>2. ASSUME NEW l \in Listeners, CloseListener(l) PROVE Balance(c)'
  <2>1. app' = app /\ at' = at
    BY <1>2 DEF CloseListener
  <2>2. session'[c] = "up" => /\ session[c] = "up"
                              /\ wire'["client"][c] = wire["client"][c]
                              /\ wire'["server"][c] = wire["server"][c]
    BY <1>0, <1>2 DEF CloseListener
  <2> QED BY <2>1, <2>2, BalanceKept DEF Half
<1>3. ASSUME NEW l \in Listeners, NEW g \in Loops, Dispatch(l, g) PROVE Balance(c)'
  <2>1. UNCHANGED <<app, session, wire>> /\ at'["client"][c] = at["client"][c]
    BY <1>0, <1>3 DEF Dispatch
  <2>2. Half("server", c)' = Half("server", c)
    <3>1. CASE c # acc[l][g].peer
      BY <1>0, <1>3, <3>1 DEF Dispatch, Half
    <3>2. CASE c = acc[l][g].peer
      <4>1. InLoop(c)
        BY <1>3, <3>2 DEF Dispatch, InLoop
      <4>2. at["server"][c] = 0 /\ at'["server"][c] = 1
        BY <1>0, <1>3, <3>2, <4>1 DEF Dispatch, Waits
      <4> QED BY <4>2 DEF Half
    <3> QED BY <3>1, <3>2
  <2> QED BY <2>1, <2>2, BalanceKept
<1>4. ASSUME NEW d \in Clients, NEW l \in Listeners, Initiate(d, l) PROVE Balance(c)'
  <2>1. CASE d = c
    <3>1. client[c] = "new" /\ app' = app /\ wire' = wire
      BY <1>4, <2>1 DEF Initiate
    <3>2. wire'["client"][c] = 0 /\ wire'["server"][c] = 0 /\ at["server"][c] = 0
      BY <1>0, <3>1 DEF Fresh
    <3>3. at'["client"][c] = 1 /\ at'["server"][c] = 0
      BY <1>0, <1>4, <2>1, <3>2 DEF Initiate
    <3> QED BY <3>2, <3>3 DEF Balance, Half
  <2>2. CASE d # c
    <3>1. /\ app' = app /\ wire' = wire /\ session'[c] = session[c]
          /\ at'["client"][c] = at["client"][c] /\ at'["server"][c] = at["server"][c]
      BY <1>0, <1>4, <2>2 DEF Initiate
    <3> QED BY <3>1, BalanceKept DEF Half
  <2> QED BY <2>1, <2>2
<1>5. ASSUME NEW d \in Clients, InitiateFails(d) \/ Kill(d) PROVE Balance(c)'
  <2>1. /\ app' = app /\ wire' = wire /\ session' = session
        /\ at'["client"][c] \in {0, at["client"][c]}
        /\ at'["server"][c] = at["server"][c]
    BY <1>0, <1>5 DEF InitiateFails, Kill, dataVars
  <2> QED BY <2>1, BalanceKept DEF Half
<1>6. ASSUME NEW d \in Clients, IdleTimeout(d) PROVE Balance(c)'
  <2>1. /\ app' = app /\ at' = at
        /\ session'[c] = "up" => /\ session[c] = "up"
                                 /\ wire'["client"][c] = wire["client"][c]
                                 /\ wire'["server"][c] = wire["server"][c]
    BY <1>0, <1>6 DEF IdleTimeout
  <2> QED BY <2>1, BalanceKept DEF Half
<1>7. ASSUME NEW d \in Clients, Finish(d) \/ \E e \in Ends : Fail(e, d)
      PROVE  Balance(c)'
  <2>2. /\ app' = app
        /\ session'[c] = "up" => /\ session[c] = "up"
                                 /\ wire'["client"][c] = wire["client"][c]
                                 /\ wire'["server"][c] = wire["server"][c]
                                 /\ at'["client"][c] = at["client"][c]
                                 /\ at'["server"][c] = at["server"][c]
    BY <1>0, <1>7 DEF Finish, Fail, Leave
  <2> QED BY <2>2, BalanceKept DEF Half
<1>8. ASSUME NEW d \in Clients, NEW e \in Ends, Write(e, d) \/ Read(e, d)
      PROVE  Balance(c)'
  <2>1. CASE d = c
    BY <1>8, <2>1, WorkBalance
  <2>2. CASE d # c
    <3>1. /\ app' = app /\ session' = session
          /\ at'["client"][c] = at["client"][c] /\ at'["server"][c] = at["server"][c]
          /\ wire'["client"][c] = wire["client"][c]
          /\ wire'["server"][c] = wire["server"][c]
      BY <1>0, <1>8, <2>2 DEF Write, Read, Advance
    <3> QED BY <3>1, BalanceKept DEF Half
  <2> QED BY <2>1, <2>2
<1>9. ASSUME NEW l \in Listeners, NEW g \in Loops, Serve(l, g) PROVE Balance(c)'
  BY <1>1, <1>3, <1>9
  DEF Serve, AcceptSession, AcceptStream, AcceptFails, AcceptClosed, dataVars
<1>10. CASE \/ \E a \in Addrs : Specify(a)
            \/ \E l \in Listeners : Listen(l)
            \/ UNCHANGED vars
  BY <1>1, <1>10 DEF Specify, Listen, vars, dataVars
<1> QED
  BY <1>2, <1>4, <1>5, <1>6, <1>7, <1>8, <1>9, <1>10 DEF Next, Work

\* Whichever of the programs runs and however its connections are accepted, no
\* client waits for a message while the server waits for its stream or for a
\* message of it, for any number of listeners, accept loops and clients.
THEOREM NoStandoffHolds == Spec => []NoStandoff
<1>1. StandInv /\ [Next]_vars => StandInv'
  BY NextType, PlacesNext, BalanceNext DEF StandInv
<1>2. StandInv => NoStandoff
  <2> SUFFICES ASSUME StandInv, NEW c \in Clients, session[c] = "up",
                      Doing("client", c, "read"), wire["server"][c] = 0,
                      wire["client"][c] = 0,
                      \/ Doing("server", c, "read")
                      \/ \E l \in Listeners, g \in Loops :
                            acc[l][g] = [in |-> "stream", peer |-> c]
               PROVE  FALSE
    BY DEF NoStandoff
  <2>1. /\ at \in [Ends -> [Clients -> 0..2]] /\ "client" \in Ends /\ "server" \in Ends
        /\ app \in Programs /\ Balance(c) /\ Waits(c)
    BY ExamplesAssumption DEF StandInv, TypeInv, DataType, ClientType, Ends, Places
  <2>2. /\ at["client"][c] \in {1, 2} /\ Steps("client")[at["client"][c]] = "read"
        /\ at["client"][c] <= Len(Steps("client"))
    BY <2>1 DEF Doing, StandInv, TypeInv, Position
  <2>3. app \in {"concurrent", "pingpong"} /\ at["client"][c] = 2
    BY <2>1, <2>2, ProgramSteps DEF Programs
  <2>4. app = "pingpong" /\ at["server"][c] = 2
    BY <2>1, <2>3 DEF Balance, Half
  <2>5. ~Doing("server", c, "read")
    BY <2>1, <2>4, ProgramSteps DEF Doing
  <2>6. ~InLoop(c)
    BY <2>1, <2>4 DEF Waits
  <2> QED BY <2>5, <2>6 DEF InLoop
<1> QED BY StandInit, <1>1, <1>2, PTL DEF Spec

-----------------------------------------------------------------------------
(***************************************************************************)
(* The server has every session that is up.  A listener's queue holds      *)
(* sessions made with it only, so closing the listener ends all it drops.  *)
(***************************************************************************)
QueuedVia == \A l \in Listeners : \A i \in DOMAIN queue[l] : via[queue[l][i]] = l

Placed(c) ==
    server = "up" /\ session[c] = "up" =>
        Queued(c) \/ InLoop(c) \/ at["server"][c] # 0

ServedInv == TypeInv /\ Places /\ QueuedVia /\ \A c \in Clients : Placed(c)

\* What a queue still holds once its head was taken.
LEMMA QueueRest ==
    ASSUME NEW q \in Seq(Clients), NEW i \in DOMAIN q, q[i] # Head(q)
    PROVE  \E j \in DOMAIN Tail(q) : Tail(q)[j] = q[i]
<1>1. i \in 2..Len(q) /\ Len(q) \in Nat
  OBVIOUS
<1>2. i - 1 \in DOMAIN Tail(q) /\ Tail(q)[i - 1] = q[i]
  BY <1>1
<1> QED BY <1>2

LEMMA ViaNext ==
    ASSUME ServedInv, [Next]_vars
    PROVE  QueuedVia'
<1>0. /\ queue \in [Listeners -> Seq(Clients)]
      /\ via \in [Clients -> Listeners \cup {Nil}]
      /\ TypeInv /\ Places /\ QueuedVia
  BY DEF ServedInv, TypeInv, ApiType, ClientType
<1>1. CASE UNCHANGED <<queue, via>>
  BY <1>0, <1>1 DEF QueuedVia
<1>2. ASSUME NEW l \in Listeners, CloseListener(l) PROVE QueuedVia'
  <2>1. via' = via /\ \A k \in Listeners : queue'[k] = queue[k] \/ queue'[k] = <<>>
    BY <1>0, <1>2 DEF CloseListener
  <2> QED BY <1>0, <2>1 DEF QueuedVia
<1>3. ASSUME NEW l \in Listeners, NEW g \in Loops, AcceptSession(l, g)
      PROVE  QueuedVia'
  <2>1. queue[l] # <<>> /\ queue' = [queue EXCEPT ![l] = Tail(@)] /\ via' = via
    BY <1>3 DEF AcceptSession
  <2>2. \A i \in DOMAIN Tail(queue[l]) : /\ i + 1 \in DOMAIN queue[l]
                                         /\ Tail(queue[l])[i] = queue[l][i + 1]
    BY <1>0, <2>1, QueueTail
  <2>3. queue'[l] = Tail(queue[l]) /\ \A k \in Listeners : k # l => queue'[k] = queue[k]
    BY <1>0, <2>1
  <2> QED BY <1>0, <2>1, <2>2, <2>3 DEF QueuedVia
<1>4. ASSUME NEW c \in Clients, NEW l \in Listeners, Initiate(c, l)
      PROVE  QueuedVia'
  <2>1. /\ queue'[l] = Append(queue[l], c)
        /\ \A k \in Listeners : k # l => queue'[k] = queue[k]
        /\ via'[c] = l /\ \A d \in Clients : d # c => via'[d] = via[d]
        /\ client[c] = "new"
    BY <1>0, <1>4 DEF Initiate
  <2>2. ~Queued(c)
    BY <1>0, <2>1 DEF Places, Fresh
  <2> SUFFICES ASSUME NEW k \in Listeners, NEW i \in DOMAIN queue'[k]
               PROVE  via'[queue'[k][i]] = k
    BY DEF QueuedVia
  <2>3. CASE i \in DOMAIN queue[k] /\ queue'[k][i] = queue[k][i]
    <3>1. queue[k][i] \in Clients /\ queue[k][i] # c
      BY <1>0, <2>2, <2>3 DEF Queued
    <3> QED BY <1>0, <2>1, <2>3, <3>1 DEF QueuedVia
  <2>4. CASE k = l /\ queue'[k][i] = c
    BY <2>1, <2>4
  <2>5. \A j \in DOMAIN Append(queue[l], c) :
           \/ Append(queue[l], c)[j] = c
           \/ j \in DOMAIN queue[l] /\ Append(queue[l], c)[j] = queue[l][j]
    BY <1>0, QueueAppend
  <2> QED BY <2>1, <2>3, <2>4, <2>5
<1>5. ASSUME NEW l \in Listeners, NEW g \in Loops, Serve(l, g) PROVE QueuedVia'
  BY <1>1, <1>3, <1>5 DEF Serve, AcceptStream, AcceptFails, AcceptClosed, Dispatch
<1>6. ASSUME NEW c \in Clients,
             \/ InitiateFails(c) \/ Finish(c) \/ Kill(c) \/ IdleTimeout(c)
             \/ \E e \in Ends : Work(e, c)
      PROVE  QueuedVia'
  BY <1>1, <1>6
     DEF InitiateFails, Finish, Kill, IdleTimeout, Work, Write, Read, Fail
<1>7. CASE \/ \E a \in Addrs : Specify(a)
           \/ \E l \in Listeners : Listen(l)
           \/ UNCHANGED vars
  BY <1>1, <1>7 DEF Specify, Listen, vars
<1> QED BY <1>2, <1>4, <1>5, <1>6, <1>7 DEF Next

\* Steps that neither move the session of c nor bring it up.
LEMMA PlacedKept ==
    ASSUME NEW c \in Clients, Placed(c),
           server' = "up" => server = "up",
           session'[c] = "up" => session[c] = "up",
           session'[c] = "up" /\ Queued(c) => Queued(c)',
           InLoop(c) => InLoop(c)',
           session'[c] = "up" /\ at["server"][c] # 0 => at'["server"][c] # 0
    PROVE  Placed(c)'
BY DEF Placed

\* The steps of an accept loop.
LEMMA ServePlaced ==
    ASSUME ServedInv, NEW l \in Listeners, NEW g \in Loops, Serve(l, g),
           NEW c \in Clients
    PROVE  Placed(c)'
<1>0. /\ queue \in [Listeners -> Seq(Clients)]
      /\ at \in [Ends -> [Clients -> 0..2]] /\ "server" \in Ends
      /\ TypeInv /\ Places /\ Placed(c) /\ ApiType
  BY DEF ServedInv, TypeInv, ApiType, DataType, Ends
<1>1. CASE AcceptClosed(l, g)
  BY <1>1 DEF AcceptClosed, Placed
<1>2. CASE AcceptSession(l, g)
  <2>0. CASE server' # "up"
    BY <2>0 DEF Placed
  <2>1. CASE server' = "up"
    <3>1. /\ queue[l] # <<>> /\ queue' = [queue EXCEPT ![l] = Tail(@)]
          /\ acc[l][g].in = "accept" /\ server = "up"
          /\ Loop(l, g, "stream", Head(queue[l]))
          /\ UNCHANGED <<session, at>>
      BY <1>2, <2>1 DEF AcceptSession, dataVars
    <3>2. Head(queue[l]) \in Clients
      BY <1>0, <3>1, QueueTail
    <3>3. /\ acc'[l][g] = [in |-> "stream", peer |-> Head(queue[l])]
          /\ \A k \in Listeners, h \in Loops :
                k # l \/ h # g => acc'[k][h] = acc[k][h]
      BY <1>0, <3>1, <3>2, LoopType
    <3>4. CASE c = Head(queue[l])
      <4>1. InLoop(c)'
        BY <3>3, <3>4 DEF InLoop
      <4> QED BY <4>1 DEF Placed
    <3>5. CASE c # Head(queue[l])
      <4>1. InLoop(c) => InLoop(c)'
        BY <3>1, <3>3 DEF InLoop
      <4>2. ASSUME NEW k \in Listeners, NEW i \in DOMAIN queue[k], queue[k][i] = c
            PROVE  \E j \in DOMAIN queue'[k] : queue'[k][j] = c
        <5>1. CASE k = l
          <6>1. queue'[l] = Tail(queue[l]) /\ queue[l] \in Seq(Clients)
            BY <1>0, <3>1
          <6> QED BY <3>5, <4>2, <5>1, <6>1, QueueRest
        <5>2. CASE k # l
          BY <1>0, <3>1, <4>2, <5>2
        <5> QED BY <5>1, <5>2
      <4>3. Queued(c) => Queued(c)'
        BY <4>2 DEF Queued
      <4> QED BY <1>0, <3>1, <4>1, <4>3, PlacedKept
    <3> QED BY <3>4, <3>5
  <2> QED BY <2>0, <2>1
<1>3. CASE AcceptStream(l, g) \/ AcceptFails(l, g) \/ Dispatch(l, g)
  <2> DEFINE p == acc[l][g].peer
  <2>1. /\ p \in Clients /\ acc[l][g].in # "accept" /\ server = "up"
        /\ UNCHANGED <<queue, session, server>>
    BY <1>0, <1>3 DEF TypeInv, PeerKnown, AcceptStream, AcceptFails, Dispatch
  <2>2. PICK in \in {"accept", "returned"}, d \in {Nil, p} : Loop(l, g, in, d)
    BY <1>3 DEF AcceptStream, AcceptFails, Dispatch
  <2>3. \A k \in Listeners, h \in Loops : k # l \/ h # g => acc'[k][h] = acc[k][h]
    BY <1>0, <2>2 DEF Loop, ApiType
  <2>4. Queued(c) => Queued(c)'
    BY <2>1 DEF Queued
  <2>5. at["server"][c] # 0 => at'["server"][c] # 0
    BY <1>0, <1>3, <2>1 DEF AcceptStream, AcceptFails, Dispatch, dataVars
  <2>6. CASE c # p
    <3>1. InLoop(c) => InLoop(c)'
      BY <2>3, <2>6 DEF InLoop
    <3> QED BY <1>0, <2>1, <2>4, <2>5, <3>1, PlacedKept
  <2>7. CASE c = p
    <3>1. CASE AcceptStream(l, g)
      <4>1. acc'[l][g] = [in |-> "returned", peer |-> c]
        BY <1>0, <2>1, <2>7, <3>1, LoopType DEF AcceptStream
      <4>2. InLoop(c)'
        BY <4>1 DEF InLoop
      <4> QED BY <4>2 DEF Placed
    <3>2. CASE AcceptFails(l, g)
      BY <2>1, <2>7, <3>2 DEF AcceptFails, Placed
    <3>3. CASE Dispatch(l, g)
      <4>1. at'["server"][c] = 1
        BY <1>0, <2>7, <3>3 DEF Dispatch
      <4> QED BY <4>1 DEF Placed
    <3> QED BY <1>3, <3>1, <3>2, <3>3
  <2> QED BY <2>6, <2>7
<1> QED BY <1>1, <1>2, <1>3 DEF Serve

LEMMA PlacedNext ==
    ASSUME ServedInv, [Next]_vars, NEW c \in Clients
    PROVE  Placed(c)'
<1>0. /\ queue \in [Listeners -> Seq(Clients)]
      /\ session \in [Clients -> {"none", "up", "over"}]
      /\ at \in [Ends -> [Clients -> 0..2]]
      /\ "server" \in Ends /\ "client" \in Ends /\ "client" # "server"
      /\ TypeInv /\ QueuedVia /\ Placed(c)
  BY DEF ServedInv, TypeInv, ApiType, ClientType, DataType, Ends
<1>1. ASSUME UNCHANGED <<queue, acc>>, server' = "up" => server = "up",
             session'[c] = "up" => session[c] = "up",
             session'[c] = "up" /\ at["server"][c] # 0 => at'["server"][c] # 0
      PROVE  Placed(c)'
  <2>1. (Queued(c) => Queued(c)') /\ (InLoop(c) => InLoop(c)')
    BY <1>1 DEF Queued, InLoop
  <2> QED BY <1>0, <1>1, <2>1, PlacedKept
<1>2. ASSUME NEW l \in Listeners, CloseListener(l) PROVE Placed(c)'
  <2>1. /\ UNCHANGED <<acc, at, server>>
        /\ session'[c] = "up" => session[c] = "up" /\ via[c] # l
        /\ \A k \in Listeners : k # l => queue'[k] = queue[k]
    BY <1>0, <1>2 DEF CloseListener
  <2>2. session'[c] = "up" /\ Queued(c) => Queued(c)'
    <3> SUFFICES ASSUME session'[c] = "up", NEW k \in Listeners,
                        NEW i \in DOMAIN queue[k], queue[k][i] = c
                 PROVE  Queued(c)'
      BY DEF Queued
    <3>1. k # l
      BY <1>0, <2>1 DEF QueuedVia
    <3> QED BY <2>1, <3>1 DEF Queued
  <2>3. InLoop(c) => InLoop(c)'
    BY <2>1 DEF InLoop
  <2> QED BY <1>0, <2>1, <2>2, <2>3, PlacedKept
<1>3. ASSUME NEW d \in Clients, NEW l \in Listeners, Initiate(d, l)
      PROVE  Placed(c)'
  <2>1. /\ queue'[l] = Append(queue[l], d) /\ queue[l] \in Seq(Clients)
        /\ \A k \in Listeners : k # l => queue'[k] = queue[k]
        /\ d # c => session'[c] = session[c]
        /\ UNCHANGED <<acc, server>> /\ at'["server"][c] = at["server"][c]
    BY <1>0, <1>3 DEF Initiate
  <2>2. /\ Len(queue[l]) + 1 \in DOMAIN Append(queue[l], d)
        /\ Append(queue[l], d)[Len(queue[l]) + 1] = d
        /\ \A i \in DOMAIN queue[l] : /\ i \in DOMAIN Append(queue[l], d)
                                      /\ Append(queue[l], d)[i] = queue[l][i]
    BY <2>1
  <2>3. CASE d = c
    <3>1. Queued(c)'
      BY <2>1, <2>2, <2>3 DEF Queued
    <3> QED BY <3>1 DEF Placed
  <2>4. CASE d # c
    <3>1. (Queued(c) => Queued(c)') /\ (InLoop(c) => InLoop(c)')
      BY <2>1, <2>2 DEF Queued, InLoop
    <3> QED BY <1>0, <2>1, <2>4, <3>1, PlacedKept
  <2> QED BY <2>3, <2>4
<1>4. ASSUME NEW d \in Clients, InitiateFails(d) \/ Kill(d) \/ IdleTimeout(d)
      PROVE  Placed(c)'
  <2>1. /\ UNCHANGED <<queue, acc, server>>
        /\ session'[c] = "up" => session[c] = "up"
        /\ at'["server"][c] = at["server"][c]
    BY <1>0, <1>4 DEF InitiateFails, Kill, IdleTimeout, dataVars
  <2> QED BY <1>1, <2>1
<1>5. ASSUME NEW d \in Clients, Finish(d) \/ \E e \in Ends : Fail(e, d)
      PROVE  Placed(c)'
  <2>1. /\ UNCHANGED <<queue, acc, server>>
        /\ session'[c] = "up" => session[c] = "up" /\ at'["server"][c] = at["server"][c]
    <3>1. CASE Finish(d)
      BY <1>0, <3>1 DEF Finish
    <3>2. ASSUME NEW e \in Ends, Fail(e, d)
          PROVE  /\ UNCHANGED <<queue, acc, server, session>>
                 /\ session[c] = "up" => at'["server"][c] = at["server"][c]
      BY <1>0, <3>2 DEF Fail, Leave
    <3> QED BY <1>5, <3>1, <3>2
  <2> QED BY <1>1, <2>1
<1>6. ASSUME NEW d \in Clients, NEW e \in Ends, Write(e, d) \/ Read(e, d)
      PROVE  Placed(c)'
  <2>1. UNCHANGED <<queue, acc, server, session>> /\ Advance(e, d)
    BY <1>6 DEF Write, Read
  <2>2. at["server"][c] # 0 => at'["server"][c] # 0
    BY <1>0, <2>1 DEF Advance
  <2> QED BY <1>1, <2>1, <2>2
<1>7. CASE \/ \E a \in Addrs : Specify(a)
           \/ \E l \in Listeners : Listen(l)
           \/ UNCHANGED vars
  <2>1. UNCHANGED <<queue, acc, session, at>> /\ (server' = "up" => server = "up")
    BY <1>7 DEF Specify, Listen, vars, dataVars
  <2> QED BY <1>1, <2>1
<1> QED
  BY <1>2, <1>3, <1>4, <1>5, <1>6, <1>7, ServePlaced DEF Next, Work

\* However many listeners, accept loops and clients there are and whatever fails,
\* a server that runs has every session that is up, and has it once.
THEOREM ServedOnceHolds == Spec => []ServedOnce
<1>1. Init => ServedInv
  <2>1. Init => TypeInv /\ Places
    BY StandInit DEF StandInv
  <2>2. Init => QueuedVia /\ \A c \in Clients : Placed(c)
    BY DEF Init, QueuedVia, Placed
  <2> QED BY <2>1, <2>2 DEF ServedInv
<1>2. ServedInv /\ [Next]_vars => ServedInv'
  BY NextType, PlacesNext, ViaNext, PlacedNext DEF ServedInv
<1>3. ServedInv => ServedOnce
  <2> SUFFICES ASSUME ServedInv, server = "up", NEW c \in Clients, session[c] = "up"
               PROVE  \/ Single(QueuedAt(c)) /\ LoopsWith(c) = {} /\ at["server"][c] = 0
                      \/ QueuedAt(c) = {} /\ Single(LoopsWith(c)) /\ at["server"][c] = 0
                      \/ QueuedAt(c) = {} /\ LoopsWith(c) = {} /\ at["server"][c] # 0
    BY DEF ServedOnce
  <2>1. /\ Queued(c) \/ InLoop(c) \/ at["server"][c] # 0
        /\ Waits(c) /\ QueuedOnce /\ InOneLoop
    BY DEF ServedInv, Placed, Places
  <2>2. ~Queued(c) => QueuedAt(c) = {}
    BY DEF Queued, QueuedAt
  <2>3. ~InLoop(c) => LoopsWith(c) = {}
    BY DEF InLoop, LoopsWith
  <2>4. Queued(c) => Single(QueuedAt(c))
    <3> SUFFICES ASSUME NEW l \in Listeners, NEW i \in DOMAIN queue[l], queue[l][i] = c
                 PROVE  Single(QueuedAt(c))
      BY DEF Queued
    <3>1. <<l, i>> \in QueuedAt(c)
      BY DEF QueuedAt
    <3>2. ASSUME NEW x \in QueuedAt(c) PROVE x = <<l, i>>
      <4>1. PICK k \in Listeners : x \in {k} \X {j \in DOMAIN queue[k] : queue[k][j] = c}
        BY DEF QueuedAt
      <4>2. PICK j \in DOMAIN queue[k] : x = <<k, j>> /\ queue[k][j] = c
        BY <4>1
      <4> QED BY <2>1, <4>2 DEF QueuedOnce
    <3> QED BY <3>1, <3>2 DEF Single
  <2>5. InLoop(c) => Single(LoopsWith(c))
    <3> SUFFICES ASSUME NEW l \in Listeners, NEW g \in Loops,
                        acc[l][g].in # "accept", acc[l][g].peer = c
                 PROVE  Single(LoopsWith(c))
      BY DEF InLoop
    <3>1. <<l, g>> \in LoopsWith(c)
      BY DEF LoopsWith
    <3>2. ASSUME NEW x \in LoopsWith(c) PROVE x = <<l, g>>
      <4>1. PICK k \in Listeners, h \in Loops :
               x = <<k, h>> /\ acc[k][h].in # "accept" /\ acc[k][h].peer = c
        BY DEF LoopsWith
      <4> QED BY <2>1, <4>1 DEF InOneLoop
    <3> QED BY <3>1, <3>2 DEF Single
  <2> QED BY <2>1, <2>2, <2>3, <2>4, <2>5 DEF Waits
<1> QED BY <1>1, <1>2, <1>3, PTL DEF Spec

=============================================================================
