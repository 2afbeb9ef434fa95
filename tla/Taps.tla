-------------------------------- MODULE Taps --------------------------------
(***************************************************************************)
(* The TAPS API, taps/preconnection.go, over the transports                *)
(* pkg/inet/tcp, pkg/inet/quic and pkg/scion/quic, as the three programs   *)
(* under examples/ use it: a server that listens and accepts, clients that *)
(* initiate, and a worker at either end of every connection.               *)
(*                                                                         *)
(* A Preconnection is reached through pointers, so it has an identity: the *)
(* application's own is "app", the copy that Listen makes is named after   *)
(* the listener.  quic-go is external: a session is queued when its        *)
(* handshake is done, its stream shows at the server with the first data,  *)
(* closing the session drops what the peer has not read yet, and a session *)
(* that stays idle is closed.                                              *)
(***************************************************************************)
EXTENDS Naturals, Sequences

CONSTANTS
    Proto,      \* "tcp", "inet" (QUIC over IP) or "scion" (QUIC over SCION)
    Preferred,  \* the listening Preconnection has ConnectionPreferences
    Selector,   \* the protocol has been given a selector
    Listeners,  \* the listeners the server may make
    Loops,      \* the goroutines that call Accept on each listener
    Clients,    \* client processes, each with an address of its own
    Addrs,      \* addresses of the server
    Examples,   \* which of the programs are run
    Messages,   \* what a client writes: capacityseeker's -bytes, else a bound
    Nil

Programs == {"concurrent", "pingpong", "capacityseeker"}

ASSUME ProtoAssumption == Proto \in {"tcp", "inet", "scion"}
ASSUME ExamplesAssumption == Examples \subseteq Programs
ASSUME MessagesAssumption == Messages \in Nat \ {0}
ASSUME NilAssumption == Nil \notin Clients \cup Addrs \cup Listeners
ASSUME AppAssumption == "app" \notin Listeners

VARIABLES
    app,        \* the program that runs
    pre,        \* the Preconnection objects
    given,      \* what the application has put into its own
    lis,        \* listener -> its address and its Preconnection
    queue,      \* listener -> sessions nobody has accepted yet
    acc,        \* listener, goroutine -> where it is in its accept loop
    server,     \* whether the server process runs
    client,     \* client -> what its process does
    session,    \* client -> its session, none before Initiate
    via,        \* client -> the listener its session was made with
    at,         \* end, client -> position of the worker, 0 if none runs
    wire,       \* end, client -> messages it wrote the other has not read
    sent        \* client -> messages its worker has written

apiVars == <<pre, given, lis>>
dataVars == <<at, wire, sent>>
vars == <<app, apiVars, queue, acc, server, client, session, via, dataVars>>

Objects == {"app"} \cup Listeners
Preconnections == [local : Addrs \cup {Nil}, remote : Clients \cup {Nil}]
Ends == {"client", "server"}
Other(e) == IF e = "client" THEN "server" ELSE "client"

TypeOK ==
    /\ app \in Examples
    /\ pre \in [Objects -> Preconnections]
    /\ given \in Preconnections
    /\ lis \in [Listeners -> [on : {"new", "open", "closed"},
                              addr : Addrs \cup {Nil}, p : Objects \cup {Nil}]]
    /\ queue \in [Listeners -> Seq(Clients)]
    /\ acc \in [Listeners -> [Loops -> [in : {"accept", "stream", "returned"},
                                        peer : Clients \cup {Nil}]]]
    /\ server \in {"up", "dead"}
    /\ client \in [Clients -> {"new", "up", "closed", "failed", "gone"}]
    /\ session \in [Clients -> {"none", "up", "over"}]
    /\ via \in [Clients -> Listeners \cup {Nil}]
    /\ at \in [Ends -> [Clients -> 0..2]]
    /\ wire \in [Ends -> [Clients -> Nat]]
    /\ sent \in [Clients -> 0..Messages]

Blank == [local |-> Nil, remote |-> Nil]
Accepting == [in |-> "accept", peer |-> Nil]

Init ==
    /\ app \in Examples
    /\ pre = [o \in Objects |-> Blank]
    /\ given = Blank
    /\ lis = [l \in Listeners |-> [on |-> "new", addr |-> Nil, p |-> Nil]]
    /\ queue = [l \in Listeners |-> <<>>]
    /\ acc = [l \in Listeners |-> [g \in Loops |-> Accepting]]
    /\ server = "up"
    /\ client = [c \in Clients |-> "new"]
    /\ session = [c \in Clients |-> "none"]
    /\ via = [c \in Clients |-> Nil]
    /\ at = [e \in Ends |-> [c \in Clients |-> 0]]
    /\ wire = [e \in Ends |-> [c \in Clients |-> 0]]
    /\ sent = [c \in Clients |-> 0]

-----------------------------------------------------------------------------
(***************************************************************************)
(* The server: Preconnection, Listen and Accept.                           *)
(***************************************************************************)
\* The application gives its Preconnection a local endpoint, to listen or, later,
\* to listen elsewhere as well.
Specify(a) ==
    /\ server = "up"
    /\ pre' = [pre EXCEPT !["app"].local = a]
    /\ given' = [given EXCEPT !.local = a]
    /\ UNCHANGED <<app, lis, queue, acc, server, client, session, via, dataVars>>

\* NewListener calls the selector, if there are preferences, without asking
\* whether there is one.
ListenPanics == Proto = "scion" /\ Preferred /\ ~Selector

\* Every part that is there is copied, not shared.
Copy(p) == [local |-> p.local, remote |-> p.remote]

\* Faulty variant: the listener keeps the application's Preconnection instead
\* of a copy.
NewListenerUncopied(l) ==
    /\ pre' = [pre EXCEPT ![l] = Blank]
    /\ lis' = [lis EXCEPT ![l] = [on |-> "open", addr |-> pre["app"].local,
                                  p |-> "app"]]

\* The Preconnection the listener l keeps.  TCP's keeps none.
Kept(l) == IF Proto = "tcp" THEN Nil ELSE l

\* The protocol makes a listener from a copy of the Preconnection.
NewListener(l) ==
    /\ pre' = [pre EXCEPT ![l] = Copy(pre["app"])]
    /\ lis' = [lis EXCEPT ![l] = [on |-> "open", addr |-> pre["app"].local,
                                  p |-> Kept(l)]]

\* Listen of a Preconnection with a local endpoint.  That it has none, cannot
\* be satisfied or that the address is in use is reported; nothing changes.
Listen(l) ==
    /\ server = "up"
    /\ lis[l].on = "new"
    /\ pre["app"].local # Nil
    /\ \A k \in Listeners : lis[k].on = "open" => lis[k].addr # pre["app"].local
    /\ IF ListenPanics THEN server' = "dead" /\ UNCHANGED <<pre, lis>>
                       ELSE NewListener(l) /\ UNCHANGED server
    /\ UNCHANGED <<app, given, queue, acc, client, session, via, dataVars>>

Loop(l, g, in, c) == acc' = [acc EXCEPT ![l][g] = [in |-> in, peer |-> c]]

\* Accept, up to AcceptStream: a session is taken off the queue and its peer
\* entered into the listener's Preconnection, which TCP's listener lacks.
AcceptSession(l, g) ==
    /\ server = "up"
    /\ lis[l].on = "open"
    /\ acc[l][g].in = "accept"
    /\ queue[l] # <<>>
    /\ queue' = [queue EXCEPT ![l] = Tail(@)]
    /\ IF lis[l].p = Nil
       THEN server' = "dead" /\ UNCHANGED <<pre, acc>>
       ELSE /\ pre' = [pre EXCEPT ![lis[l].p].remote = Head(queue[l])]
            /\ Loop(l, g, "stream", Head(queue[l]))
            /\ UNCHANGED server
    /\ UNCHANGED <<app, given, lis, client, session, via, dataVars>>

\* AcceptStream: the stream of the session shows with its first data.
AcceptStream(l, g) ==
    LET c == acc[l][g].peer
    IN  /\ server = "up"
        /\ acc[l][g].in = "stream"
        /\ session[c] = "up"
        /\ wire["client"][c] > 0
        /\ Loop(l, g, "returned", c)
        /\ UNCHANGED <<app, apiVars, queue, server, client, session, via, dataVars>>

\* Faulty variant: only a session that its client closed ends the wait.
AcceptFailsIfClosed(l, g) ==
    LET c == acc[l][g].peer
    IN  /\ server = "up"
        /\ acc[l][g].in = "stream"
        /\ session[c] = "over"
        /\ client[c] = "closed"
        /\ Loop(l, g, "accept", Nil)
        /\ UNCHANGED <<app, apiVars, queue, server, client, session, via, dataVars>>

\* Faulty variant: AcceptStream gives up on a session that is still up.
AcceptFailsEarly(l, g) ==
    /\ server = "up"
    /\ acc[l][g].in = "stream"
    /\ Loop(l, g, "accept", Nil)
    /\ UNCHANGED <<app, apiVars, queue, server, client, session, via, dataVars>>

\* AcceptStream fails since the session is over: the error is logged and the
\* loop entered again.
AcceptFails(l, g) ==
    LET c == acc[l][g].peer
    IN  /\ server = "up"
        /\ acc[l][g].in = "stream"
        /\ session[c] = "over"
        /\ Loop(l, g, "accept", Nil)
        /\ UNCHANGED <<app, apiVars, queue, server, client, session, via, dataVars>>

\* Accept of a closed listener.  TCP's asks the connection it did not get for its
\* peer; QUIC's returns none, which capacityseeker asks for its Preconnection
\* before it looks at the error, while the other programs log the error and call
\* Accept again.
AcceptClosed(l, g) ==
    /\ server = "up"
    /\ lis[l].on = "closed"
    /\ acc[l][g].in = "accept"
    /\ app = "capacityseeker" \/ Proto = "tcp"
    /\ server' = "dead"
    /\ UNCHANGED <<app, apiVars, queue, acc, client, session, via, dataVars>>

\* The server logs where the connection is from and starts a worker for it.
Dispatch(l, g) ==
    LET c == acc[l][g].peer
    IN  /\ server = "up"
        /\ acc[l][g].in = "returned"
        /\ at' = [at EXCEPT !["server"][c] = 1]
        /\ Loop(l, g, "accept", Nil)
        /\ UNCHANGED <<app, apiVars, queue, server, client, session, via, wire, sent>>

\* Closing a listener closes the sessions it has.
CloseListener(l) ==
    /\ server = "up"
    /\ lis[l].on = "open"
    /\ lis' = [lis EXCEPT ![l].on = "closed"]
    /\ queue' = [queue EXCEPT ![l] = <<>>]
    /\ session' = [c \in Clients |->
           IF via[c] = l /\ session[c] = "up" THEN "over" ELSE session[c]]
    /\ wire' = [e \in Ends |-> [c \in Clients |->
                   IF via[c] = l THEN 0 ELSE wire[e][c]]]
    /\ UNCHANGED <<app, pre, given, acc, server, client, via, at, sent>>

-----------------------------------------------------------------------------
(***************************************************************************)
(* The clients and the workers.  A worker repeats the steps of its program *)
(* until one of them fails.                                                *)
(***************************************************************************)
concurrent == [client |-> <<"write", "read">>, server |-> <<"write", "read">>]

\* Faulty variant: the client waits for the server to speak first.
pingpongReadsFirst ==
    [client |-> <<"read", "write">>, server |-> <<"read", "write">>]

pingpong == [client |-> <<"write", "read">>, server |-> <<"read", "write">>]

\* myCopy, into the connection at the client and out of it at the server.
capacityseeker == [client |-> <<"write">>, server |-> <<"read">>]

Steps(e) == CASE app = "concurrent"     -> concurrent[e]
              [] app = "pingpong"       -> pingpong[e]
              [] app = "capacityseeker" -> capacityseeker[e]

Doing(e, c, op) == at[e][c] # 0 /\ Steps(e)[at[e][c]] = op
Advance(e, c) ==
    at' = [at EXCEPT ![e][c] = IF @ = Len(Steps(e)) THEN 1 ELSE @ + 1]

\* Initiate of a Preconnection with a remote endpoint: the session is made with
\* whatever listens there.
Initiate(c, l) ==
    /\ client[c] = "new"
    /\ server = "up"
    /\ lis[l].on = "open"
    /\ client' = [client EXCEPT ![c] = "up"]
    /\ session' = [session EXCEPT ![c] = "up"]
    /\ via' = [via EXCEPT ![c] = l]
    /\ queue' = [queue EXCEPT ![l] = Append(@, c)]
    /\ at' = [at EXCEPT !["client"][c] = 1]
    /\ UNCHANGED <<app, apiVars, acc, server, wire, sent>>

\* Nothing listens there, and Initiate returns the error.
InitiateFails(c) ==
    /\ client[c] = "new"
    /\ client' = [client EXCEPT ![c] = "failed"]
    /\ UNCHANGED <<app, apiVars, queue, acc, server, session, via, dataVars>>

Runs(e, c) == IF e = "client" THEN client[c] = "up" ELSE server = "up"

Write(e, c) ==
    /\ Runs(e, c)
    /\ session[c] = "up"
    /\ Doing(e, c, "write")
    /\ e = "client" => sent[c] < Messages
    /\ wire' = [wire EXCEPT ![e][c] = @ + 1]
    /\ sent' = IF e = "client" THEN [sent EXCEPT ![c] = @ + 1] ELSE sent
    /\ Advance(e, c)
    /\ UNCHANGED <<app, apiVars, queue, acc, server, client, session, via>>

\* Faulty variant: reading does not wait for a message.
ReadUnblocked(e, c) ==
    /\ Runs(e, c)
    /\ session[c] = "up"
    /\ Doing(e, c, "read")
    /\ wire' = [wire EXCEPT ![Other(e)][c] = @ - 1]
    /\ Advance(e, c)
    /\ UNCHANGED <<app, apiVars, queue, acc, server, client, session, via, sent>>

Read(e, c) ==
    /\ Runs(e, c)
    /\ session[c] = "up"
    /\ Doing(e, c, "read")
    /\ wire[Other(e)][c] > 0
    /\ wire' = [wire EXCEPT ![Other(e)][c] = @ - 1]
    /\ Advance(e, c)
    /\ UNCHANGED <<app, apiVars, queue, acc, server, client, session, via, sent>>

\* The client has written all its bytes and closes the connection.  The stream's
\* end is not waited for, and what the server has not read is dropped.
Finish(c) ==
    /\ client[c] = "up"
    /\ app = "capacityseeker"
    /\ sent[c] = Messages
    /\ client' = [client EXCEPT ![c] = "closed"]
    /\ session' = [session EXCEPT ![c] = "over"]
    /\ wire' = [e \in Ends |-> [wire[e] EXCEPT ![c] = 0]]
    /\ at' = [at EXCEPT !["client"][c] = 0]
    /\ UNCHANGED <<app, apiVars, queue, acc, server, via, sent>>

\* The worker at end e is done, and at the client the process with it.
Leave(e, c) ==
    /\ at' = [at EXCEPT ![e][c] = 0]
    /\ client' = IF e = "client" THEN [client EXCEPT ![c] = "failed"] ELSE client

\* Faulty variant: a worker of the server does not leave its loop.
FailRetries(e, c) ==
    /\ Runs(e, c)
    /\ session[c] = "over"
    /\ at[e][c] # 0
    /\ e = "client"
    /\ Leave(e, c)
    /\ UNCHANGED <<app, apiVars, queue, acc, server, session, via, wire, sent>>

\* The session is over: reading or writing fails and the worker leaves its loop.
\* Closing the connection, which capacityseeker's server does not do, then has no
\* effect.
Fail(e, c) ==
    /\ Runs(e, c)
    /\ session[c] = "over"
    /\ at[e][c] # 0
    /\ Leave(e, c)
    /\ UNCHANGED <<app, apiVars, queue, acc, server, session, via, wire, sent>>

\* A client process is ended, without closing anything.
Kill(c) ==
    /\ client[c] = "up"
    /\ client' = [client EXCEPT ![c] = "gone"]
    /\ at' = [at EXCEPT !["client"][c] = 0]
    /\ UNCHANGED <<app, apiVars, queue, acc, server, session, via, wire, sent>>

\* Nothing is on the way, or nobody is there to send or to acknowledge it.
IdleTimeout(c) ==
    /\ session[c] = "up"
    /\ \/ \A e \in Ends : wire[e][c] = 0
       \/ client[c] # "up"
       \/ server = "dead"
    /\ session' = [session EXCEPT ![c] = "over"]
    /\ wire' = [e \in Ends |-> [wire[e] EXCEPT ![c] = 0]]
    /\ UNCHANGED <<app, apiVars, queue, acc, server, client, via, at, sent>>

-----------------------------------------------------------------------------
Serve(l, g) ==
    \/ AcceptSession(l, g)
    \/ AcceptStream(l, g)
    \/ AcceptFails(l, g)
    \/ AcceptClosed(l, g)
    \/ Dispatch(l, g)

Work(e, c) == Write(e, c) \/ Read(e, c) \/ Fail(e, c)

Next ==
    \/ \E a \in Addrs : Specify(a)
    \/ \E l \in Listeners :
          \/ Listen(l)
          \/ CloseListener(l)
          \/ \E g \in Loops : Serve(l, g)
          \/ \E c \in Clients : Initiate(c, l)
    \/ \E c \in Clients :
          \/ InitiateFails(c)
          \/ Finish(c)
          \/ Kill(c)
          \/ IdleTimeout(c)
          \/ \E e \in Ends : Work(e, c)

Spec == Init /\ [][Next]_vars

\* The server's goroutines are scheduled and quic-go's idle timer expires; what
\* a client does is up to it.
FairSpec ==
    /\ Spec
    /\ \A l \in Listeners, g \in Loops : WF_vars(Serve(l, g))
    /\ \A c \in Clients : WF_vars(Work("server", c)) /\ WF_vars(IdleTimeout(c))

-----------------------------------------------------------------------------
(***************************************************************************)
(* Properties.                                                             *)
(***************************************************************************)
\* What the application put into its Preconnection is still there, and the
\* Preconnection of a listener names the address it listens on, whatever the
\* listeners accept and however the Preconnection is reused (Copy in Listen).
CopyIsolates ==
    /\ pre["app"] = given
    /\ \A l \in Listeners :
          lis[l].p # Nil => pre[lis[l].p].local = lis[l].addr

\* README.md:36 names "TCP/IP support": nothing makes the server dereference nil
\* in Listen or Accept.  TCP's listener has no Preconnection (tcp.go:67), which
\* Accept writes into.
NeverPanics == server = "up"

\* Where the session of c waits to be accepted, and the goroutines that are
\* accepting it.
QueuedAt(c) ==
    UNION {{l} \X {i \in DOMAIN queue[l] : queue[l][i] = c} : l \in Listeners}
LoopsWith(c) ==
    {x \in Listeners \X Loops : /\ acc[x[1]][x[2]].in # "accept"
                               /\ acc[x[1]][x[2]].peer = c}

Single(S) == \E x \in S : S = {x}

\* The server neither loses a session that is up nor serves it twice: it waits
\* once in one queue, or one goroutine is accepting it, or it has its worker,
\* whatever became of the streams and the listeners of others (Accept takes the
\* session off the queue before it waits for the stream, and the programs drop
\* what Accept returns with an error).
ServedOnce ==
    server = "up" =>
        \A c \in Clients : session[c] = "up" =>
            \/ Single(QueuedAt(c)) /\ LoopsWith(c) = {} /\ at["server"][c] = 0
            \/ QueuedAt(c) = {} /\ Single(LoopsWith(c)) /\ at["server"][c] = 0
            \/ QueuedAt(c) = {} /\ LoopsWith(c) = {} /\ at["server"][c] # 0

\* The two ends of a session never wait for each other: the server, for a
\* stream or for a message, and the client, for a message.
NoStandoff ==
    \A c \in Clients :
        session[c] = "up" /\ Doing("client", c, "read") /\ wire["server"][c] = 0 =>
            ~ /\ wire["client"][c] = 0
              /\ \/ Doing("server", c, "read")
                 \/ \E l \in Listeners, g \in Loops :
                       acc[l][g] = [in |-> "stream", peer |-> c]

\* A session that waits to be accepted does not wait forever behind a peer
\* that never writes (AcceptStream blocks the accept loop), while the server
\* runs.
EventuallyAccepted ==
    \A l \in Listeners, c \in Clients :
        (\E i \in DOMAIN queue[l] : queue[l][i] = c) ~>
            \/ ~ \E i \in DOMAIN queue[l] : queue[l][i] = c
            \/ server = "dead"

\* The worker of a client that is gone, closed or not, ends: none is left
\* behind, also not one that was started after the client had gone.
WorkersEnd ==
    \A c \in Clients :
        client[c] \in {"closed", "failed", "gone"} ~>
            at["server"][c] = 0 \/ server = "dead"

=============================================================================
