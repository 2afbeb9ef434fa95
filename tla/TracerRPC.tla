------------------------------ MODULE TracerRPC ------------------------------
(***************************************************************************)
(* QUIC telemetry over RPC: the tracers rpc/tracer.go and                  *)
(* rpc/connection_tracer.go give quic-go, and the handlers lua/stats.go    *)
(* runs in the daemon.                                                     *)
(*                                                                         *)
(* A process has one rpc.Client, shared by its selector and its tracers,   *)
(* and traces several sessions through it.  A session reports its events   *)
(* one at a time: a tracer method returns when the daemon has answered,    *)
(* and ends the process (Fatalln) on any error.  net/rpc serves every      *)
(* request in its own goroutine.  ConnectionTracerServer checks a request  *)
(* and passes it to Stats, whose handler waits for the Lua mutex and holds *)
(* it while the script runs.  The selector's handlers take the same mutex, *)
(* and one of them may never give it back: bandwidth.lua's Path calls      *)
(* itself for as long as it finds no path (LuaSelector, PathReturns).      *)
(*                                                                         *)
(* The twenty-seven events differ in what they carry.  Those with a        *)
(* pointer that is dereferenced keep their names; "Plain" stands for the   *)
(* others, whose fields the script is handed as they are.                  *)
(***************************************************************************)
EXTENDS Naturals, Sequences

CONSTANTS
    Sessions,   \* the QUIC sessions the process traces
    Script,     \* the events the loaded script has a stats function for
    Zero,       \* whether an event may carry a zero value behind a pointer
    Stray,      \* whether packets outside any session are reported
    Stops,      \* whether the daemon may be stopped
    Spins,      \* whether the script's Path may call itself forever
    Dialled,    \* the sessions dialled with the process's SelectorClient
    MaxPlain    \* bound on the events a session reports while it is open

Opening == {"TracerForConnection", "StartedConnection"}
Running == {"Plain", "SetLossTimer", "Debug"}
Closing == {"ClosedConnection", "Close"}
Events == Opening \cup Running \cup Closing

\* The events that carry a pointer the daemon dereferences.
Pointed == Opening \cup {"SetLossTimer", "Debug", "ClosedConnection"}

ASSUME ScriptAssumption == Script \subseteq Events
ASSUME InputAssumption == /\ Zero \in BOOLEAN
                          /\ Stray \in BOOLEAN
                          /\ Stops \in BOOLEAN
                          /\ Spins \in BOOLEAN
ASSUME DialledAssumption == Dialled \subseteq Sessions
ASSUME BoundAssumption == MaxPlain \in Nat

VARIABLES
    stage,      \* session -> the last life-cycle event it reported
    named,      \* session -> whether its tracer knows local and remote
    left,       \* session -> events it may still report while open
    call,       \* session -> the call its tracer has in flight
    client,     \* whether the process runs or was ended by Fatalln
    conn,       \* the connection of the shared rpc.Client
    daemon,     \* whether the daemon runs
    stuck,      \* whether a selector's handler holds the Lua mutex for good
    said,       \* session -> what its tracer has been called with, in order
    seen        \* session -> what the script has been told of it, in order

vars == <<stage, named, left, call, client, conn, daemon, stuck, said, seen>>

Stages == {"new", "TracerForConnection", "StartedConnection",
           "ClosedConnection", "Close"}

\* A message: the event, whether Local and Remote are set, and whether the
\* pointers the event adds arrive.  "lost" is a request the daemon cannot read.
Msgs == [ev : Events, named : BOOLEAN, full : BOOLEAN]
Nothing == [at |-> "idle"]
Calls == {Nothing} \cup
         [at : {"sent", "lost", "locking", "answered", "refused"}, msg : Msgs]
Notices == [ev : Events, named : BOOLEAN]

TypeOK ==
    /\ stage \in [Sessions -> Stages]
    /\ named \in [Sessions -> BOOLEAN]
    /\ left \in [Sessions -> 0..MaxPlain]
    /\ call \in [Sessions -> Calls]
    /\ client \in {"running", "killed"}
    /\ conn \in {"up", "torn", "draining", "down"}
    /\ daemon \in BOOLEAN
    /\ stuck \in BOOLEAN
    /\ said \in [Sessions -> Seq(Notices)]
    /\ seen \in [Sessions -> Seq(Notices)]

Init ==
    /\ stage = [s \in Sessions |-> "new"]
    /\ named = [s \in Sessions |-> FALSE]
    /\ left = [s \in Sessions |-> MaxPlain]
    /\ call = [s \in Sessions |-> Nothing]
    /\ client = "running"
    /\ conn = "up"
    /\ daemon = TRUE
    /\ stuck = FALSE
    /\ said = [s \in Sessions |-> <<>>]
    /\ seen = [s \in Sessions |-> <<>>]

-----------------------------------------------------------------------------
(***************************************************************************)
(* The client side.  quic-go creates the tracer, reports the start, then   *)
(* what happens, then the end; as a server it may have something to report *)
(* before the first packet starts the connection, and the packet that      *)
(* closes a connection is reported after its end.                          *)
(***************************************************************************)

\* The tracer of s sends event ev.  gob leaves out a pointer to a zero value.
\* On a connection that is not up the request is lost: what follows a request
\* that broke off is not read as one, and a closed client sends nothing.
Call(s, ev, known) ==
    /\ client = "running"
    /\ call[s] = Nothing
    /\ \E full \in IF Zero /\ ev \in Pointed THEN BOOLEAN ELSE {TRUE} :
         call' = [call EXCEPT ![s] =
                    [at |-> IF conn = "up" THEN "sent" ELSE "lost",
                     msg |-> [ev |-> ev, named |-> known, full |-> full]]]
    /\ said' = [said EXCEPT ![s] = Append(@, [ev |-> ev, named |-> known])]
    /\ conn' = IF conn = "torn" THEN "draining" ELSE conn
    /\ UNCHANGED <<client, daemon, stuck, seen>>

NewConnectionTracerClient(s) ==
    /\ stage[s] = "new"
    /\ Call(s, "TracerForConnection", FALSE)
    /\ stage' = [stage EXCEPT ![s] = "TracerForConnection"]
    /\ UNCHANGED <<named, left>>

\* Faulty variant: the tracer does not keep the addresses.
StartedConnectionForgets(s) ==
    /\ stage[s] = "TracerForConnection"
    /\ Call(s, "StartedConnection", TRUE)
    /\ stage' = [stage EXCEPT ![s] = "StartedConnection"]
    /\ UNCHANGED <<named, left>>

\* The tracer keeps the addresses before it calls.
StartedConnection(s) ==
    /\ stage[s] = "TracerForConnection"
    /\ Call(s, "StartedConnection", TRUE)
    /\ stage' = [stage EXCEPT ![s] = "StartedConnection"]
    /\ named' = [named EXCEPT ![s] = TRUE]
    /\ UNCHANGED left

Report(s, ev) ==
    /\ stage[s] \in Opening \/ (stage[s] = "ClosedConnection" /\ ev = "Plain")
    /\ left[s] > 0
    /\ Call(s, ev, named[s])
    /\ left' = [left EXCEPT ![s] = @ - 1]
    /\ UNCHANGED <<stage, named>>

PlainEvent(s) == Report(s, "Plain")
SetLossTimer(s) == Report(s, "SetLossTimer")
Debug(s) == Report(s, "Debug")

ClosedConnection(s) ==
    /\ stage[s] \in Opening
    /\ Call(s, "ClosedConnection", named[s])
    /\ stage' = [stage EXCEPT ![s] = "ClosedConnection"]
    /\ UNCHANGED <<named, left>>

Close(s) ==
    /\ stage[s] = "ClosedConnection"
    /\ Call(s, "Close", named[s])
    /\ stage' = [stage EXCEPT ![s] = "Close"]
    /\ UNCHANGED <<named, left>>

\* Faulty variant: the tracer does not wait for the answer.
ReturnEarly(s) ==
    /\ client = "running"
    /\ call[s].at \in {"sent", "locking", "answered"}
    /\ call' = [call EXCEPT ![s] = Nothing]
    /\ UNCHANGED <<stage, named, left, client, conn, daemon, stuck, said, seen>>

\* The call returns without an error.
Return(s) ==
    /\ client = "running"
    /\ call[s].at = "answered"
    /\ call' = [call EXCEPT ![s] = Nothing]
    /\ UNCHANGED <<stage, named, left, client, conn, daemon, stuck, said, seen>>

\* Faulty variants: only the errors of handlers end the call, not those of the
\* connection, and the error is dropped, as TracerClient does.
FatalOnlyRefused(s) ==
    /\ client = "running"
    /\ call[s].at = "refused"
    /\ client' = "killed"
    /\ conn' = "down"
    /\ UNCHANGED <<stage, named, left, call, daemon, stuck, said, seen>>

FatalIgnored(s) ==
    /\ client = "running"
    /\ \/ call[s].at = "refused"
       \/ conn = "down" /\ call[s] # Nothing
    /\ call' = [call EXCEPT ![s] = Nothing]
    /\ UNCHANGED <<stage, named, left, client, conn, daemon, stuck, said, seen>>

\* The call returns an error, the handler's or the connection's, and the
\* tracer ends the process.
Fatal(s) ==
    /\ client = "running"
    /\ \/ call[s].at = "refused"
       \/ conn = "down" /\ call[s] # Nothing
    /\ client' = "killed"
    /\ conn' = "down"
    /\ UNCHANGED <<stage, named, left, call, daemon, stuck, said, seen>>

\* A packet of no session is reported.  Its address is of a type gob does not
\* know, so the message breaks off after the request's header; TracerClient
\* drops the error, and the header stays in the buffer for the next call.
StrayPacket ==
    /\ Stray
    /\ client = "running"
    /\ conn = "up"
    /\ conn' = "torn"
    /\ UNCHANGED <<stage, named, left, call, client, daemon, stuck, said, seen>>

\* The application closes a dialled connection whose session has ended; the
\* selector's Close closes the client the tracers share.
CloseClient ==
    /\ client = "running"
    /\ \E s \in Dialled : stage[s] = "Close" /\ call[s] = Nothing
    /\ conn # "down"
    /\ conn' = "down"
    /\ UNCHANGED <<stage, named, left, call, client, daemon, stuck, said, seen>>

-----------------------------------------------------------------------------
(***************************************************************************)
(* The daemon.                                                             *)
(***************************************************************************)

\* NewStats registers an empty function for every event but Close.
Callable(ev) == ev \in (Events \ {"Close"}) \cup Script

\* The handlers of ConnectionTracerServer that answer ErrDeref.
Derefs(msg) ==
    ~msg.full /\ msg.ev \in Opening \cup {"SetLossTimer", "Debug"}

\* ClosedConnection turns a message that is missing into a nil error, which
\* Stats.ClosedConnection dereferences.
Panics(msg) == ~msg.full /\ msg.ev = "ClosedConnection"

\* What a handler of Stats passes to the script; of an address that is nil it
\* makes the string "<nil>".
Told(msg) == [ev |-> msg.ev, named |-> msg.named]

\* ConnectionTracerServer answers ErrDeref or calls the handler of Stats, which
\* asks for the Lua mutex.
Handle(s) ==
    /\ daemon
    /\ call[s].at = "sent"
    /\ call' = [call EXCEPT ![s].at = IF Derefs(call[s].msg) THEN "refused"
                                                            ELSE "locking"]
    /\ UNCHANGED <<stage, named, left, client, conn, daemon, stuck, said, seen>>

\* Faulty variant: the handler does not pass the addresses on.
TellUnnamed(s) ==
    LET msg == call[s].msg
        done == Callable(msg.ev) IN
    /\ daemon
    /\ ~stuck
    /\ call[s].at = "locking"
    /\ ~Panics(msg)
    /\ call' = [call EXCEPT ![s].at = IF done THEN "answered" ELSE "refused"]
    /\ seen' = IF done THEN [seen EXCEPT ![s] = Append(@, [ev |-> msg.ev])] ELSE seen
    /\ UNCHANGED <<stage, named, left, client, conn, daemon, stuck, said>>

\* A handler of Stats gets the Lua mutex, calls the script and gives it back.
\* Its request need not have its caller any more.
Tell(s) ==
    LET msg == call[s].msg
        done == Callable(msg.ev) IN
    /\ daemon
    /\ ~stuck
    /\ call[s].at = "locking"
    /\ ~Panics(msg)
    /\ call' = [call EXCEPT ![s].at = IF done THEN "answered" ELSE "refused"]
    /\ seen' = IF done THEN [seen EXCEPT ![s] = Append(@, Told(msg))] ELSE seen
    /\ UNCHANGED <<stage, named, left, client, conn, daemon, stuck, said>>

\* A selector's handler gets the mutex and the script's Path does not return.
Spin ==
    /\ Spins
    /\ daemon
    /\ ~stuck
    /\ stuck' = TRUE
    /\ UNCHANGED <<stage, named, left, call, client, conn, daemon, said, seen>>

\* The daemon exits, and its end of the connection with it.
DaemonExits ==
    /\ daemon
    /\ daemon' = FALSE
    /\ stuck' = FALSE
    /\ conn' = "down"
    /\ UNCHANGED <<stage, named, left, call, client, said, seen>>

Panic(s) ==
    /\ ~stuck
    /\ call[s].at = "locking"
    /\ Panics(call[s].msg)
    /\ DaemonExits

Stop == Stops /\ DaemonExits

\* net/rpc cannot read a request: it finishes the requests before it and
\* closes the connection.
Drain ==
    /\ daemon
    /\ conn = "draining"
    /\ \A s \in Sessions : call[s].at \notin {"sent", "locking"}
    /\ conn' = "down"
    /\ UNCHANGED <<stage, named, left, call, client, daemon, stuck, said, seen>>

-----------------------------------------------------------------------------
Tracer(s) ==
    \/ NewConnectionTracerClient(s)
    \/ StartedConnection(s)
    \/ PlainEvent(s)
    \/ SetLossTimer(s)
    \/ Debug(s)
    \/ ClosedConnection(s)
    \/ Close(s)

Steps(s) == Return(s) \/ Fatal(s) \/ Handle(s) \/ Tell(s) \/ Panic(s)

Next ==
    \/ \E s \in Sessions : Tracer(s) \/ Steps(s)
    \/ StrayPacket
    \/ CloseClient
    \/ Spin
    \/ Stop
    \/ Drain

Spec == Init /\ [][Next]_vars

\* The goroutines of both processes and net/rpc's reader are scheduled, and
\* Go's mutex goes to whoever waits for it once it is given back.
FairSpec ==
    /\ Spec
    /\ \A s \in Sessions : WF_vars(Steps(s))
    /\ WF_vars(Drain)

-----------------------------------------------------------------------------
\* The script hears of a session exactly what its tracer was called with, in
\* that order, and lags behind by one report at most: none is skipped, told
\* twice or overtaken, however the handlers of the sessions interleave, wherever
\* a call fails and whoever is gone (tracer methods that wait for the answer,
\* connection_tracer.go).
InOrder ==
    \A s \in Sessions :
        /\ Len(said[s]) \in {Len(seen[s]), Len(seen[s]) + 1}
        /\ \A i \in DOMAIN seen[s] : seen[s][i] = said[s][i]

\* An event reaches the script under the addresses of its session exactly if
\* the script has been told that the session started; before that it comes
\* with the name of no address (new_msg, StartedConnection).
NamedOnceStarted ==
    \A s \in Sessions : \A j \in DOMAIN seen[s] :
        seen[s][j].named <=> \E i \in 1..j : seen[s][i].ev = "StartedConnection"

\* In a process that runs, every method of a connection's tracer that has
\* returned has told the script, whichever event it reported: no failure goes
\* unnoticed (Fatalln on every error).  The two methods of TracerClient, for
\* packets of no connection, drop their errors and tell nothing.
NothingLost ==
    \A s \in Sessions :
        client = "running" /\ call[s] = Nothing => seen[s] = said[s]

\* A tracer method returns or the process ends, even when the daemon stops, the
\* shared client is closed or a stray packet has torn the stream (net/rpc's
\* Call): a report waits forever only behind a Path that holds the Lua mutex
\* forever, and not even then once the daemon ends.
ReportsReturn ==
    \A s \in Sessions :
        call[s] # Nothing ~> call[s] = Nothing \/ client = "killed" \/ stuck

\* Reporting what QUIC does never ends the process that reports it (Fatalln in
\* every tracer method).
NeverKilled == client = "running"
=============================================================================
