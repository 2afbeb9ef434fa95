----------------------------- MODULE SelectorRPC -----------------------------
(***************************************************************************)
(* Path selection over RPC, rpc/selector.go: the SelectorClient of each    *)
(* connection, the calls in flight, and a daemon that has fallen back to   *)
(* serverSelector with one default selector per connection.                *)
(*                                                                         *)
(* A SelectorClient is called from several goroutines of its process: the  *)
(* one that dials, the application's, the packet writer, the path pool's   *)
(* refresher and the reader of SCMP messages.  Each has at most one call   *)
(* in flight; net/rpc serves every request in a goroutine of its own, so   *)
(* the steps of the handlers interleave.  Neither the client's map of      *)
(* paths nor the server's map of selectors is guarded by a lock.  Go       *)
(* leaves overlapping accesses to a map undefined: the runtime may         *)
(* terminate the process, or not notice.                                   *)
(***************************************************************************)
EXTENDS Naturals

CONSTANTS
    Conns,      \* connections, each a process with a SelectorClient
    Threads,    \* the goroutines considered, a subset of AllThreads
    Fps,        \* path fingerprints
    Overlap,    \* the application may call SetPreferences during Initiate
    MaxSels,    \* bound on the selectors made per connection
    Nil

AllThreads == {"dial", "app", "writer", "pool", "scmp"}

ASSUME ThreadsAssumption == Threads \subseteq AllThreads
ASSUME OverlapAssumption == Overlap \in BOOLEAN
ASSUME BoundAssumption == MaxSels \in Nat
ASSUME NilAssumption == Nil \notin Fps

VARIABLES
    life,       \* connection -> what its process does with it
    live,       \* connection -> keys of the client's map paths that have a path
    reported,   \* connection -> fingerprints it has reported down and has not
                \* been offered again since
    got,        \* connection -> what Path returned, until it is called again
    call,       \* connection, goroutine -> the call it has in flight
    selectors,  \* connection -> the selector the server's map has, 0 if none
    made,       \* connection -> number of selectors made for it
    sel,        \* connection, selector -> the paths and the current path
    daemon      \* whether the daemon process runs

vars == <<life, live, reported, got, call, selectors, made, sel, daemon>>

Lives == {"new", "dialing", "open", "closing", "closed", "killed"}
Ops == {"none", "Initialize", "SetPreferences", "Path", "PathDown", "Refresh",
        "Close"}
Stages == {"idle", "local", "sent", "missing", "storing", "found", "deleting",
           "replied"}
Calls == [op : Ops, at : Stages, arg : SUBSET Fps, obj : 0..MaxSels,
          ans : Fps \cup {Nil}]
Idle == [op |-> "none", at |-> "idle", arg |-> {}, obj |-> 0, ans |-> Nil]
Selectors == [paths : SUBSET Fps, cur : Fps \cup {Nil}]
Empty == [paths |-> {}, cur |-> Nil]

TypeOK ==
    /\ life \in [Conns -> Lives]
    /\ live \in [Conns -> SUBSET Fps]
    /\ reported \in [Conns -> SUBSET Fps]
    /\ got \in [Conns -> Fps \cup {Nil}]
    /\ call \in [Conns -> [Threads -> Calls]]
    /\ selectors \in [Conns -> 0..MaxSels]
    /\ made \in [Conns -> 0..MaxSels]
    /\ sel \in [Conns -> [1..MaxSels -> Selectors]]
    /\ daemon \in BOOLEAN

Init ==
    /\ life = [c \in Conns |-> "new"]
    /\ live = [c \in Conns |-> {}]
    /\ reported = [c \in Conns |-> {}]
    /\ got = [c \in Conns |-> Nil]
    /\ call = [c \in Conns |-> [t \in Threads |-> Idle]]
    /\ selectors = [c \in Conns |-> 0]
    /\ made = [c \in Conns |-> 0]
    /\ sel = [c \in Conns |-> [i \in 1..MaxSels |-> Empty]]
    /\ daemon = TRUE

-----------------------------------------------------------------------------
(***************************************************************************)
(* The client side.  A call that first writes the map paths starts in      *)
(* stage "local"; the others go out at once.                               *)
(***************************************************************************)
clientVars == <<life, live, reported, got>>
serverVars == <<selectors, made, sel, daemon>>

\* The call of goroutine t of c is now m.
Now(c, t, m) == call' = [call EXCEPT ![c][t] = m]

\* Goroutine t of c begins a call of op.
Begin(c, t, op, stage, arg) ==
    /\ t \in Threads
    /\ call[c][t] = Idle
    /\ Now(c, t, [Idle EXCEPT !.op = op, !.at = stage, !.arg = arg])
    /\ got' = [got EXCEPT ![c] = IF op = "Path" THEN Nil ELSE @]
    /\ UNCHANGED <<live, reported, serverVars>>

InUse(c) == life[c] \in {"open", "closing"}

Initialize(c, S) ==
    /\ life[c] = "new"
    /\ life' = [life EXCEPT ![c] = "dialing"]
    /\ Begin(c, "dial", "Initialize", "local", S)

\* Before Initialize the addresses are not known and no call is made.
SetPreferences(c) ==
    /\ life[c] = "open" \/ (Overlap /\ life[c] = "dialing")
    /\ Begin(c, "app", "SetPreferences", "sent", {})
    /\ UNCHANGED life

Path(c) ==
    /\ InUse(c)
    /\ Begin(c, "writer", "Path", "sent", {})
    /\ UNCHANGED life

PathDown(c, fp) ==
    /\ InUse(c)
    /\ Begin(c, "scmp", "PathDown", "local", {fp})
    /\ UNCHANGED life

Refresh(c, S) ==
    /\ InUse(c)
    /\ Begin(c, "pool", "Refresh", "local", S)
    /\ UNCHANGED life

Close(c) ==
    /\ life[c] = "open"
    /\ life' = [life EXCEPT ![c] = "closing"]
    /\ Begin(c, "app", "Close", "sent", {})

\* What the program has said last of the fingerprints in the call m: that they
\* are down, or that they are there.
Notes(c, m) ==
    reported' = [reported EXCEPT ![c] = IF m.op = "PathDown" THEN @ \cup m.arg
                                                             ELSE @ \ m.arg]

\* Faulty variant: only Initialize enters its paths into the map.
StoreOnlyInitial(c, t) ==
    LET m == call[c][t]
    IN  /\ m.at = "local"
        /\ live' = [live EXCEPT ![c] = IF m.op = "PathDown" THEN @ \ m.arg
                                       ELSE IF m.op = "Initialize" THEN @ \cup m.arg
                                       ELSE @]
        /\ Notes(c, m)
        /\ Now(c, t, [m EXCEPT !.at = "sent"])
        /\ UNCHANGED <<life, got, serverVars>>

\* The map paths is written, by PathDown with nil, then the request goes out.
Store(c, t) ==
    LET m == call[c][t]
    IN  /\ m.at = "local"
        /\ live' = [live EXCEPT ![c] = IF m.op = "PathDown" THEN @ \ m.arg
                                                            ELSE @ \cup m.arg]
        /\ Notes(c, m)
        /\ Now(c, t, [m EXCEPT !.at = "sent"])
        /\ UNCHANGED <<life, got, serverVars>>

\* s.paths[*msg.Fingerprint]: nil for no key and for a key PathDown set to nil.
PathOf(c, fp) == IF fp \in live[c] THEN fp ELSE Nil

\* The reply arrives.  Close goes on to close the RPC client; Path looks the
\* fingerprint up in the map paths.  A process that is gone takes no notice.
Return(c, t) ==
    LET m == call[c][t]
    IN  /\ daemon
        /\ m.at = "replied"
        /\ life' = [life EXCEPT ![c] = IF @ = "killed" THEN @
                                       ELSE IF m.op = "Initialize" THEN "open"
                                       ELSE IF m.op = "Close" THEN "closed"
                                       ELSE @]
        /\ got' = [got EXCEPT ![c] = IF life[c] # "killed" /\ m.op = "Path"
                                     THEN PathOf(c, m.ans) ELSE @]
        /\ Now(c, t, Idle)
        /\ UNCHANGED <<live, reported, serverVars>>

\* The process of c terminates; only the requests it has sent remain.
Exit(c) ==
    /\ life' = [life EXCEPT ![c] = "killed"]
    /\ live' = [live EXCEPT ![c] = {}]
    /\ reported' = [reported EXCEPT ![c] = {}]
    /\ got' = [got EXCEPT ![c] = Nil]
    /\ call' = [call EXCEPT ![c] = [t \in Threads |->
                   IF ~daemon \/ call[c][t].at \in {"local", "replied"}
                   THEN Idle ELSE call[c][t]]]
    /\ UNCHANGED serverVars

\* The RPC client is closed, by Close or because the daemon is gone: the call
\* fails.  SetPreferences and Close report the error to their caller ...
FailReported(c, t) ==
    LET m == call[c][t]
    IN  /\ life[c] # "killed"
        /\ ~daemon
        /\ m.at # "local"
        /\ m.op \in {"SetPreferences", "Close"}
        /\ life' = [life EXCEPT ![c] = IF m.op = "Close" THEN "closed" ELSE @]
        /\ Now(c, t, Idle)
        /\ UNCHANGED <<live, reported, got, serverVars>>

\* Faulty variant: that the daemon is gone is not noticed.
FailFatalAfterClose(c, t) ==
    LET m == call[c][t]
    IN  /\ life[c] = "closed"
        /\ m.at # "local"
        /\ m.op \in {"Initialize", "Path", "PathDown", "Refresh"}
        /\ Exit(c)

\* ... the others terminate the process (log.Fatalln).
FailFatal(c, t) ==
    LET m == call[c][t]
    IN  /\ life[c] # "killed"
        /\ ~daemon \/ life[c] = "closed"
        /\ m.at # "local"
        /\ m.op \in {"Initialize", "Path", "PathDown", "Refresh"}
        /\ Exit(c)

\* Two goroutines are in the map paths, one of them writing.
Reads(m) == m.at = "replied" /\ m.ans # Nil
ClientRace(c) ==
    /\ life[c] # "killed"
    /\ \E t, u \in Threads :
          /\ t # u
          /\ call[c][t].at = "local"
          /\ call[c][u].at = "local" \/ Reads(call[c][u])
    /\ Exit(c)

-----------------------------------------------------------------------------
(***************************************************************************)
(* The server side: the goroutine that handles a request.                  *)
(***************************************************************************)
\* Faulty variant: the map is keyed by pointers, so nothing is ever found.
LookupByPointer(c, t) ==
    /\ daemon
    /\ call[c][t].at = "sent"
    /\ Now(c, t, [call[c][t] EXCEPT !.at = "missing"])
    /\ UNCHANGED <<clientVars, serverVars>>

\* getSelector, the lookup.
Lookup(c, t) ==
    /\ daemon
    /\ call[c][t].at = "sent"
    /\ Now(c, t, [call[c][t] EXCEPT
           !.at = IF selectors[c] = 0 THEN "missing" ELSE "found",
           !.obj = selectors[c]])
    /\ UNCHANGED <<clientVars, serverVars>>

\* getSelector without an entry: a selector is made ...
Make(c, t) ==
    /\ daemon
    /\ call[c][t].at = "missing"
    /\ made[c] < MaxSels
    /\ made' = [made EXCEPT ![c] = @ + 1]
    /\ Now(c, t, [call[c][t] EXCEPT !.at = "storing", !.obj = made[c] + 1])
    /\ UNCHANGED <<clientVars, selectors, sel, daemon>>

\* Faulty variant: the selector serves this request and is not entered.
EnterForgets(c, t) ==
    /\ daemon
    /\ call[c][t].at = "storing"
    /\ Now(c, t, [call[c][t] EXCEPT !.at = "found"])
    /\ UNCHANGED <<clientVars, serverVars>>

\* ... and entered into the map.
Enter(c, t) ==
    /\ daemon
    /\ call[c][t].at = "storing"
    /\ selectors' = [selectors EXCEPT ![c] = call[c][t].obj]
    /\ Now(c, t, [call[c][t] EXCEPT !.at = "found"])
    /\ UNCHANGED <<clientVars, made, sel, daemon>>

\* The default selector of package pan: Refresh keeps the current path if it
\* is still there.  PathDown may fail over to another path: pan looks for the
\* reported fingerprint and for the reported interface in the current path, so
\* the path it leaves need not be the one that is named.
DefaultSelector(s, m, n) ==
    CASE m.op = "Initialize" -> n.paths = m.arg /\ n.cur \in m.arg
      [] m.op = "Refresh"    -> /\ n.paths = m.arg
                                /\ n.cur \in m.arg
                                /\ s.cur \in m.arg => n.cur = s.cur
      [] m.op = "PathDown"   -> /\ n.paths = s.paths
                                /\ n.cur = s.cur \/ n.cur \in s.paths
      [] OTHER               -> n = s

\* Faulty variant: the answer is what the selector knows, not what it chose.
ApplyAnswersAll(c, t, n) ==
    LET m == call[c][t]
    IN  /\ daemon
        /\ m.at = "found"
        /\ DefaultSelector(sel[c][m.obj], m, n)
        /\ sel' = [sel EXCEPT ![c][m.obj] = n]
        /\ Now(c, t, [m EXCEPT
               !.at = IF m.op = "Close" THEN "deleting" ELSE "replied",
               !.ans = n.paths])
        /\ UNCHANGED <<clientVars, selectors, made, daemon>>

\* The handler calls the selector it got; Close then deletes the entry.
Apply(c, t, n) ==
    LET m == call[c][t]
    IN  /\ daemon
        /\ m.at = "found"
        /\ DefaultSelector(sel[c][m.obj], m, n)
        /\ sel' = [sel EXCEPT ![c][m.obj] = n]
        /\ Now(c, t, [m EXCEPT
               !.at = IF m.op = "Close" THEN "deleting" ELSE "replied",
               !.ans = IF m.op = "Path" THEN n.cur ELSE Nil])
        /\ UNCHANGED <<clientVars, selectors, made, daemon>>

Delete(c, t) ==
    /\ daemon
    /\ call[c][t].at = "deleting"
    /\ selectors' = [selectors EXCEPT ![c] = 0]
    /\ Now(c, t, [call[c][t] EXCEPT !.at = "replied"])
    /\ UNCHANGED <<clientVars, made, sel, daemon>>

\* The daemon process ends; the calls sent to it stay unanswered.
Down ==
    /\ daemon' = FALSE
    /\ selectors' = [c \in Conns |-> 0]
    /\ made' = [c \in Conns |-> 0]
    /\ sel' = [c \in Conns |-> [i \in 1..MaxSels |-> Empty]]
    /\ call' = [c \in Conns |-> [t \in Threads |->
                   LET m == call[c][t]
                   IN  IF m.at \in {"idle", "local"} THEN m
                       ELSE IF life[c] = "killed" THEN Idle
                       ELSE [Idle EXCEPT !.op = m.op, !.at = "sent"]]]
    /\ UNCHANGED clientVars

\* One handler writes the map selectors while another one is in it.
InMap(m) == m.at \in {"sent", "storing", "deleting"}
ServerRace ==
    /\ daemon
    /\ \E c, d \in Conns, t, u \in Threads :
          /\ <<c, t>> # <<d, u>>
          /\ call[c][t].at \in {"storing", "deleting"}
          /\ InMap(call[d][u])
    /\ Down

\* The daemon is stopped by a signal.
Stop == daemon /\ Down

-----------------------------------------------------------------------------
\* pan reports at least one path.
PathSets == SUBSET Fps \ {{}}

Steps(c, t) ==
    \/ Store(c, t)
    \/ Return(c, t)
    \/ FailReported(c, t)
    \/ FailFatal(c, t)
    \/ Lookup(c, t)
    \/ Make(c, t)
    \/ Enter(c, t)
    \/ \E n \in Selectors : Apply(c, t, n)
    \/ Delete(c, t)

Next ==
    \/ \E c \in Conns :
          \/ \E S \in PathSets : Initialize(c, S) \/ Refresh(c, S)
          \/ SetPreferences(c)
          \/ Path(c)
          \/ \E fp \in Fps : PathDown(c, fp)
          \/ Close(c)
          \/ ClientRace(c)
          \/ \E t \in Threads : Steps(c, t)
    \/ ServerRace
    \/ Stop

Spec == Init /\ [][Next]_vars

\* The goroutines of the client and of the server are scheduled.
FairSpec == Spec /\ \A c \in Conns, t \in Threads : WF_vars(Steps(c, t))

-----------------------------------------------------------------------------
(***************************************************************************)
(* Properties.                                                             *)
(***************************************************************************)
\* Whatever fingerprint the daemon answers with, Path finds its path in the
\* client's map or the program has reported it down and not been offered it
\* since: nil is never the answer to a path the program still counts on, although
\* Initialize, Refresh and PathDown write the map while answers are on the way.
NilOnlyIfReported ==
    \A c \in Conns, t \in Threads :
        LET fp == call[c][t].ans
        IN  life[c] # "killed" /\ fp # Nil /\ PathOf(c, fp) = Nil => fp \in reported[c]

\* From the return of Initiate until Close is called the daemon, as long as
\* it runs, has a selector for the connection that knows a path.
InitializedAnswers ==
    \A c \in Conns : daemon /\ life[c] = "open" =>
        /\ selectors[c] # 0
        /\ sel[c][selectors[c]].cur # Nil

\* Every call returns or ends the process, whether the daemon answers, is
\* stopped or crashes, and whether the RPC client is closed meanwhile.
CallsReturn ==
    \A c \in Conns, t \in Threads :
        call[c][t] # Idle ~> (call[c][t] = Idle \/ life[c] = "killed")

-----------------------------------------------------------------------------
(***************************************************************************)
(* The promise to the program.  A call that writes the map is called until *)
(* Store; a call is pending until Apply and done after it; what a process  *)
(* that is gone still has at the daemon does not count.                    *)
(***************************************************************************)
Seen(c, t) ==
    LET m == call[c][t]
    IN  IF life[c] = "killed" \/ m.at = "idle"
        THEN [op |-> "none", at |-> "idle", arg |-> {}, ans |-> Nil]
        ELSE [op  |-> m.op,
              at  |-> IF m.at = "local" THEN "called"
                      ELSE IF ~daemon THEN "lost"
                      ELSE IF m.at \in {"deleting", "replied"} THEN "done"
                      ELSE "pending",
              arg |-> IF daemon \/ m.at = "local" THEN m.arg ELSE {},
              ans |-> m.ans]

\* The one object of c: the selector the daemon's map has for it.
Object(c) ==
    IF daemon /\ life[c] \in {"dialing", "open"} /\ selectors[c] # 0
    THEN sel[c][selectors[c]] ELSE Empty

Pend == [c \in Conns |-> [t \in Threads |-> Seen(c, t)]]
Obj == [c \in Conns |-> Object(c)]

Service == INSTANCE PathService WITH
    life <- life,
    pend <- Pend,
    obj <- Obj,
    hidden <- reported,
    got <- got,
    up <- daemon

\* Handlers that look up, make, enter and apply in steps of their own, without
\* a lock, and replies that come in any order amount to one object per
\* connection on which every call takes effect at once, until Close is called;
\* Path returns the path that was current then, or nil if that path is reported
\* down by the time it returns.
ImplementsService == Service!Spec

=============================================================================
