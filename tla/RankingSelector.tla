--------------------------- MODULE RankingSelector ---------------------------
(***************************************************************************)
(* lua/selector.go running one of the scripts that rank the paths of a     *)
(* remote address: cmd/daemon/simpledemo.lua, demo.lua, pathselection.lua  *)
(* and selector_with_stats.lua.  They keep one list of path tables per     *)
(* remote address, shared by all connections to it; the demos also keep    *)
(* the preferences of every connection.  The rank of a path comes from its *)
(* number of hops and its expiry, so any order is possible.                *)
(*                                                                         *)
(* The interpreter has room for so many values on its stack.  Close leaves *)
(* one there each time, which nothing removes; a call that finds too       *)
(* little room for what its function needs raises.                         *)
(***************************************************************************)
EXTENDS LuaPaths, SequencesExt

CONSTANTS
    Laddrs,     \* local addresses, one per connection (the scripts' laddr)
    Profiles,   \* capacity profiles, "Scavenger" among them
    Scripts,    \* the scripts the daemon may be started with
    PathsOf,    \* remote address -> fingerprints of the paths that lead to it
    Slots,      \* room on the interpreter's stack
    Needs,      \* function of the script -> the room it takes
    MaxGen      \* bound on the calls of set_paths per remote address

Demos == {"simpledemo", "demo"}
Examples == {"pathselection", "selector_with_stats"}

Functions ==
    {"Initialize", "SetPreferences", "Path", "PathDown", "Refresh", "Close"}

ASSUME ScriptsAssumption == Scripts \subseteq Demos \cup Examples
ASSUME PathsOfAssumption ==
    PathsOf \in [Raddrs -> SUBSET Fps] /\ \A r \in Raddrs : IsFiniteSet(PathsOf[r])
ASSUME NilAssumption == Nil \notin Fps \cup Profiles /\ Nil \notin Seq(Tables)
ASSUME BoundAssumption == Slots \in Nat /\ MaxGen \in Nat
ASSUME NeedsAssumption == Needs \in [Functions -> Nat \ {0}]

VARIABLES
    script,     \* the script that is loaded
    paths,      \* remote address -> its ranked list, or Nil
    conns,      \* connection -> profile of the preferences kept for it, or Nil
    conn,       \* local address -> remote address it was initialised with
    phase,      \* the life of the connection of a local address
    down,       \* remote address -> fingerprints reported down since the last offer
    top,        \* values on the interpreter's stack between calls
    daemon      \* whether the daemon runs

scriptVars == <<paths, conns>>
clientVars == <<conn, phase>>
vars == <<goVars, script, scriptVars, clientVars, down, top, daemon>>

\* closed: its Close was handled; lost: its process ended without; killed: an
\* error reply ended it; ended: its Close was handled, and its process is gone.
Phases == {"free", "open", "closed", "lost", "killed", "ended"}

TypeOK ==
    /\ lpaths \in [Raddrs -> SUBSET Tables]
    /\ ppaths \in SUBSET Tables
    /\ gen \in [Raddrs -> 0..MaxGen]
    /\ script \in Scripts
    /\ paths \in [Raddrs -> Seq(Tables) \cup {Nil}]
    /\ conns \in [Laddrs -> Profiles \cup {Nil}]
    /\ conn \in [Laddrs -> Raddrs \cup {Nil}]
    /\ phase \in [Laddrs -> Phases]
    /\ down \in [Raddrs -> SUBSET Fps]
    /\ top \in 0..Slots
    /\ daemon \in BOOLEAN

Init ==
    /\ lpaths = [r \in Raddrs |-> {}]
    /\ ppaths = {}
    /\ gen = [r \in Raddrs |-> 0]
    /\ script \in Scripts
    /\ paths = [r \in Raddrs |-> Nil]
    /\ conns = [l \in Laddrs |-> Nil]
    /\ conn = [l \in Laddrs |-> Nil]
    /\ phase = [l \in Laddrs |-> "free"]
    /\ down = [r \in Raddrs |-> {}]
    /\ top = 0
    /\ daemon = TRUE

-----------------------------------------------------------------------------
\* rankpaths: the tables of S, made for r by the call that is being served, in
\* some order.
Rankings(r, S) ==
    {s \in [1..Cardinality(S) -> {Table(r, fp, gen[r] + 1) : fp \in S}] :
        \A i, j \in DOMAIN s : i # j => s[i] # s[j]}

\* Requests of l may be handled: also after its Close was, and after the
\* process is gone, since they may have been in flight.
Known(l) == daemon /\ conn[l] # Nil

\* An error reply to a call whose client gives up.
Kill(l) ==
    phase' = [phase EXCEPT ![l] = CASE @ \in {"open", "killed"}  -> "killed"
                                    [] @ \in {"closed", "ended"} -> "ended"
                                    [] OTHER                    -> @]

\* The one Close of a connection, which may have been in flight when its process
\* went away.
MayClose(l) == Known(l) /\ phase[l] \in {"open", "lost", "killed"}
Closed(l) == phase' = [phase EXCEPT ![l] = IF @ = "open" THEN "closed" ELSE "ended"]

\* A call of the script finds room on the stack.
Fits(op) == top + Needs[op] <= Slots

\* Faulty variant: what is listed for the remote stays, as in bandwidth.lua.
LearnKeeps(r, ranked) ==
    paths' = IF paths[r] = Nil THEN [paths EXCEPT ![r] = ranked] ELSE paths

\* paths[raddr] = ps, then rankpaths(raddr).
Learn(r, ranked) == paths' = [paths EXCEPT ![r] = ranked]

\* What Initialize and Refresh do with the paths they are given.
Offer(r, ranked) == Learn(r, ranked) /\ down' = [down EXCEPT ![r] = {}]

\* The demos keep the preferences, the examples only log them.
Keep(l, prefs) == conns' = [conns EXCEPT ![l] = IF script \in Demos THEN prefs ELSE @]

-----------------------------------------------------------------------------
(***************************************************************************)
(* The handlers.  The tables of the remote are replaced before the script  *)
(* is called, so also when the call raises: before it has stored what it   *)
(* was given, in Log, or after, in rankpaths.                              *)
(***************************************************************************)
Initialize(l, r, S, prefs, ranked) ==
    /\ daemon
    /\ phase[l] = "free"
    /\ gen[r] < MaxGen
    /\ FlushAndSet(r, S)
    /\ Fits("Initialize")
    /\ Offer(r, ranked)
    /\ Keep(l, prefs)
    /\ conn' = [conn EXCEPT ![l] = r]
    /\ phase' = [phase EXCEPT ![l] = "open"]
    /\ UNCHANGED <<script, top, daemon>>

\* The client ends before it has a connection, so no other call of it follows.
InitializeFails(l, r, S, prefs, ranked) ==
    /\ daemon
    /\ phase[l] = "free"
    /\ gen[r] < MaxGen
    /\ FlushAndSet(r, S)
    /\ ~Fits("Initialize")
    /\ (Offer(r, ranked) /\ Keep(l, prefs)) \/ UNCHANGED <<scriptVars, down>>
    /\ phase' = [phase EXCEPT ![l] = "killed"]
    /\ UNCHANGED <<script, conn, top, daemon>>

SetPreferences(l, prefs) ==
    /\ Known(l)
    /\ Fits("SetPreferences")
    /\ Keep(l, prefs)
    /\ UNCHANGED <<goVars, script, paths, clientVars, down, top, daemon>>

\* The script raises: it takes the length of a list that is gone, or indexes
\* preferences that are.
PathRaises(l) ==
    \/ ~Fits("Path")
    \/ paths[conn[l]] = Nil
    \/ /\ script \in Demos
       /\ paths[conn[l]] # <<>>
       /\ conns[l] = Nil

\* Faulty variant: a scavenger gets the path in the middle.
ChosenMiddle(l) ==
    LET ps == paths[conn[l]]
    IN  IF script \in Demos /\ conns[l] = "Scavenger" THEN ps[(Len(ps) + 1) \div 2]
                                                     ELSE ps[1]

\* The table the script answers with: the last of the list for a scavenger,
\* the first for the others.
Chosen(l) ==
    LET ps == paths[conn[l]]
    IN  IF script \in Demos /\ conns[l] = "Scavenger" THEN ps[Len(ps)] ELSE ps[1]

\* Path answers with the pan.Path behind that table, or with none.
Answer(l) == IF paths[conn[l]] = <<>> THEN Nil ELSE GetPanPath(Chosen(l))

Path(l) ==
    /\ Known(l)
    /\ ~PathRaises(l)
    /\ UNCHANGED vars

PathFails(l) ==
    /\ Known(l)
    /\ PathRaises(l)
    /\ Kill(l)
    /\ UNCHANGED <<goVars, script, scriptVars, conn, down, top, daemon>>

\* Faulty variants: the best path is removed whichever is down, and the entry is
\* set to nil instead of removed.
WithoutFirst(ps, fp) == SubSeq(ps, 2, Len(ps))
WithoutHole(ps, fp) == [i \in DOMAIN ps |-> IF ps[i].fp = fp THEN Nil ELSE ps[i]]

\* table.remove of the first entry with that fingerprint, if there is one.
Without(ps, fp) == RemoveFirstMatch(ps, LAMBDA t : t.fp = fp)

PathDown(l, fp) ==
    LET r == conn[l]
    IN  /\ Known(l)
        /\ Fits("PathDown")
        /\ paths[r] # Nil
        /\ paths' = [paths EXCEPT ![r] = Without(@, fp)]
        /\ down' = [down EXCEPT ![r] = @ \cup {fp}]
        /\ UNCHANGED <<goVars, script, conns, clientVars, top, daemon>>

PathDownFails(l) ==
    /\ Known(l)
    /\ ~Fits("PathDown") \/ paths[conn[l]] = Nil
    /\ Kill(l)
    /\ UNCHANGED <<goVars, script, scriptVars, conn, down, top, daemon>>

\* All but simpledemo.lua end the daemon after a Refresh, which its caller does
\* not survive; the others find out with their next call.
Refresh(l, S, ranked) ==
    LET r == conn[l]
    IN  /\ Known(l)
        /\ gen[r] < MaxGen
        /\ FlushAndSet(r, S)
        /\ Fits("Refresh")
        /\ Offer(r, ranked)
        /\ daemon' = (script = "simpledemo")
        /\ IF daemon' THEN UNCHANGED phase ELSE Kill(l)
        /\ UNCHANGED <<script, conns, conn, top>>

RefreshFails(l, S, ranked) ==
    /\ Known(l)
    /\ gen[conn[l]] < MaxGen
    /\ FlushAndSet(conn[l], S)
    /\ ~Fits("Refresh")
    /\ Offer(conn[l], ranked) \/ UNCHANGED <<paths, down>>
    /\ Kill(l)
    /\ UNCHANGED <<script, conns, conn, top, daemon>>

\* Faulty variant: the demos forget the list too, as a line they have commented
\* out did.
CloseForgetsList(l) ==
    /\ MayClose(l)
    /\ Fits("Close")
    /\ conns' = [conns EXCEPT ![l] = IF script = "simpledemo" THEN Nil ELSE @]
    /\ paths' = [paths EXCEPT ![conn[l]] = Nil]
    /\ top' = top + 1
    /\ Closed(l)
    /\ UNCHANGED <<goVars, script, conn, down, daemon>>

\* simpledemo.lua forgets the preferences, demo.lua nothing, and the examples
\* the list of the remote address.  The result Close asked for stays.
Close(l) ==
    /\ MayClose(l)
    /\ Fits("Close")
    /\ conns' = [conns EXCEPT ![l] = IF script = "simpledemo" THEN Nil ELSE @]
    /\ paths' = [paths EXCEPT ![conn[l]] = IF script \in Examples THEN Nil ELSE @]
    /\ top' = top + 1
    /\ Closed(l)
    /\ UNCHANGED <<goVars, script, conn, down, daemon>>

\* The client only reports the error.
CloseFails(l) ==
    /\ MayClose(l)
    /\ ~Fits("Close")
    /\ Closed(l)
    /\ UNCHANGED <<goVars, script, scriptVars, conn, down, top, daemon>>

\* The client process ends without calling Close.
Lost(l) ==
    /\ phase[l] = "open"
    /\ phase' = [phase EXCEPT ![l] = "lost"]
    /\ UNCHANGED <<goVars, script, scriptVars, conn, down, top, daemon>>

-----------------------------------------------------------------------------
Next ==
    \E l \in Laddrs :
        \/ \E r \in Raddrs : \E S \in SUBSET PathsOf[r] :
              \E prefs \in Profiles, ranked \in Rankings(r, S) :
                 \/ Initialize(l, r, S, prefs, ranked)
                 \/ InitializeFails(l, r, S, prefs, ranked)
        \/ \E prefs \in Profiles : SetPreferences(l, prefs)
        \/ Path(l)
        \/ PathFails(l)
        \/ \E fp \in Fps : PathDown(l, fp)
        \/ PathDownFails(l)
        \/ /\ conn[l] # Nil
           /\ \E S \in SUBSET PathsOf[conn[l]] : \E ranked \in Rankings(conn[l], S) :
                 Refresh(l, S, ranked) \/ RefreshFails(l, S, ranked)
        \/ Close(l)
        \/ CloseFails(l)
        \/ Lost(l)

Spec == Init /\ [][Next]_vars

-----------------------------------------------------------------------------
(***************************************************************************)
(* Properties.                                                             *)
(***************************************************************************)
Serving(l) == daemon /\ phase[l] = "open"

\* The functions that store the paths still find the room they need.
Roomy == Fits("Initialize") /\ Fits("Refresh")

\* Path raises for an open connection only if the stack is full or, with the
\* examples, another connection to the same remote was closed: the list is
\* shared, and Close of the examples sets it to nil, also a Close handled after
\* its process was gone.
OpenPathSucceeds ==
    \A l \in Laddrs : Serving(l) /\ Fits("Path") /\ PathRaises(l) =>
        /\ script \in Examples
        /\ \E k \in Laddrs \ {l} : conn[k] = conn[l] /\ phase[k] \in {"closed", "ended"}

\* An open connection gets no path only when none is left for its remote: the
\* script never answers with a table set_paths has flushed, however the
\* Initialize and Refresh of the connections to a remote follow each other.
\* That takes the room for both: the tables are flushed before the script is
\* called, and a call that raises then leaves the old list in place.
AnswersResolve ==
    \A l \in Laddrs : Serving(l) /\ Roomy /\ ~PathRaises(l) /\ paths[conn[l]] # <<>> =>
        Answer(l) \in Fps

\* A path that any connection to the remote has reported down is not answered
\* to any of them until the path is offered again.
DownAvoided ==
    \A l \in Laddrs : Serving(l) /\ ~PathRaises(l) =>
        Answer(l) \notin down[conn[l]]

\* Two connections to one remote, one of them a scavenger, do not share a path
\* as long as the demos have two to give.
ScavengerApart ==
    \A l, k \in Laddrs :
        /\ Roomy
        /\ Serving(l) /\ ~PathRaises(l) /\ conns[l] = "Scavenger"
        /\ Serving(k) /\ ~PathRaises(k) /\ conns[k] # "Scavenger"
        /\ script \in Demos /\ conn[l] = conn[k] /\ Len(paths[conn[l]]) > 1
        => Answer(l) # Answer(k)

=============================================================================
