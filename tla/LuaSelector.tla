----------------------------- MODULE LuaSelector -----------------------------
(***************************************************************************)
(* The daemon's Lua path selector, lua/selector.go, running the script     *)
(* cmd/daemon/bandwidth.lua for several client connections.                *)
(*                                                                         *)
(* Every handler takes the mutex of the Lua state, translates between Go   *)
(* paths and Lua path tables, and calls the script's function of the same  *)
(* name.  The calls of different connections, and of the goroutines of one *)
(* connection, arrive in any order: net/rpc runs each request in its own   *)
(* goroutine.  The client terminates its process (log.Fatalln) when        *)
(* Initialize, Path, PathDown or Refresh return an error; SetPreferences   *)
(* and Close hand the error to their caller.                               *)
(***************************************************************************)
EXTENDS BandwidthScript

CONSTANTS
    PathsOf,    \* remote address -> fingerprints of the paths that lead to it
    Reuse,      \* whether a local address may be used by a later connection
    Foreign,    \* whether a connection is told of failed paths it does not have
    MaxGen      \* bound on the calls of set_paths per remote address

ASSUME PathsOfAssumption == PathsOf \in [Raddrs -> SUBSET Fps]
ASSUME LaddrsAssumption == IsFiniteSet(Laddrs)
ASSUME BoundAssumption == Reuse \in BOOLEAN /\ Foreign \in BOOLEAN /\ MaxGen \in Nat

VARIABLES
    conn,       \* local address -> remote address it was initialised with
    phase,      \* the life of the connection of a local address
    spinning    \* the Path call that recurses in the script, or Nil

clientVars == <<conn, phase>>
vars == <<scriptVars, goVars, clientVars, spinning>>

\* closed: its Close was handled; lost: its process ended without; killed: an
\* error reply ended it; ended: its Close was handled, and its process is gone.
Phases == {"free", "open", "closed", "lost", "killed", "ended"}

TypeOK ==
    /\ ScriptTypeOK
    /\ lpaths \in [Raddrs -> SUBSET Tables]
    /\ ppaths \in SUBSET Tables
    /\ gen \in [Raddrs -> Nat]
    /\ conn \in [Laddrs -> Raddrs \cup {Nil}]
    /\ phase \in [Laddrs -> Phases]
    /\ spinning \in Laddrs \cup {Nil}

Init ==
    /\ ScriptInit
    /\ lpaths = [r \in Raddrs |-> {}]
    /\ ppaths = {}
    /\ gen = [r \in Raddrs |-> 0]
    /\ conn = [l \in Laddrs |-> Nil]
    /\ phase = [l \in Laddrs |-> "free"]
    /\ spinning = Nil

-----------------------------------------------------------------------------
\* Only a Path call that recurses keeps the mutex beyond a step.
Unlocked == spinning = Nil

\* Requests of l may be handled: also after its Close was, and after the
\* process is gone, since they may have been in flight.
Known(l) == conn[l] # Nil

\* An error reply to a call whose client gives up.
Kill(l) ==
    phase' = [phase EXCEPT ![l] = CASE @ \in {"open", "killed"}  -> "killed"
                                    [] @ \in {"closed", "ended"} -> "ended"
                                    [] OTHER                    -> @]

\* The one Close of a connection, which may have been in flight when its process
\* went away.
MayClose(l) == phase[l] \in {"open", "lost", "killed"}
Closed(l) == phase' = [phase EXCEPT ![l] = IF @ = "open" THEN "closed" ELSE "ended"]

-----------------------------------------------------------------------------
(***************************************************************************)
(* The handlers.                                                           *)
(***************************************************************************)
Initialize(l, r, S, prefs) ==
    /\ Unlocked
    /\ phase[l] = "free" \/ (Reuse /\ phase[l] # "open")
    /\ S \subseteq PathsOf[r] /\ gen[r] < MaxGen
    /\ FlushAndSet(r, S)
    /\ LearnPaths(r, S, gen[r] + 1)
    /\ StorePreferences(l, prefs)
    /\ conn' = [conn EXCEPT ![l] = r]
    /\ phase' = [phase EXCEPT ![l] = "open"]
    /\ UNCHANGED spinning

SetPreferences(l, prefs) ==
    /\ Unlocked
    /\ Known(l)
    /\ StorePreferences(l, prefs)
    /\ UNCHANGED <<raddr2fps, fp2path, fp2laddrs, fp2last, fp2rtt, fp2bw,
                   laddr2fp, ticked, goVars, clientVars, spinning>>

\* One evaluation of the script's Path for l settles on fingerprint fp.
Chooses(l, settled, fp) ==
    /\ Known(l)
    /\ ~PathRaises(l, conn[l])
    /\ fp \in Candidates(l, conn[l], settled)

\* The script still has a path for the fingerprint it settles on.
Path(l, settled, fp) ==
    /\ Unlocked
    /\ Chooses(l, settled, fp)
    /\ fp2path[fp] # Nil
    /\ MoveTo(l, fp)
    /\ UNCHANGED <<goVars, clientVars, spinning>>

\* The script settles on a listed fingerprint whose path is gone: it calls
\* itself again, with the mutex held.
PathGone(l, settled, fp) ==
    /\ Unlocked
    /\ Chooses(l, settled, fp)
    /\ fp2path[fp] = Nil
    /\ spinning' = l
    /\ UNCHANGED <<scriptVars, goVars, clientVars>>

\* The same evaluation, inside the recursion: once more without a path ...
RecurseAgain(l, settled, fp) ==
    /\ spinning = l
    /\ Chooses(l, settled, fp)
    /\ fp2path[fp] = Nil
    /\ UNCHANGED vars

\* ... or with one, which ends the recursion.
RecurseReturns(l, settled, fp) ==
    /\ spinning = l
    /\ Chooses(l, settled, fp)
    /\ fp2path[fp] # Nil
    /\ MoveTo(l, fp)
    /\ spinning' = Nil
    /\ UNCHANGED <<goVars, clientVars>>

\* Nothing is listed: the script returns no path and the reply is nil.
PathNone(l) ==
    /\ Unlocked
    /\ Known(l)
    /\ raddr2fps[conn[l]] = {}
    /\ UNCHANGED vars

\* A call after Close: the preferences are gone and the script raises.
PathFails(l) ==
    /\ Unlocked
    /\ Known(l)
    /\ PathRaises(l, conn[l])
    /\ Kill(l)
    /\ UNCHANGED <<scriptVars, goVars, conn, spinning>>

\* The handler takes any fingerprint.  pan tells all connections of a process of
\* a path that failed, also those that lead elsewhere.
PathDown(l, fp) ==
    /\ Unlocked
    /\ Known(l)
    /\ Foreign \/ fp \in PathsOf[conn[l]]
    /\ ForgetPath(conn[l], fp)
    /\ UNCHANGED <<goVars, clientVars, spinning>>

\* The script's Refresh passes nil preferences to its Initialize, whose last
\* line indexes them: the paths are learnt, then the call fails.
Refresh(l, S) ==
    /\ Unlocked
    /\ Known(l)
    /\ S \subseteq PathsOf[conn[l]] /\ gen[conn[l]] < MaxGen
    /\ FlushAndSet(conn[l], S)
    /\ LearnPaths(conn[l], S, gen[conn[l]] + 1)
    /\ Kill(l)
    /\ UNCHANGED <<laddr2prefs, conn, spinning>>

Close(l) ==
    /\ Unlocked
    /\ MayClose(l)
    /\ ~CloseRaises(l)
    /\ ReleasePath(l)
    /\ Closed(l)
    /\ UNCHANGED <<goVars, conn, spinning>>

\* Without a path in use Close raises, which the client only reports.
CloseFails(l) ==
    /\ Unlocked
    /\ MayClose(l)
    /\ CloseRaises(l)
    /\ Closed(l)
    /\ UNCHANGED <<scriptVars, goVars, conn, spinning>>

\* The tracer's UpdatedMetrics event reaches the script through lua.Stats,
\* which shares the Lua state and its mutex.
UpdatedMetrics(l) ==
    /\ Unlocked
    /\ Known(l)
    /\ RecordRTT(l)
    /\ UNCHANGED <<goVars, clientVars, spinning>>

\* The goroutine started by NewSelector.
Periodic ==
    /\ Unlocked
    /\ Tick
    /\ UNCHANGED <<goVars, clientVars, spinning>>

\* The client process ends without calling Close.
Lost(l) ==
    /\ phase[l] = "open"
    /\ phase' = [phase EXCEPT ![l] = "lost"]
    /\ UNCHANGED <<scriptVars, goVars, conn, spinning>>

-----------------------------------------------------------------------------
Next ==
    \/ Periodic
    \/ \E l \in Laddrs :
          \/ \E r \in Raddrs, S \in SUBSET Fps, prefs \in Profiles :
                Initialize(l, r, S, prefs)
          \/ \E prefs \in Profiles : SetPreferences(l, prefs)
          \/ \E settled \in BOOLEAN, fp \in Fps :
                \/ Path(l, settled, fp)
                \/ PathGone(l, settled, fp)
                \/ RecurseAgain(l, settled, fp)
                \/ RecurseReturns(l, settled, fp)
          \/ PathNone(l)
          \/ PathFails(l)
          \/ \E fp \in Fps : PathDown(l, fp)
          \/ \E S \in SUBSET Fps : Refresh(l, S)
          \/ Close(l)
          \/ CloseFails(l)
          \/ UpdatedMetrics(l)
          \/ Lost(l)

Spec == Init /\ [][Next]_vars

\* The interpreter keeps running: a recursion that can end does.
SpinEnds == \E l \in Laddrs, settled \in BOOLEAN, fp \in Fps :
                RecurseReturns(l, settled, fp)
FairSpec == Spec /\ SF_vars(SpinEnds)

-----------------------------------------------------------------------------
(***************************************************************************)
(* Properties.                                                             *)
(***************************************************************************)
\* The user count the script keeps per path, which decides where a new
\* connection goes, is exactly the number of addresses pinned to the path:
\* path changes, failures, closes and lost clients never make it drift.
LoadCount ==
    \A fp \in Fps :
        fp2laddrs[fp] = Cardinality({l \in Laddrs : laddr2fp[l] = fp})

\* An address that has a path in use has a path table for it and
\* preferences, whatever another connection reported down or closed.
PinnedKnown ==
    \A l \in Laddrs : laddr2fp[l] # Nil =>
        /\ fp2path[laddr2fp[l]] # Nil
        /\ laddr2prefs[l] # Nil

\* PathDown leaves no measurement behind, and none is booked on a path that
\* is gone: every measured fingerprint has a path table.
StatsKnown == \A fp \in fp2rtt \cup fp2bw \cup fp2last : fp2path[fp] # Nil

\* The two maps of state agree: a table has a pan.Path exactly when it was
\* made by the latest set_paths of its remote address.
MapsAgree ==
    /\ ppaths = UNION {lpaths[r] : r \in Raddrs}
    /\ \A r \in Raddrs : \A t \in lpaths[r] : t.raddr = r /\ t.gen = gen[r]

\* What the script would hand out has lost its pan.Path exactly if set_paths ran
\* for its remote after the table was made: fingerprints that two remotes share
\* and paths that went down and came back never confuse the two maps.
StaleIffFlushed ==
    \A fp \in Fps : LET t == fp2path[fp] IN
        t # Nil => (GetPanPath(t) = Nil <=> t.gen < gen[t.raddr])

\* As long as a connection is open, its Path calls do not raise.
OpenPathSucceeds ==
    \A l \in Laddrs : phase[l] = "open" => ~PathRaises(l, conn[l])

\* The path an open connection uses leads to its own remote: it is listed
\* for that address.
PinListed ==
    \A l \in Laddrs :
        phase[l] = "open" /\ laddr2fp[l] # Nil => laddr2fp[l] \in raddr2fps[conn[l]]

\* The recursion in Path never starts: what is listed has a path table.
NeverSpins ==
    /\ spinning = Nil
    /\ \A r \in Raddrs : \A fp \in raddr2fps[r] : fp2path[fp] # Nil

\* The mutex is always released: "path gone, trying to recover" recovers.
PathReturns == (spinning # Nil) ~> (spinning = Nil)

\* The script's calls return no error that makes a client terminate.
NoneKilled == \A l \in Laddrs : phase[l] # "killed"

\* What set_paths flushed is not handed out any more: the path table an open
\* connection uses still has a pan.Path.
PinnedResolves ==
    \A l \in Laddrs : phase[l] = "open" /\ laddr2fp[l] # Nil =>
        GetPanPath(fp2path[laddr2fp[l]]) # Nil

=============================================================================
