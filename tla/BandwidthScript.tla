--------------------------- MODULE BandwidthScript ---------------------------
(***************************************************************************)
(* The path selection script cmd/daemon/bandwidth.lua: its global tables   *)
(* and the effect of each of its handlers on them.  The daemon runs the    *)
(* script inside one Lua interpreter behind one mutex, so that a handler   *)
(* is a single step; LuaSelector says when the handlers are called.        *)
(*                                                                         *)
(* Measurements (round trip times, bandwidth, byte counts, clock ticks)    *)
(* are abstracted to "there is an entry": their values come from the       *)
(* network and may rank the paths in any order.                            *)
(***************************************************************************)
EXTENDS LuaPaths

CONSTANTS
    Laddrs,     \* local addresses, one per connection (the script's laddr)
    Profiles    \* capacity profiles, "Scavenger" among them

ASSUME NilAssumption == Nil \notin Fps \cup Raddrs \cup Laddrs \cup Profiles

VARIABLES
    raddr2fps,    \* remote address -> fingerprints listed for it
    fp2path,      \* fingerprint -> path table, or Nil
    fp2laddrs,    \* fingerprint -> number of local addresses using it
    fp2last,      \* fingerprints with a last-used tick above 0
    fp2rtt,       \* fingerprints with an observed RTT
    fp2bw,        \* fingerprints with an observed bandwidth
    laddr2prefs,  \* local address -> profile of its preferences, or Nil
    laddr2fp,     \* local address -> fingerprint in use, or Nil
    ticked        \* whether the script's tick counter is above 0

scriptVars == <<raddr2fps, fp2path, fp2laddrs, fp2last, fp2rtt, fp2bw,
                laddr2prefs, laddr2fp, ticked>>

ScriptTypeOK ==
    /\ raddr2fps \in [Raddrs -> SUBSET Fps]
    /\ fp2path \in [Fps -> Tables \cup {Nil}]
    /\ fp2laddrs \in [Fps -> Int]
    /\ fp2last \in SUBSET Fps
    /\ fp2rtt \in SUBSET Fps
    /\ fp2bw \in SUBSET Fps
    /\ laddr2prefs \in [Laddrs -> Profiles \cup {Nil}]
    /\ laddr2fp \in [Laddrs -> Fps \cup {Nil}]
    /\ ticked \in BOOLEAN

ScriptInit ==
    /\ raddr2fps = [r \in Raddrs |-> {}]
    /\ fp2path = [fp \in Fps |-> Nil]
    /\ fp2laddrs = [fp \in Fps |-> 0]
    /\ fp2last = {}
    /\ fp2rtt = {}
    /\ fp2bw = {}
    /\ laddr2prefs = [l \in Laddrs |-> Nil]
    /\ laddr2fp = [l \in Laddrs |-> Nil]
    /\ ticked = FALSE

-----------------------------------------------------------------------------
(***************************************************************************)
(* panapi.Initialize up to its last line: list and remember the paths S of *)
(* r, in the tables of generation g.  Nothing already listed is dropped.   *)
(* No other handler is called for a remote address before this one, so the *)
(* others never meet a missing list.                                       *)
(***************************************************************************)

\* Faulty variants of LearnPaths: the fingerprint is stored for the table, and
\* the list is replaced instead of extended.
LearnPathsUntabled(r, S, g) ==
    /\ raddr2fps' = [raddr2fps EXCEPT ![r] = @ \cup S]
    /\ fp2path' = [fp \in Fps |-> IF fp \in S THEN fp ELSE fp2path[fp]]
    /\ UNCHANGED <<fp2laddrs, fp2last, fp2rtt, fp2bw, laddr2fp, ticked>>

LearnPathsReplaces(r, S, g) ==
    /\ raddr2fps' = [raddr2fps EXCEPT ![r] = S]
    /\ fp2path' = [fp \in Fps |-> IF fp \in S THEN Table(r, fp, g)
                                              ELSE fp2path[fp]]
    /\ UNCHANGED <<fp2laddrs, fp2last, fp2rtt, fp2bw, laddr2fp, ticked>>

LearnPaths(r, S, g) ==
    /\ raddr2fps' = [raddr2fps EXCEPT ![r] = @ \cup S]
    /\ fp2path' = [fp \in Fps |-> IF fp \in S THEN Table(r, fp, g)
                                              ELSE fp2path[fp]]
    /\ UNCHANGED <<fp2laddrs, fp2last, fp2rtt, fp2bw, laddr2fp, ticked>>

\* Faulty variant: only preferences that exist are updated.
StorePreferencesIfKnown(l, prefs) ==
    laddr2prefs' = IF laddr2prefs[l] = Nil THEN laddr2prefs
                   ELSE [laddr2prefs EXCEPT ![l] = prefs]

\* panapi.SetPreferences; with prefs = nil it raises a Lua error instead.
StorePreferences(l, prefs) == laddr2prefs' = [laddr2prefs EXCEPT ![l] = prefs]

-----------------------------------------------------------------------------
(***************************************************************************)
(* panapi.Path.                                                            *)
(***************************************************************************)
\* nextScavengePath: the first fingerprint when sorted by number of users.
LeastLoaded(S) == {fp \in S : \A q \in S : fp2laddrs[fp] <= fp2laddrs[q]}

\* nextOldestPath: a fingerprint without a last-used tick counts as tick 0.
Oldest(S) == IF S \ fp2last # {} THEN S \ fp2last ELSE S

\* nextBestRTTPath, nextBestBWPath and nextRandomPath can put any path first.
Ranked(profile, S) == IF profile = "Scavenger" THEN LeastLoaded(S) ELSE S

\* The fingerprints one evaluation of panapi.Path can settle on.  settled:
\* more than a second has passed since l last changed its path.
Candidates(l, r, settled) ==
    LET old == laddr2fp[l]
        S   == raddr2fps[r]
    IN  IF S = {} THEN {}
        ELSE IF old = Nil \/ fp2path[old] = Nil THEN LeastLoaded(S)
        ELSE IF settled THEN Oldest(S) \cup Ranked(laddr2prefs[l], S)
        ELSE {old}

\* With a path to choose from, indexing laddr2prefs[laddr] = nil raises.
PathRaises(l, r) == raddr2fps[r] # {} /\ laddr2prefs[l] = Nil

\* Faulty variant: the path that is left keeps its user.
MoveToKeepsUser(l, fp) ==
    LET old == laddr2fp[l]
    IN  /\ laddr2fp' = [laddr2fp EXCEPT ![l] = fp]
        /\ fp2laddrs' = IF fp = old THEN fp2laddrs
                        ELSE [fp2laddrs EXCEPT ![fp] = @ + 1]
        /\ UNCHANGED <<raddr2fps, fp2path, fp2last, fp2rtt, fp2bw, laddr2prefs,
                       ticked>>

\* l moves to fingerprint fp: the bookkeeping of a path change.
MoveTo(l, fp) ==
    LET old == laddr2fp[l]
    IN  /\ laddr2fp' = [laddr2fp EXCEPT ![l] = fp]
        /\ fp2laddrs' = [q \in Fps |->
               fp2laddrs[q] + (IF q = fp  /\ q # old THEN 1 ELSE 0)
                            - (IF q = old /\ q # fp  THEN 1 ELSE 0)]
        /\ fp2bw' = IF old \in {Nil, fp} THEN fp2bw ELSE fp2bw \cup {old}
        /\ fp2last' = IF fp = old THEN fp2last
                      ELSE IF ticked THEN fp2last \cup {fp} ELSE fp2last \ {fp}
        /\ UNCHANGED <<raddr2fps, fp2path, fp2rtt, laddr2prefs, ticked>>

-----------------------------------------------------------------------------
\* Faulty variants of ForgetPath: the fingerprint stays listed, addresses stay
\* pinned to it, and its round-trip time stays.
ForgetPathStaysListed(r, fp) ==
    /\ fp2path' = [fp2path EXCEPT ![fp] = Nil]
    /\ fp2rtt' = fp2rtt \ {fp}
    /\ fp2last' = fp2last \ {fp}
    /\ fp2bw' = fp2bw \ {fp}
    /\ fp2laddrs' = [fp2laddrs EXCEPT ![fp] = 0]
    /\ laddr2fp' = [l \in Laddrs |-> IF laddr2fp[l] = fp THEN Nil
                                                         ELSE laddr2fp[l]]
    /\ UNCHANGED <<raddr2fps, laddr2prefs, ticked>>

ForgetPathStaysPinned(r, fp) ==
    /\ fp2path' = [fp2path EXCEPT ![fp] = Nil]
    /\ fp2rtt' = fp2rtt \ {fp}
    /\ fp2last' = fp2last \ {fp}
    /\ fp2bw' = fp2bw \ {fp}
    /\ raddr2fps' = [raddr2fps EXCEPT ![r] = @ \ {fp}]
    /\ UNCHANGED <<fp2laddrs, laddr2fp, laddr2prefs, ticked>>

ForgetPathKeepsRTT(r, fp) ==
    /\ fp2path' = [fp2path EXCEPT ![fp] = Nil]
    /\ fp2last' = fp2last \ {fp}
    /\ fp2bw' = fp2bw \ {fp}
    /\ fp2laddrs' = [fp2laddrs EXCEPT ![fp] = 0]
    /\ raddr2fps' = [raddr2fps EXCEPT ![r] = @ \ {fp}]
    /\ laddr2fp' = [l \in Laddrs |-> IF laddr2fp[l] = fp THEN Nil
                                                         ELSE laddr2fp[l]]
    /\ UNCHANGED <<fp2rtt, laddr2prefs, ticked>>

\* panapi.PathDown: forget fp everywhere, but only in the list of this raddr.
ForgetPath(r, fp) ==
    /\ fp2path' = [fp2path EXCEPT ![fp] = Nil]
    /\ fp2rtt' = fp2rtt \ {fp}
    /\ fp2last' = fp2last \ {fp}
    /\ fp2bw' = fp2bw \ {fp}
    /\ fp2laddrs' = [fp2laddrs EXCEPT ![fp] = 0]
    /\ raddr2fps' = [raddr2fps EXCEPT ![r] = @ \ {fp}]
    /\ laddr2fp' = [l \in Laddrs |-> IF laddr2fp[l] = fp THEN Nil
                                                         ELSE laddr2fp[l]]
    /\ UNCHANGED <<laddr2prefs, ticked>>

\* panapi.Close of an address that uses a path; without one the assignment
\* fp2laddrs[nil] raises and the preferences stay.
CloseRaises(l) == laddr2fp[l] = Nil

\* Faulty variant: the count of the path keeps the address that closes.
ReleasePathKeepsCount(l) ==
    /\ laddr2fp' = [laddr2fp EXCEPT ![l] = Nil]
    /\ laddr2prefs' = [laddr2prefs EXCEPT ![l] = Nil]
    /\ UNCHANGED <<raddr2fps, fp2path, fp2laddrs, fp2last, fp2rtt, fp2bw,
                   ticked>>

ReleasePath(l) ==
    /\ laddr2fp' = [laddr2fp EXCEPT ![l] = Nil]
    /\ fp2laddrs' = [fp2laddrs EXCEPT ![laddr2fp[l]] = @ - 1]
    /\ laddr2prefs' = [laddr2prefs EXCEPT ![l] = Nil]
    /\ UNCHANGED <<raddr2fps, fp2path, fp2last, fp2rtt, fp2bw, ticked>>

\* stats.UpdatedMetrics: the measurement is booked on the path l uses now.
RecordRTT(l) ==
    /\ fp2rtt' = IF laddr2fp[l] = Nil THEN fp2rtt ELSE fp2rtt \cup {laddr2fp[l]}
    /\ UNCHANGED <<raddr2fps, fp2path, fp2laddrs, fp2last, fp2bw, laddr2prefs,
                   laddr2fp, ticked>>

\* panapi.Periodic: the tick counter advances.
Tick ==
    /\ ticked' = TRUE
    /\ UNCHANGED <<raddr2fps, fp2path, fp2laddrs, fp2last, fp2rtt, fp2bw,
                   laddr2prefs, laddr2fp>>

=============================================================================
