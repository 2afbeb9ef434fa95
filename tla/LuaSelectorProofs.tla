-------------------------- MODULE LuaSelectorProofs --------------------------
(***************************************************************************)
(* Proofs about the Lua selector and the bandwidth script, for any number  *)
(* of connections, remotes and paths.                                      *)
(***************************************************************************)
EXTENDS LuaSelector, FiniteSetTheorems, TLAPS

-----------------------------------------------------------------------------
(***************************************************************************)
(* Type correctness.                                                       *)
(***************************************************************************)
LEMMA TableType ==
    ASSUME NEW r \in Raddrs, NEW fp \in Fps, NEW g \in Nat
    PROVE  /\ Table(r, fp, g) \in Tables
           /\ Table(r, fp, g) # Nil
           /\ Table(r, fp, g).fp = fp
           /\ Table(r, fp, g).raddr = r
           /\ Table(r, fp, g).gen = g
BY NilTableAssumption DEF Tables, Table

LEMMA LearnPathsType ==
    ASSUME TypeOK, NEW r \in Raddrs, NEW S \in SUBSET Fps, NEW g \in Nat,
           LearnPaths(r, S, g)
    PROVE  /\ raddr2fps' \in [Raddrs -> SUBSET Fps]
           /\ fp2path' \in [Fps -> Tables \cup {Nil}]
<1>1. \A fp \in S : Table(r, fp, g) \in Tables
  BY TableType
<1> QED
  BY <1>1 DEF TypeOK, ScriptTypeOK, LearnPaths

LEMMA FlushAndSetType ==
    ASSUME TypeOK, NEW r \in Raddrs, NEW S \in SUBSET Fps, FlushAndSet(r, S)
    PROVE  /\ lpaths' \in [Raddrs -> SUBSET Tables]
           /\ ppaths' \in SUBSET Tables
           /\ gen' \in [Raddrs -> Nat]
<1>1. gen[r] + 1 \in Nat
  BY DEF TypeOK
<1>2. \A fp \in S : Table(r, fp, gen[r] + 1) \in Tables
  BY <1>1, TableType
<1> QED
  BY <1>1, <1>2 DEF TypeOK, FlushAndSet

LEMMA MoveToType ==
    ASSUME TypeOK, NEW l \in Laddrs, NEW fp \in Fps, MoveTo(l, fp)
    PROVE  ScriptTypeOK'
<1>1. fp2laddrs' \in [Fps -> Int]
  BY DEF TypeOK, ScriptTypeOK, MoveTo
<1>2. fp2bw' \in SUBSET Fps /\ fp2last' \in SUBSET Fps
  BY DEF TypeOK, ScriptTypeOK, MoveTo
<1>3. laddr2fp' \in [Laddrs -> Fps \cup {Nil}]
  BY DEF TypeOK, ScriptTypeOK, MoveTo
<1> QED
  BY <1>1, <1>2, <1>3 DEF TypeOK, ScriptTypeOK, MoveTo

LEMMA InitType == Init => TypeOK
<1> SUFFICES ASSUME Init PROVE TypeOK
  OBVIOUS
<1>1. ticked \in BOOLEAN
  BY Zenon DEF Init, ScriptInit
<1>2. fp2laddrs \in [Fps -> Int] /\ gen \in [Raddrs -> Nat]
  BY DEF Init, ScriptInit
<1>3. phase \in [Laddrs -> Phases]
  BY DEF Init, Phases
<1>4. /\ raddr2fps \in [Raddrs -> SUBSET Fps]
      /\ fp2path \in [Fps -> Tables \cup {Nil}]
      /\ laddr2prefs \in [Laddrs -> Profiles \cup {Nil}]
      /\ laddr2fp \in [Laddrs -> Fps \cup {Nil}]
      /\ lpaths \in [Raddrs -> SUBSET Tables]
      /\ conn \in [Laddrs -> Raddrs \cup {Nil}]
  BY DEF Init, ScriptInit
<1> QED
  BY <1>1, <1>2, <1>3, <1>4 DEF Init, ScriptInit, TypeOK, ScriptTypeOK

LEMMA KnownRaddr ==
    ASSUME TypeOK, NEW l \in Laddrs, Known(l)
    PROVE  conn[l] \in Raddrs
BY DEF TypeOK, Known

LEMMA KillType ==
    ASSUME TypeOK, NEW l \in Laddrs, Kill(l)
    PROVE  phase' \in [Laddrs -> Phases]
BY DEF TypeOK, Kill, Phases

\* The parts of TypeOK that a step of the Go side or of the client leaves as
\* they are.
LEMMA FrameType ==
    ASSUME TypeOK, UNCHANGED <<goVars, conn>>, spinning' \in Laddrs \cup {Nil},
           phase' \in [Laddrs -> Phases], ScriptTypeOK'
    PROVE  TypeOK'
BY DEF TypeOK, goVars

LEMMA ScriptFrameType ==
    ASSUME TypeOK, UNCHANGED scriptVars
    PROVE  ScriptTypeOK'
BY DEF TypeOK, ScriptTypeOK, scriptVars

LEMMA NextType == TypeOK /\ [Next]_vars => TypeOK'
<1> SUFFICES ASSUME TypeOK, [Next]_vars PROVE TypeOK'
  OBVIOUS
<1>1. CASE UNCHANGED vars
  BY <1>1, ScriptFrameType, FrameType DEF TypeOK, vars, clientVars
<1>2. CASE Periodic
  BY <1>2, FrameType DEF Periodic, Tick, TypeOK, ScriptTypeOK, clientVars
<1>3. ASSUME NEW l \in Laddrs, NEW r \in Raddrs, NEW S \in SUBSET Fps,
             NEW prefs \in Profiles, Initialize(l, r, S, prefs)
      PROVE  TypeOK'
  <2>1. gen[r] + 1 \in Nat
    BY DEF TypeOK
  <2>2. /\ raddr2fps' \in [Raddrs -> SUBSET Fps]
        /\ fp2path' \in [Fps -> Tables \cup {Nil}]
    BY <1>3, <2>1, LearnPathsType DEF Initialize
  <2>3. /\ lpaths' \in [Raddrs -> SUBSET Tables]
        /\ ppaths' \in SUBSET Tables
        /\ gen' \in [Raddrs -> Nat]
    BY <1>3, FlushAndSetType DEF Initialize
  <2>4. ScriptTypeOK'
    BY <1>3, <2>2 DEF Initialize, LearnPaths, StorePreferences, TypeOK,
                      ScriptTypeOK
  <2>5. conn' \in [Laddrs -> Raddrs \cup {Nil}] /\ phase' \in [Laddrs -> Phases]
    BY <1>3 DEF Initialize, TypeOK, Phases
  <2> QED
    BY <1>3, <2>3, <2>4, <2>5 DEF Initialize, TypeOK
<1>4. ASSUME NEW l \in Laddrs, NEW prefs \in Profiles, SetPreferences(l, prefs)
      PROVE  TypeOK'
  BY <1>4, FrameType
  DEF SetPreferences, StorePreferences, TypeOK, ScriptTypeOK, clientVars
<1>5. ASSUME NEW l \in Laddrs, NEW settled \in BOOLEAN, NEW fp \in Fps,
             Path(l, settled, fp)
      PROVE  TypeOK'
  BY <1>5, MoveToType, FrameType DEF Path, TypeOK, clientVars
<1>6. ASSUME NEW l \in Laddrs, NEW settled \in BOOLEAN, NEW fp \in Fps,
             PathGone(l, settled, fp)
      PROVE  TypeOK'
  BY <1>6, ScriptFrameType, FrameType DEF PathGone, TypeOK, clientVars
<1>7. ASSUME NEW l \in Laddrs, NEW settled \in BOOLEAN, NEW fp \in Fps,
             RecurseReturns(l, settled, fp)
      PROVE  TypeOK'
  BY <1>7, MoveToType, FrameType DEF RecurseReturns, TypeOK, clientVars
<1>8. ASSUME NEW l \in Laddrs, PathFails(l)
      PROVE  TypeOK'
  BY <1>8, KillType, ScriptFrameType, FrameType DEF PathFails, TypeOK
<1>9. ASSUME NEW l \in Laddrs, NEW fp \in Fps, PathDown(l, fp)
      PROVE  TypeOK'
  <2>1. conn[l] \in Raddrs
    BY <1>9, KnownRaddr DEF PathDown
  <2>2. ScriptTypeOK'
    BY <1>9, <2>1 DEF PathDown, ForgetPath, TypeOK, ScriptTypeOK
  <2> QED
    BY <1>9, <2>2, FrameType DEF PathDown, TypeOK, clientVars
<1>10. ASSUME NEW l \in Laddrs, NEW S \in SUBSET Fps, Refresh(l, S)
       PROVE  TypeOK'
  <2>1. conn[l] \in Raddrs
    BY <1>10, KnownRaddr DEF Refresh
  <2>2. gen[conn[l]] + 1 \in Nat
    BY <2>1 DEF TypeOK
  <2>3. /\ raddr2fps' \in [Raddrs -> SUBSET Fps]
        /\ fp2path' \in [Fps -> Tables \cup {Nil}]
    BY <1>10, <2>1, <2>2, LearnPathsType DEF Refresh
  <2>4. /\ lpaths' \in [Raddrs -> SUBSET Tables]
        /\ ppaths' \in SUBSET Tables
        /\ gen' \in [Raddrs -> Nat]
    BY <1>10, <2>1, FlushAndSetType DEF Refresh
  <2>5. ScriptTypeOK'
    BY <1>10, <2>3 DEF Refresh, LearnPaths, TypeOK, ScriptTypeOK
  <2>6. phase' \in [Laddrs -> Phases]
    BY <1>10, KillType DEF Refresh
  <2> QED
    BY <1>10, <2>4, <2>5, <2>6 DEF Refresh, TypeOK
<1>11. ASSUME NEW l \in Laddrs, Close(l)
       PROVE  TypeOK'
  <2>1. laddr2fp[l] \in Fps
    BY <1>11 DEF Close, CloseRaises, TypeOK, ScriptTypeOK
  <2>2. ScriptTypeOK'
    BY <1>11, <2>1 DEF Close, ReleasePath, TypeOK, ScriptTypeOK
  <2>3. phase' \in [Laddrs -> Phases]
    BY <1>11 DEF Close, Closed, TypeOK, Phases
  <2> QED
    BY <1>11, <2>2, <2>3, FrameType DEF Close, TypeOK
<1>12. ASSUME NEW l \in Laddrs, CloseFails(l) \/ Lost(l)
       PROVE  TypeOK'
  <2>1. phase' \in [Laddrs -> Phases]
    BY <1>12 DEF CloseFails, Closed, Lost, TypeOK, Phases
  <2> QED
    BY <1>12, <2>1, ScriptFrameType, FrameType DEF CloseFails, Lost, TypeOK
<1>13. ASSUME NEW l \in Laddrs, UpdatedMetrics(l)
       PROVE  TypeOK'
  <2>1. ScriptTypeOK'
    BY <1>13 DEF UpdatedMetrics, RecordRTT, TypeOK, ScriptTypeOK
  <2> QED
    BY <1>13, <2>1, FrameType DEF UpdatedMetrics, TypeOK, clientVars
<1> QED
  BY <1>1, <1>2, <1>3, <1>4, <1>5, <1>6, <1>7, <1>8, <1>9, <1>10, <1>11,
     <1>12, <1>13 DEF Next, RecurseAgain, PathNone

\* Every reachable state of the selector and of the script is well typed.
THEOREM TypeCorrect == Spec => []TypeOK
BY InitType, NextType, PTL DEF Spec

-----------------------------------------------------------------------------
(***************************************************************************)
(* Facts about the script's choice.                                        *)
(***************************************************************************)
LEMMA CandidatesListed ==
    ASSUME NEW l \in Laddrs, NEW r \in Raddrs, NEW settled \in BOOLEAN,
           NEW fp \in Candidates(l, r, settled)
    PROVE  /\ raddr2fps[r] # {}
           /\ fp \in raddr2fps[r] \/ (fp = laddr2fp[l] /\ fp # Nil /\ fp2path[fp] # Nil)
BY DEF Candidates, LeastLoaded, Oldest, Ranked

(***************************************************************************)
(* Seen from the script's tables, a step of the selector is one of these.  *)
(***************************************************************************)
Learns ==
    \E r \in Raddrs, S \in SUBSET Fps, g \in Nat :
        /\ LearnPaths(r, S, g)
        /\ S \subseteq PathsOf[r]
        /\ \A l \in Laddrs : laddr2prefs[l] # Nil => laddr2prefs'[l] # Nil

Moves(l, fp) ==
    /\ MoveTo(l, fp)
    /\ fp2path[fp] # Nil
    /\ laddr2prefs[l] # Nil

Forgets(l, fp) ==
    /\ conn[l] \in Raddrs
    /\ Foreign \/ fp \in PathsOf[conn[l]]
    /\ ForgetPath(conn[l], fp)

Releases(l) ==
    /\ laddr2fp[l] \in Fps
    /\ ReleasePath(l)

\* Nothing changes, or only the preferences of an address or the tick.
Idles ==
    /\ UNCHANGED <<raddr2fps, fp2path, fp2laddrs, fp2last, fp2rtt, fp2bw, laddr2fp>>
    /\ \A l \in Laddrs : laddr2prefs[l] # Nil => laddr2prefs'[l] # Nil

ScriptStep ==
    \/ Learns
    \/ Idles
    \/ \E l \in Laddrs :
          \/ \E fp \in Fps : Moves(l, fp) \/ Forgets(l, fp)
          \/ Releases(l)
          \/ RecordRTT(l)

LEMMA PathMoves ==
    ASSUME TypeOK, NEW l \in Laddrs, NEW settled \in BOOLEAN, NEW fp \in Fps,
           Path(l, settled, fp) \/ RecurseReturns(l, settled, fp)
    PROVE  Moves(l, fp)
<1>1. /\ fp \in Candidates(l, conn[l], settled)
      /\ ~PathRaises(l, conn[l])
      /\ Known(l)
  BY DEF Path, RecurseReturns, Chooses
<1>2. raddr2fps[conn[l]] # {}
  BY <1>1, CandidatesListed, KnownRaddr
<1> QED
  BY <1>1, <1>2 DEF PathRaises, Moves, Path, RecurseReturns

LEMMA StoreKeeps ==
    ASSUME TypeOK, NEW l \in Laddrs, NEW prefs \in Profiles,
           StorePreferences(l, prefs)
    PROVE  \A k \in Laddrs : laddr2prefs[k] # Nil => laddr2prefs'[k] # Nil
BY NilAssumption DEF TypeOK, ScriptTypeOK, StorePreferences

LEMMA NextScriptStep == TypeOK /\ [Next]_vars => ScriptStep
<1> SUFFICES ASSUME TypeOK, [Next]_vars PROVE ScriptStep
  OBVIOUS
<1>1. CASE UNCHANGED vars
  BY <1>1 DEF vars, scriptVars, ScriptStep, Idles
<1>2. CASE Periodic
  BY <1>2 DEF Periodic, Tick, ScriptStep, Idles
<1>3. ASSUME NEW l \in Laddrs, NEW r \in Raddrs, NEW S \in SUBSET Fps,
             NEW prefs \in Profiles, Initialize(l, r, S, prefs)
      PROVE  ScriptStep
  <2>1. gen[r] + 1 \in Nat
    BY DEF TypeOK
  <2> QED
    BY <1>3, <2>1, StoreKeeps DEF Initialize, ScriptStep, Learns
<1>4. ASSUME NEW l \in Laddrs, NEW prefs \in Profiles, SetPreferences(l, prefs)
      PROVE  ScriptStep
  BY <1>4, StoreKeeps DEF SetPreferences, ScriptStep, Idles
<1>5. ASSUME NEW l \in Laddrs, NEW settled \in BOOLEAN, NEW fp \in Fps,
             Path(l, settled, fp) \/ RecurseReturns(l, settled, fp)
      PROVE  ScriptStep
  BY <1>5, PathMoves DEF ScriptStep
<1>6. ASSUME NEW l \in Laddrs, NEW settled \in BOOLEAN, NEW fp \in Fps,
             PathGone(l, settled, fp)
      PROVE  ScriptStep
  BY <1>6 DEF PathGone, scriptVars, ScriptStep, Idles
<1>7. ASSUME NEW l \in Laddrs, PathFails(l) \/ CloseFails(l) \/ Lost(l)
      PROVE  ScriptStep
  BY <1>7 DEF PathFails, CloseFails, Lost, scriptVars, ScriptStep, Idles
<1>8. ASSUME NEW l \in Laddrs, NEW fp \in Fps, PathDown(l, fp)
      PROVE  ScriptStep
  BY <1>8, KnownRaddr DEF PathDown, ScriptStep, Forgets
<1>9. ASSUME NEW l \in Laddrs, NEW S \in SUBSET Fps, Refresh(l, S)
      PROVE  ScriptStep
  <2>1. conn[l] \in Raddrs
    BY <1>9, KnownRaddr DEF Refresh
  <2>2. gen[conn[l]] + 1 \in Nat
    BY <2>1 DEF TypeOK
  <2> QED
    BY <1>9, <2>1, <2>2 DEF Refresh, ScriptStep, Learns
<1>10. ASSUME NEW l \in Laddrs, Close(l)
       PROVE  ScriptStep
  BY <1>10 DEF Close, CloseRaises, TypeOK, ScriptTypeOK, ScriptStep, Releases
<1>11. ASSUME NEW l \in Laddrs, UpdatedMetrics(l)
       PROVE  ScriptStep
  BY <1>11 DEF UpdatedMetrics, ScriptStep
<1> QED
  BY <1>1, <1>2, <1>3, <1>4, <1>5, <1>6, <1>7, <1>8, <1>9, <1>10, <1>11
  DEF Next, RecurseAgain, PathNone

-----------------------------------------------------------------------------
(***************************************************************************)
(* What is pinned is known, and so is what is measured.                    *)
(***************************************************************************)
LEMMA LearnKeeps ==
    ASSUME TypeOK, NEW r \in Raddrs, NEW S \in SUBSET Fps, NEW g \in Nat,
           LearnPaths(r, S, g)
    PROVE  \A fp \in Fps : fp2path[fp] # Nil \/ fp \in S => fp2path'[fp] # Nil
<1>1. \A fp \in S : Table(r, fp, g) # Nil
  BY TableType
<1> QED
  BY <1>1 DEF LearnPaths

LEMMA PinnedKnownStep ==
    TypeOK /\ PinnedKnown /\ ScriptStep => PinnedKnown'
<1> SUFFICES ASSUME TypeOK, PinnedKnown, ScriptStep,
                    NEW k \in Laddrs, laddr2fp'[k] # Nil
             PROVE  fp2path'[laddr2fp'[k]] # Nil /\ laddr2prefs'[k] # Nil
  BY DEF PinnedKnown
<1>0. laddr2fp[k] \in Fps \cup {Nil}
  BY DEF TypeOK, ScriptTypeOK
<1>1. CASE Learns
  <2> PICK r \in Raddrs, S \in SUBSET Fps, g \in Nat :
         /\ LearnPaths(r, S, g)
         /\ \A l \in Laddrs : laddr2prefs[l] # Nil => laddr2prefs'[l] # Nil
    BY <1>1 DEF Learns
  <2>1. laddr2fp' = laddr2fp
    BY DEF LearnPaths
  <2> QED
    BY <1>0, <2>1, LearnKeeps DEF PinnedKnown
<1>2. CASE Idles
  BY <1>2 DEF Idles, PinnedKnown
<1>3. ASSUME NEW l \in Laddrs, NEW fp \in Fps, Moves(l, fp)
      PROVE  fp2path'[laddr2fp'[k]] # Nil /\ laddr2prefs'[k] # Nil
  BY <1>3 DEF Moves, MoveTo, PinnedKnown, TypeOK, ScriptTypeOK
<1>4. ASSUME NEW l \in Laddrs, NEW fp \in Fps, Forgets(l, fp)
      PROVE  fp2path'[laddr2fp'[k]] # Nil /\ laddr2prefs'[k] # Nil
  BY <1>4, <1>0 DEF Forgets, ForgetPath, PinnedKnown, TypeOK, ScriptTypeOK
<1>5. ASSUME NEW l \in Laddrs, Releases(l)
      PROVE  fp2path'[laddr2fp'[k]] # Nil /\ laddr2prefs'[k] # Nil
  BY <1>5 DEF Releases, ReleasePath, PinnedKnown, TypeOK, ScriptTypeOK
<1>6. ASSUME NEW l \in Laddrs, RecordRTT(l)
      PROVE  fp2path'[laddr2fp'[k]] # Nil /\ laddr2prefs'[k] # Nil
  BY <1>6 DEF RecordRTT, PinnedKnown
<1> QED
  BY <1>1, <1>2, <1>3, <1>4, <1>5, <1>6 DEF ScriptStep

LEMMA StatsKnownStep ==
    TypeOK /\ PinnedKnown /\ StatsKnown /\ ScriptStep => StatsKnown'
<1> SUFFICES ASSUME TypeOK, PinnedKnown, StatsKnown, ScriptStep,
                    NEW q \in (fp2rtt \cup fp2bw \cup fp2last)'
             PROVE  fp2path'[q] # Nil
  BY DEF StatsKnown
<1>1. CASE Learns
  <2> PICK r \in Raddrs, S \in SUBSET Fps, g \in Nat : LearnPaths(r, S, g)
    BY <1>1 DEF Learns
  <2>1. q \in fp2rtt \cup fp2bw \cup fp2last
    BY DEF LearnPaths
  <2>2. q \in Fps
    BY <2>1 DEF TypeOK, ScriptTypeOK
  <2> QED
    BY <2>1, <2>2, LearnKeeps DEF StatsKnown
<1>2. CASE Idles
  BY <1>2 DEF Idles, StatsKnown
<1>3. ASSUME NEW l \in Laddrs, NEW fp \in Fps, Moves(l, fp)
      PROVE  fp2path'[q] # Nil
  <2>1. q \in fp2rtt \cup fp2bw \cup fp2last \cup {fp}
        \/ (q = laddr2fp[l] /\ laddr2fp[l] # Nil)
    BY <1>3 DEF Moves, MoveTo
  <2> QED
    BY <1>3, <2>1 DEF Moves, MoveTo, StatsKnown, PinnedKnown
<1>4. ASSUME NEW l \in Laddrs, NEW fp \in Fps, Forgets(l, fp)
      PROVE  fp2path'[q] # Nil
  BY <1>4 DEF Forgets, ForgetPath, StatsKnown, TypeOK, ScriptTypeOK
<1>5. ASSUME NEW l \in Laddrs, Releases(l)
      PROVE  fp2path'[q] # Nil
  BY <1>5 DEF Releases, ReleasePath, StatsKnown
<1>6. ASSUME NEW l \in Laddrs, RecordRTT(l)
      PROVE  fp2path'[q] # Nil
  <2>1. q \in fp2rtt \cup fp2bw \cup fp2last
        \/ (q = laddr2fp[l] /\ laddr2fp[l] # Nil)
    BY <1>6 DEF RecordRTT
  <2> QED
    BY <1>6, <2>1 DEF RecordRTT, StatsKnown, PinnedKnown
<1> QED
  BY <1>1, <1>2, <1>3, <1>4, <1>5, <1>6 DEF ScriptStep

-----------------------------------------------------------------------------
(***************************************************************************)
(* The user counts.                                                        *)
(***************************************************************************)
Users(fp) == {l \in Laddrs : laddr2fp[l] = fp}

LEMMA UsersFinite ==
    \A fp \in Fps : IsFiniteSet(Users(fp)) /\ Cardinality(Users(fp)) \in Nat
<1> TAKE fp \in Fps
<1>1. Users(fp) \subseteq Laddrs
  BY DEF Users
<1> QED
  BY <1>1, LaddrsAssumption, FS_Subset, FS_CardinalityType

\* A set of users that gains or loses one address.
LEMMA UserAdded ==
    ASSUME NEW S, IsFiniteSet(S), NEW l, l \notin S
    PROVE  Cardinality(S \cup {l}) = Cardinality(S) + 1
BY FS_AddElement

LEMMA UserRemoved ==
    ASSUME NEW S, IsFiniteSet(S), NEW l \in S
    PROVE  Cardinality(S \ {l}) = Cardinality(S) - 1
BY FS_RemoveElement

LEMMA LoadCountStep ==
    TypeOK /\ LoadCount /\ ScriptStep => LoadCount'
<1> SUFFICES ASSUME TypeOK, LoadCount, ScriptStep, NEW q \in Fps
             PROVE  fp2laddrs'[q] = Cardinality(Users(q)')
  BY DEF LoadCount, Users
<1>0. fp2laddrs[q] = Cardinality(Users(q)) /\ IsFiniteSet(Users(q))
      /\ fp2laddrs[q] \in Int
  BY UsersFinite DEF LoadCount, Users, TypeOK, ScriptTypeOK
<1>1. CASE UNCHANGED <<fp2laddrs, laddr2fp>>
  BY <1>0, <1>1 DEF Users
<1>2. ASSUME NEW l \in Laddrs, NEW fp \in Fps, Moves(l, fp)
      PROVE  fp2laddrs'[q] = Cardinality(Users(q)')
  <2>1. /\ laddr2fp' = [laddr2fp EXCEPT ![l] = fp]
        /\ fp2laddrs'[q] = fp2laddrs[q]
               + (IF q = fp /\ q # laddr2fp[l] THEN 1 ELSE 0)
               - (IF q = laddr2fp[l] /\ q # fp THEN 1 ELSE 0)
    BY <1>2 DEF Moves, MoveTo
  <2>2. CASE q = fp /\ q # laddr2fp[l]
    <3>1. Users(q)' = Users(q) \cup {l} /\ l \notin Users(q)
      BY <2>1, <2>2 DEF Users, TypeOK, ScriptTypeOK
    <3>2. fp2laddrs'[q] = fp2laddrs[q] + 1
      BY <1>0, <2>1, <2>2
    <3> QED
      BY <1>0, <3>1, <3>2, UserAdded
  <2>3. CASE q = laddr2fp[l] /\ q # fp
    <3>1. Users(q)' = Users(q) \ {l} /\ l \in Users(q)
      BY <2>1, <2>3 DEF Users, TypeOK, ScriptTypeOK
    <3>2. fp2laddrs'[q] = fp2laddrs[q] - 1
      BY <1>0, <2>1, <2>3
    <3> QED
      BY <1>0, <3>1, <3>2, UserRemoved
  <2>4. CASE (q = fp <=> q = laddr2fp[l])
    <3>1. Users(q)' = Users(q)
      BY <2>1, <2>4 DEF Users, TypeOK, ScriptTypeOK
    <3>2. fp2laddrs'[q] = fp2laddrs[q]
      BY <1>0, <2>1, <2>4
    <3> QED
      BY <1>0, <3>1, <3>2
  <2> QED
    BY <2>2, <2>3, <2>4
<1>3. ASSUME NEW l \in Laddrs, NEW fp \in Fps, Forgets(l, fp)
      PROVE  fp2laddrs'[q] = Cardinality(Users(q)')
  <2>1. CASE q = fp
    <3>1. Users(q)' = {}
      BY <1>3, <2>1, NilAssumption DEF Forgets, ForgetPath, Users
    <3>2. fp2laddrs'[q] = 0
      BY <1>3, <2>1 DEF Forgets, ForgetPath, TypeOK, ScriptTypeOK
    <3> QED
      BY <3>1, <3>2, FS_EmptySet
  <2>2. CASE q # fp
    <3>1. Users(q)' = Users(q)
      BY <1>3, <2>2, NilAssumption DEF Forgets, ForgetPath, Users
    <3>2. fp2laddrs'[q] = fp2laddrs[q]
      BY <1>3, <2>2 DEF Forgets, ForgetPath, TypeOK, ScriptTypeOK
    <3> QED
      BY <1>0, <3>1, <3>2
  <2> QED
    BY <2>1, <2>2
<1>4. ASSUME NEW l \in Laddrs, Releases(l)
      PROVE  fp2laddrs'[q] = Cardinality(Users(q)')
  <2>1. /\ laddr2fp' = [laddr2fp EXCEPT ![l] = Nil]
        /\ fp2laddrs' = [fp2laddrs EXCEPT ![laddr2fp[l]] = @ - 1]
    BY <1>4 DEF Releases, ReleasePath
  <2>2. CASE q = laddr2fp[l]
    <3>1. Users(q)' = Users(q) \ {l} /\ l \in Users(q)
      BY <2>1, <2>2, NilAssumption DEF Users, TypeOK, ScriptTypeOK
    <3>2. fp2laddrs'[q] = fp2laddrs[q] - 1
      BY <2>1, <2>2 DEF TypeOK, ScriptTypeOK
    <3> QED
      BY <1>0, <3>1, <3>2, UserRemoved
  <2>3. CASE q # laddr2fp[l]
    <3>1. Users(q)' = Users(q)
      BY <2>1, <2>3, NilAssumption DEF Users, TypeOK, ScriptTypeOK
    <3>2. fp2laddrs'[q] = fp2laddrs[q]
      BY <2>1, <2>3 DEF TypeOK, ScriptTypeOK
    <3> QED
      BY <1>0, <3>1, <3>2
  <2> QED
    BY <2>2, <2>3
<1> QED
  BY <1>1, <1>2, <1>3, <1>4
  DEF ScriptStep, Learns, LearnPaths, Idles, RecordRTT

-----------------------------------------------------------------------------
(***************************************************************************)
(* The inductive invariant of the script's tables and the theorems that    *)
(* follow from it.                                                         *)
(***************************************************************************)
ScriptInv == TypeOK /\ PinnedKnown /\ StatsKnown /\ LoadCount

LEMMA InitScriptInv == Init => ScriptInv
<1> SUFFICES ASSUME Init PROVE ScriptInv
  OBVIOUS
<1>1. TypeOK
  BY InitType
<1>2. PinnedKnown
  BY DEF Init, ScriptInit, PinnedKnown
<1>3. StatsKnown
  BY DEF Init, ScriptInit, StatsKnown
<1>4. ASSUME NEW fp \in Fps
      PROVE  fp2laddrs[fp] = Cardinality({l \in Laddrs : laddr2fp[l] = fp})
  <2>1. {l \in Laddrs : laddr2fp[l] = fp} = {}
    BY NilAssumption DEF Init, ScriptInit
  <2> QED
    BY <2>1, FS_EmptySet DEF Init, ScriptInit
<1> QED
  BY <1>1, <1>2, <1>3, <1>4 DEF ScriptInv, LoadCount

LEMMA NextScriptInv == ScriptInv /\ [Next]_vars => ScriptInv'
BY NextType, NextScriptStep, PinnedKnownStep, StatsKnownStep, LoadCountStep
DEF ScriptInv

LEMMA ScriptInvariant == Spec => []ScriptInv
BY InitScriptInv, NextScriptInv, PTL DEF Spec

\* For any number of connections and any order of their calls, late calls
\* and lost clients included, fp2laddrs counts exactly the addresses that
\* use a path.
THEOREM LoadCountHolds == Spec => []LoadCount
<1>1. ScriptInv => LoadCount
  BY DEF ScriptInv
<1> QED
  BY <1>1, ScriptInvariant, PTL

\* An address in use of a path always finds its path table and preferences:
\* panapi.Path never meets a pinned fingerprint without a path.
THEOREM PinnedKnownHolds == Spec => []PinnedKnown
<1>1. ScriptInv => PinnedKnown
  BY DEF ScriptInv
<1> QED
  BY <1>1, ScriptInvariant, PTL

\* No measurement outlives the path it was taken on.
THEOREM StatsKnownHolds == Spec => []StatsKnown
<1>1. ScriptInv => StatsKnown
  BY DEF ScriptInv
<1> QED
  BY <1>1, ScriptInvariant, PTL

-----------------------------------------------------------------------------
(***************************************************************************)
(* The maps between Lua tables and Go paths.                               *)
(***************************************************************************)
LEMMA NextGoStep ==
    ASSUME TypeOK, [Next]_vars
    PROVE  \/ UNCHANGED goVars
           \/ \E r \in Raddrs, S \in SUBSET Fps : FlushAndSet(r, S)
<1>1. ASSUME NEW l \in Laddrs, NEW S \in SUBSET Fps, Refresh(l, S)
      PROVE  \E r \in Raddrs, T \in SUBSET Fps : FlushAndSet(r, T)
  BY <1>1, KnownRaddr DEF Refresh
<1> QED
  BY <1>1 DEF Next, vars, Periodic, Initialize, SetPreferences, Path, PathGone,
     RecurseAgain, RecurseReturns, PathNone, PathFails, PathDown, Close,
     CloseFails, UpdatedMetrics, Lost

LEMMA MapsAgreeStep == TypeOK /\ MapsAgree /\ [Next]_vars => MapsAgree'
<1> SUFFICES ASSUME TypeOK, MapsAgree, [Next]_vars PROVE MapsAgree'
  OBVIOUS
<1>1. CASE UNCHANGED goVars
  BY <1>1 DEF goVars, MapsAgree
<1>2. ASSUME NEW r \in Raddrs, NEW S \in SUBSET Fps, FlushAndSet(r, S)
      PROVE  MapsAgree'
  <2> DEFINE new == {Table(r, fp, gen[r] + 1) : fp \in S}
  <2>1. /\ gen' = [gen EXCEPT ![r] = @ + 1]
        /\ ppaths' = (ppaths \ lpaths[r]) \cup new
        /\ lpaths' = [lpaths EXCEPT ![r] = new]
    BY <1>2 DEF FlushAndSet
  <2>2. \A t \in new : t.raddr = r /\ t.gen = gen[r] + 1
    <3>1. gen[r] + 1 \in Nat
      BY DEF TypeOK
    <3> QED
      BY <3>1, TableType
  <2>3. \A q \in Raddrs \ {r} : lpaths'[q] = lpaths[q] /\ gen'[q] = gen[q]
    BY <2>1 DEF TypeOK
  <2>4. lpaths'[r] = new /\ gen'[r] = gen[r] + 1
    BY <2>1 DEF TypeOK
  <2>5. \A q \in Raddrs : \A t \in lpaths'[q] : t.raddr = q /\ t.gen = gen'[q]
    BY <2>2, <2>3, <2>4 DEF MapsAgree
  <2>6. \A t : t \in ppaths \ lpaths[r] <=> \E q \in Raddrs \ {r} : t \in lpaths[q]
    BY DEF MapsAgree
  <2>7. \A t : t \in ppaths' <=> \E q \in Raddrs : t \in lpaths'[q]
    BY <2>1, <2>3, <2>4, <2>6
  <2> QED
    BY <2>5, <2>7 DEF MapsAgree
<1> QED
  BY <1>1, <1>2, NextGoStep

\* A Lua path table maps to a Go path exactly when it was made by the latest
\* Initialize or Refresh of its remote address: clear_addr misses none.
THEOREM MapsAgreeHolds == Spec => []MapsAgree
<1>1. Init => TypeOK /\ MapsAgree
  BY InitType DEF Init, MapsAgree
<1>2. (TypeOK /\ MapsAgree) /\ [Next]_vars => (TypeOK /\ MapsAgree)'
  BY NextType, MapsAgreeStep
<1> QED
  BY <1>1, <1>2, PTL DEF Spec

-----------------------------------------------------------------------------
(***************************************************************************)
(* The tables the script keeps, against the maps.                          *)
(***************************************************************************)
\* A table the script keeps for fp is one set_paths made for fp, and current if
\* it is of the latest call.
Made(fp, t) ==
    /\ t \in Tables /\ t.fp = fp
    /\ t.gen <= gen[t.raddr]
    /\ t.gen = gen[t.raddr] => t \in lpaths[t.raddr]

KeptAreMade == \A fp \in Fps : fp2path[fp] # Nil => Made(fp, fp2path[fp])

TableInv == TypeOK /\ MapsAgree /\ KeptAreMade

\* set_paths makes the tables the script learns next, and no older table becomes
\* current by it.
LEMMA LearnMade ==
    ASSUME TypeOK, KeptAreMade, NEW r \in Raddrs, NEW S \in SUBSET Fps,
           FlushAndSet(r, S), LearnPaths(r, S, gen[r] + 1)
    PROVE  KeptAreMade'
<1> DEFINE new == {Table(r, fp, gen[r] + 1) : fp \in S}
<1>0. gen[r] + 1 \in Nat /\ \A q \in Raddrs : gen[q] \in Nat
  BY DEF TypeOK
<1>1. /\ gen'[r] = gen[r] + 1 /\ lpaths'[r] = new
      /\ \A q \in Raddrs \ {r} : gen'[q] = gen[q] /\ lpaths'[q] = lpaths[q]
  BY DEF FlushAndSet, TypeOK
<1>2. ASSUME NEW fp \in Fps, fp2path'[fp] # Nil
      PROVE  Made(fp, fp2path[fp])'
  <2>1. CASE fp \in S
    <3>1. fp2path'[fp] = Table(r, fp, gen[r] + 1)
      BY <2>1 DEF LearnPaths
    <3>2. /\ fp2path'[fp] \in Tables /\ fp2path'[fp].fp = fp
          /\ fp2path'[fp].raddr = r /\ fp2path'[fp].gen = gen[r] + 1
      BY <1>0, <3>1 DEF Table, Tables
    <3>3. fp2path'[fp] \in new
      BY <2>1, <3>1
    <3> QED BY <1>0, <1>1, <3>2, <3>3 DEF Made
  <2>2. CASE fp \notin S
    <3>1. fp2path'[fp] = fp2path[fp]
      BY <2>2 DEF LearnPaths
    <3>2. Made(fp, fp2path[fp])
      BY <1>2, <3>1 DEF KeptAreMade
    <3>3. fp2path[fp].raddr \in Raddrs /\ fp2path[fp].gen \in Nat
      BY <3>2 DEF Made, Tables
    <3> HIDE DEF new
    <3>4. CASE fp2path[fp].raddr = r
      <4>1. fp2path[fp].gen < gen'[r]
        BY <1>0, <1>1, <3>2, <3>3, <3>4 DEF Made
      <4> QED BY <1>0, <1>1, <3>1, <3>2, <3>3, <3>4, <4>1 DEF Made
    <3>5. CASE fp2path[fp].raddr # r
      BY <1>1, <3>1, <3>2, <3>3, <3>5 DEF Made
    <3> QED BY <3>4, <3>5
  <2> QED BY <2>1, <2>2
<1> QED BY <1>2 DEF KeptAreMade

LEMMA KeptAreMadeStep == TypeOK /\ KeptAreMade /\ [Next]_vars => KeptAreMade'
<1> SUFFICES ASSUME TypeOK, KeptAreMade, [Next]_vars PROVE KeptAreMade'
  OBVIOUS
<1>1. ASSUME NEW l \in Laddrs, NEW r \in Raddrs, NEW S \in SUBSET Fps,
             NEW prefs \in Profiles, Initialize(l, r, S, prefs)
      PROVE  KeptAreMade'
  BY <1>1, LearnMade DEF Initialize
<1>2. ASSUME NEW l \in Laddrs, NEW S \in SUBSET Fps, Refresh(l, S)
      PROVE  KeptAreMade'
  BY <1>2, LearnMade, KnownRaddr DEF Refresh
<1>3. ASSUME NEW l \in Laddrs, NEW fp \in Fps, PathDown(l, fp)
      PROVE  KeptAreMade'
  <2>1. /\ fp2path' = [fp2path EXCEPT ![fp] = Nil]
        /\ UNCHANGED <<gen, lpaths>>
    BY <1>3 DEF PathDown, ForgetPath, goVars
  <2>2. \A q \in Fps : fp2path'[q] # Nil => fp2path'[q] = fp2path[q]
    BY <2>1 DEF TypeOK, ScriptTypeOK
  <2> QED BY <2>1, <2>2 DEF KeptAreMade, Made
<1>4. CASE UNCHANGED <<fp2path, goVars>>
  BY <1>4 DEF goVars, KeptAreMade, Made
<1> QED
  BY <1>1, <1>2, <1>3, <1>4
  DEF Next, vars, scriptVars, Periodic, Tick, SetPreferences, Path,
      RecurseReturns, MoveTo, PathGone, RecurseAgain, PathNone, PathFails, Close,
      ReleasePath, CloseFails, UpdatedMetrics, RecordRTT, Lost

LEMMA TableInvariant == Spec => []TableInv
<1>1. Init => TableInv
  BY InitType DEF Init, ScriptInit, TableInv, MapsAgree, KeptAreMade
<1>2. TableInv /\ [Next]_vars => TableInv'
  BY NextType, MapsAgreeStep, KeptAreMadeStep DEF TableInv
<1> QED
  BY <1>1, <1>2, PTL DEF Spec

\* A table the script keeps has no pan.Path any more exactly when its remote's
\* paths were set again after it was made (clear_addr and set_paths).
LEMMA StaleIsFlushed == TableInv => StaleIffFlushed
<1> SUFFICES ASSUME TableInv, NEW fp \in Fps, fp2path[fp] # Nil
             PROVE  GetPanPath(fp2path[fp]) = Nil
                    <=> fp2path[fp].gen < gen[fp2path[fp].raddr]
  BY DEF StaleIffFlushed
<1> DEFINE t == fp2path[fp]
<1>1. /\ t.fp \in Fps /\ t.raddr \in Raddrs /\ t.gen \in Nat
      /\ t.gen <= gen[t.raddr] /\ gen[t.raddr] \in Nat
      /\ t.gen = gen[t.raddr] => t \in lpaths[t.raddr]
  BY DEF TableInv, KeptAreMade, Made, Tables, TypeOK
<1>2. t \in ppaths <=> t.gen = gen[t.raddr]
  <2>1. ASSUME t \in ppaths PROVE t.gen = gen[t.raddr]
    BY <2>1 DEF TableInv, MapsAgree
  <2>2. ASSUME t.gen = gen[t.raddr] PROVE t \in ppaths
    BY <1>1, <2>2 DEF TableInv, MapsAgree
  <2> QED BY <2>1, <2>2
<1>3. GetPanPath(t) = Nil <=> t \notin ppaths
  BY <1>1, NilAssumption DEF GetPanPath
<1> HIDE DEF t
<1>4. GetPanPath(t) = Nil <=> t.gen < gen[t.raddr]
  BY <1>1, <1>2, <1>3
<1> QED BY <1>4 DEF t

\* In every reachable state, for any sharing of paths between remotes, a table
\* the script keeps is stale exactly if set_paths ran for its remote since.
THEOREM StaleIffFlushedHolds == Spec => []StaleIffFlushed
BY TableInvariant, StaleIsFlushed, PTL

-----------------------------------------------------------------------------
(***************************************************************************)
(* The life of a connection.                                               *)
(***************************************************************************)
\* Preferences are there from Initialize to Close, and none before.
OpenHasPrefs ==
    \A l \in Laddrs :
        /\ phase[l] = "open" => laddr2prefs[l] # Nil
        /\ phase[l] = "free" => conn[l] = Nil /\ laddr2fp[l] = Nil

LEMMA OpenHasPrefsStep == TypeOK /\ OpenHasPrefs /\ [Next]_vars => OpenHasPrefs'
<1> SUFFICES ASSUME TypeOK, OpenHasPrefs, [Next]_vars, NEW k \in Laddrs
             PROVE  /\ phase'[k] = "open" => laddr2prefs'[k] # Nil
                    /\ phase'[k] = "free" => conn'[k] = Nil /\ laddr2fp'[k] = Nil
  BY DEF OpenHasPrefs
<1> DEFINE Goal == /\ phase'[k] = "open" => laddr2prefs'[k] # Nil
                   /\ phase'[k] = "free" => conn'[k] = Nil /\ laddr2fp'[k] = Nil
<1>1. CASE UNCHANGED vars
  BY <1>1 DEF vars, scriptVars, clientVars, OpenHasPrefs
<1>2. CASE Periodic
  BY <1>2 DEF Periodic, Tick, clientVars, OpenHasPrefs
<1>3. ASSUME NEW l \in Laddrs, NEW r \in Raddrs, NEW S \in SUBSET Fps,
             NEW prefs \in Profiles, Initialize(l, r, S, prefs)
      PROVE  Goal
  BY <1>3, NilAssumption DEF Initialize, LearnPaths, StorePreferences,
     OpenHasPrefs, TypeOK, ScriptTypeOK
<1>4. ASSUME NEW l \in Laddrs, NEW prefs \in Profiles, SetPreferences(l, prefs)
      PROVE  Goal
  BY <1>4, StoreKeeps DEF SetPreferences, clientVars, OpenHasPrefs
<1>5. ASSUME NEW l \in Laddrs, NEW settled \in BOOLEAN, NEW fp \in Fps,
             Path(l, settled, fp) \/ RecurseReturns(l, settled, fp)
      PROVE  Goal
  <2>1. phase[l] # "free"
    BY <1>5 DEF Path, RecurseReturns, Chooses, Known, OpenHasPrefs
  <2> QED
    BY <1>5, <2>1 DEF Path, RecurseReturns, MoveTo, clientVars, OpenHasPrefs,
       TypeOK, ScriptTypeOK
<1>6. ASSUME NEW l \in Laddrs, NEW settled \in BOOLEAN, NEW fp \in Fps,
             PathGone(l, settled, fp)
      PROVE  Goal
  BY <1>6 DEF PathGone, scriptVars, clientVars, OpenHasPrefs
<1>7. ASSUME NEW l \in Laddrs, PathFails(l) \/ CloseFails(l) \/ Lost(l)
      PROVE  Goal
  <2>1. phase'[k] = phase[k] \/ phase'[k] \notin {"free", "open"}
    BY <1>7 DEF PathFails, Kill, CloseFails, MayClose, Closed, Lost, TypeOK, Phases
  <2> QED
    BY <1>7, <2>1 DEF PathFails, CloseFails, Lost, scriptVars, OpenHasPrefs
<1>8. ASSUME NEW l \in Laddrs, NEW fp \in Fps, PathDown(l, fp)
      PROVE  Goal
  BY <1>8 DEF PathDown, ForgetPath, clientVars, OpenHasPrefs
<1>9. ASSUME NEW l \in Laddrs, NEW S \in SUBSET Fps, Refresh(l, S)
      PROVE  Goal
  <2>1. phase'[k] = phase[k] \/ phase'[k] \notin {"free", "open"}
    BY <1>9 DEF Refresh, Kill, TypeOK, Phases
  <2> QED
    BY <1>9, <2>1 DEF Refresh, LearnPaths, OpenHasPrefs
<1>10. ASSUME NEW l \in Laddrs, Close(l)
       PROVE  Goal
  BY <1>10 DEF Close, MayClose, Closed, ReleasePath, OpenHasPrefs, TypeOK, ScriptTypeOK
<1>11. ASSUME NEW l \in Laddrs, UpdatedMetrics(l)
       PROVE  Goal
  BY <1>11 DEF UpdatedMetrics, RecordRTT, clientVars, OpenHasPrefs
<1> QED
  BY <1>1, <1>2, <1>3, <1>4, <1>5, <1>6, <1>7, <1>8, <1>9, <1>10, <1>11
  DEF Next, RecurseAgain, PathNone

LEMMA OpenHasPrefsInvariant == Spec => [](TypeOK /\ OpenHasPrefs)
<1>1. Init => TypeOK /\ OpenHasPrefs
  BY InitType DEF Init, ScriptInit, OpenHasPrefs
<1>2. (TypeOK /\ OpenHasPrefs) /\ [Next]_vars => (TypeOK /\ OpenHasPrefs)'
  BY NextType, OpenHasPrefsStep
<1> QED
  BY <1>1, <1>2, PTL DEF Spec

\* As long as a connection is open, panapi.Path does not raise for it, so the
\* reply does not make the client terminate.
THEOREM OpenPathSucceedsHolds == Spec => []OpenPathSucceeds
<1>1. OpenHasPrefs => OpenPathSucceeds
  BY DEF OpenHasPrefs, OpenPathSucceeds, PathRaises
<1> QED
  BY <1>1, OpenHasPrefsInvariant, PTL

-----------------------------------------------------------------------------
(***************************************************************************)
(* Recursion in panapi.Path: impossible when no two remotes share a path.  *)
(***************************************************************************)
Disjoint == \A r, q \in Raddrs : r # q => PathsOf[r] \cap PathsOf[q] = {}

\* Only paths that lead to a remote address are listed for it.
ListedLeadsTo == \A r \in Raddrs : raddr2fps[r] \subseteq PathsOf[r]

ListedKnown == \A r \in Raddrs : \A fp \in raddr2fps[r] : fp2path[fp] # Nil

SpinInv == ScriptInv /\ ListedLeadsTo /\ ListedKnown /\ spinning = Nil

LEMMA ListedStep ==
    ASSUME Disjoint, ~Foreign, SpinInv, ScriptStep
    PROVE  (ListedLeadsTo /\ ListedKnown)'
<1> USE DEF SpinInv, ScriptInv
<1>0. \A r \in Raddrs : raddr2fps[r] \subseteq Fps
  BY DEF TypeOK, ScriptTypeOK
<1>1. CASE Learns
  <2> PICK r \in Raddrs, S \in SUBSET Fps, g \in Nat :
         LearnPaths(r, S, g) /\ S \subseteq PathsOf[r]
    BY <1>1 DEF Learns
  <2>1. raddr2fps' = [raddr2fps EXCEPT ![r] = @ \cup S]
    BY DEF LearnPaths
  <2> QED
    BY <1>0, <2>1, LearnKeeps DEF ListedLeadsTo, ListedKnown, TypeOK, ScriptTypeOK
<1>2. CASE UNCHANGED <<raddr2fps, fp2path>>
  BY <1>2 DEF ListedLeadsTo, ListedKnown
<1>3. ASSUME NEW l \in Laddrs, NEW fp \in Fps, Forgets(l, fp)
      PROVE  (ListedLeadsTo /\ ListedKnown)'
  <2>1. conn[l] \in Raddrs /\ fp \in PathsOf[conn[l]]
    BY <1>3 DEF Forgets
  <2>2. /\ raddr2fps' = [raddr2fps EXCEPT ![conn[l]] = @ \ {fp}]
        /\ fp2path' = [fp2path EXCEPT ![fp] = Nil]
    BY <1>3 DEF Forgets, ForgetPath
  <2>3. \A q \in Raddrs : raddr2fps'[q] \subseteq raddr2fps[q] \ {fp}
    BY <2>1, <2>2 DEF Disjoint, ListedLeadsTo, TypeOK, ScriptTypeOK
  <2> QED
    BY <1>0, <2>2, <2>3 DEF ListedLeadsTo, ListedKnown, TypeOK, ScriptTypeOK
<1> QED
  BY <1>1, <1>2, <1>3
  DEF ScriptStep, Idles, Moves, MoveTo, Releases, ReleasePath, RecordRTT

LEMMA ChosenKnown ==
    ASSUME SpinInv, NEW l \in Laddrs, NEW settled \in BOOLEAN, NEW fp \in Fps,
           Chooses(l, settled, fp)
    PROVE  fp2path[fp] # Nil
BY CandidatesListed, KnownRaddr
DEF SpinInv, ScriptInv, Chooses, ListedKnown

LEMMA SpinInvStep ==
    ASSUME Disjoint, ~Foreign
    PROVE  SpinInv /\ [Next]_vars => SpinInv'
<1> SUFFICES ASSUME SpinInv, [Next]_vars PROVE SpinInv'
  OBVIOUS
<1>1. ScriptInv'
  BY NextScriptInv DEF SpinInv
<1>2. (ListedLeadsTo /\ ListedKnown)'
  BY NextScriptStep, ListedStep DEF SpinInv, ScriptInv
<1>3. \A l \in Laddrs, settled \in BOOLEAN, fp \in Fps :
          ~PathGone(l, settled, fp) /\ ~RecurseReturns(l, settled, fp)
  BY ChosenKnown, NilAssumption DEF PathGone, RecurseReturns, SpinInv
<1>4. spinning' = Nil
  BY <1>3 DEF SpinInv, Next, vars, Periodic, Initialize, SetPreferences, Path,
     RecurseAgain, PathNone, PathFails, PathDown, Refresh, Close, CloseFails,
     UpdatedMetrics, Lost
<1> QED
  BY <1>1, <1>2, <1>4 DEF SpinInv

\* When no two remote addresses share a path (no two of them lie in one AS) and
\* PathDown names a path of the connection it is called for, every listed
\* fingerprint has its path and panapi.Path never recurses, so no call keeps the
\* mutex of the Lua state.
THEOREM NeverSpinsHolds ==
    ASSUME Disjoint, ~Foreign
    PROVE  Spec => []NeverSpins
<1>1. Init => SpinInv
  BY InitScriptInv
  DEF Init, ScriptInit, SpinInv, ListedLeadsTo, ListedKnown
<1>2. SpinInv /\ [Next]_vars => SpinInv'
  BY SpinInvStep
<1>3. SpinInv => NeverSpins
  BY DEF SpinInv, ListedKnown, NeverSpins
<1> QED
  BY <1>1, <1>2, <1>3, PTL DEF Spec

-----------------------------------------------------------------------------
(***************************************************************************)
(* Connections use paths to their own remote, unless addresses are reused. *)
(***************************************************************************)
\* PinListed for every address that was ever connected, open or not.
EveryPinListed ==
    \A l \in Laddrs : laddr2fp[l] # Nil =>
        conn[l] # Nil /\ laddr2fp[l] \in raddr2fps[conn[l]]

PinInv == TypeOK /\ OpenHasPrefs /\ EveryPinListed

LEMMA EveryPinListedStep ==
    ASSUME Reuse = FALSE
    PROVE  PinInv /\ [Next]_vars => EveryPinListed'
<1> SUFFICES ASSUME PinInv, [Next]_vars, NEW k \in Laddrs, laddr2fp'[k] # Nil
             PROVE  conn'[k] # Nil /\ laddr2fp'[k] \in raddr2fps'[conn'[k]]
  BY DEF EveryPinListed
<1> DEFINE Goal == conn'[k] # Nil /\ laddr2fp'[k] \in raddr2fps'[conn'[k]]
<1> USE DEF PinInv
<1>0. laddr2fp[k] # Nil => conn[k] \in Raddrs /\ laddr2fp[k] \in raddr2fps[conn[k]]
  BY DEF EveryPinListed, TypeOK
<1>1. CASE UNCHANGED <<laddr2fp, raddr2fps, conn>>
  BY <1>0, <1>1, NilAssumption
<1>2. ASSUME NEW l \in Laddrs, NEW r \in Raddrs, NEW S \in SUBSET Fps,
             NEW prefs \in Profiles, Initialize(l, r, S, prefs)
      PROVE  Goal
  <2>1. k # l
    BY <1>2 DEF Initialize, LearnPaths, OpenHasPrefs
  <2>2. laddr2fp'[k] = laddr2fp[k] /\ conn'[k] = conn[k]
    BY <1>2, <2>1 DEF Initialize, LearnPaths, TypeOK
  <2> QED
    BY <1>0, <1>2, <2>2, NilAssumption
    DEF Initialize, LearnPaths, TypeOK, ScriptTypeOK
<1>3. ASSUME NEW l \in Laddrs, NEW settled \in BOOLEAN, NEW fp \in Fps,
             Path(l, settled, fp) \/ RecurseReturns(l, settled, fp)
      PROVE  Goal
  <2>1. /\ conn[l] \in Raddrs
        /\ fp \in Candidates(l, conn[l], settled)
    BY <1>3, KnownRaddr DEF Path, RecurseReturns, Chooses
  <2>2. fp \in raddr2fps[conn[l]]
    BY <2>1, CandidatesListed DEF EveryPinListed
  <2>3. /\ laddr2fp' = [laddr2fp EXCEPT ![l] = fp]
        /\ UNCHANGED <<raddr2fps, conn>>
    BY <1>3 DEF Path, RecurseReturns, MoveTo, clientVars
  <2> QED
    BY <1>0, <2>1, <2>2, <2>3, NilAssumption DEF TypeOK, ScriptTypeOK
<1>4. ASSUME NEW l \in Laddrs, NEW fp \in Fps, PathDown(l, fp)
      PROVE  Goal
  <2>1. /\ laddr2fp'[k] = laddr2fp[k]
        /\ laddr2fp[k] # fp
        /\ raddr2fps' = [raddr2fps EXCEPT ![conn[l]] = @ \ {fp}]
        /\ conn' = conn
    BY <1>4 DEF PathDown, ForgetPath, clientVars
  <2> QED
    BY <1>0, <2>1, NilAssumption DEF TypeOK, ScriptTypeOK
<1>5. ASSUME NEW l \in Laddrs, NEW S \in SUBSET Fps, Refresh(l, S)
      PROVE  Goal
  <2>1. /\ laddr2fp' = laddr2fp
        /\ raddr2fps' = [raddr2fps EXCEPT ![conn[l]] = @ \cup S]
        /\ conn' = conn
    BY <1>5 DEF Refresh, LearnPaths
  <2> QED
    BY <1>0, <2>1, NilAssumption DEF TypeOK, ScriptTypeOK
<1>6. ASSUME NEW l \in Laddrs, Close(l)
      PROVE  Goal
  <2>1. /\ laddr2fp' = [laddr2fp EXCEPT ![l] = Nil]
        /\ UNCHANGED <<raddr2fps, conn>>
    BY <1>6 DEF Close, ReleasePath
  <2> QED
    BY <1>0, <2>1, NilAssumption DEF TypeOK, ScriptTypeOK
<1> QED
  BY <1>1, <1>2, <1>3, <1>4, <1>5, <1>6
  DEF Next, vars, scriptVars, clientVars, Periodic, Tick, SetPreferences,
      PathGone, RecurseAgain, PathNone, PathFails, CloseFails, UpdatedMetrics,
      RecordRTT, Lost

\* A connection only ever uses paths to its own remote address, provided that
\* a local address is not taken again by a later connection: after a client
\* is lost without Close the script still knows the address.
THEOREM PinListedHolds ==
    ASSUME Reuse = FALSE
    PROVE  Spec => []PinListed
<1>1. Init => PinInv
  BY InitType DEF Init, ScriptInit, PinInv, OpenHasPrefs, EveryPinListed
<1>2. PinInv /\ [Next]_vars => PinInv'
  BY NextType, OpenHasPrefsStep, EveryPinListedStep DEF PinInv
<1>3. PinInv => PinListed
  BY DEF PinInv, EveryPinListed, PinListed
<1> QED
  BY <1>1, <1>2, <1>3, PTL DEF Spec

=============================================================================
