------------------------ MODULE RankingSelectorProofs ------------------------
(***************************************************************************)
(* Proofs about the ranking scripts, for any connections, remote           *)
(* addresses, paths and room on the interpreter's stack.                   *)
(***************************************************************************)
EXTENDS RankingSelector, SequenceTheorems, FiniteSetTheorems, TLAPS

\* A list the script keeps for r: tables made for r, one per fingerprint.
IsList(r, ps) ==
    /\ ps \in Seq(Tables)
    /\ \A i \in 1..Len(ps) : ps[i].raddr = r
    /\ \A i, j \in 1..Len(ps) : i # j => ps[i].fp # ps[j].fp

\* Removing an entry moves the later ones up.
LEMMA RemoveAtShifts ==
    ASSUME NEW S, NEW ps \in Seq(S), NEW k \in 1..Len(ps)
    PROVE  /\ RemoveAt(ps, k) \in Seq(S)
           /\ Len(RemoveAt(ps, k)) = Len(ps) - 1
           /\ \A i \in 1..Len(ps) - 1 :
                 RemoveAt(ps, k)[i] = ps[IF i < k THEN i ELSE i + 1]
<1> DEFINE a == SubSeq(ps, 1, k - 1)
           b == SubSeq(ps, k + 1, Len(ps))
<1>0. Len(ps) \in Nat /\ k \in Int /\ \A i \in 1..Len(ps) : ps[i] \in S
  BY ElementOfSeq
<1>1. /\ a \in Seq(S)
      /\ Len(a) = k - 1
      /\ \A i \in 1..k - 1 : a[i] = ps[i]
  <2>1. /\ a \in Seq(S)
        /\ Len(a) = IF 1 <= k - 1 THEN (k - 1) - 1 + 1 ELSE 0
        /\ \A i \in 1..((k - 1) - 1 + 1) : a[i] = ps[1 + i - 1]
    BY <1>0, SubSeqProperties
  <2> HIDE DEF a
  <2> QED BY <1>0, <2>1
<1>2. /\ b \in Seq(S)
      /\ Len(b) = Len(ps) - k
      /\ \A i \in 1..Len(ps) - k : b[i] = ps[k + i]
  <2>1. /\ b \in Seq(S)
        /\ Len(b) = IF k + 1 <= Len(ps) THEN Len(ps) - (k + 1) + 1 ELSE 0
        /\ \A i \in 1..(Len(ps) - (k + 1) + 1) : b[i] = ps[(k + 1) + i - 1]
    BY <1>0, SubSeqProperties
  <2> HIDE DEF b
  <2>2. \A i \in 1..Len(ps) - k : (k + 1) + i - 1 = k + i
    BY <1>0
  <2> QED BY <1>0, <2>1, <2>2
<1>3. RemoveAt(ps, k) = a \o b
  BY DEF RemoveAt
<1> HIDE DEF a, b
<1>4. /\ a \o b \in Seq(S)
      /\ Len(a \o b) = Len(a) + Len(b)
      /\ \A i \in 1..Len(a) + Len(b) :
            (a \o b)[i] = IF i <= Len(a) THEN a[i] ELSE b[i - Len(a)]
  BY <1>1, <1>2, ConcatProperties
<1>5. Len(a) + Len(b) = Len(ps) - 1
  BY <1>0, <1>1, <1>2
<1>6. ASSUME NEW i \in 1..Len(ps) - 1
      PROVE  (a \o b)[i] = ps[IF i < k THEN i ELSE i + 1]
  <2>1. CASE i < k
    BY <1>0, <1>1, <1>4, <1>5, <2>1
  <2>2. CASE ~(i < k)
    <3>1. i - (k - 1) \in 1..Len(ps) - k /\ k + (i - (k - 1)) = i + 1
      BY <1>0, <2>2
    <3>2. (a \o b)[i] = b[i - (k - 1)]
      BY <1>0, <1>1, <1>4, <1>5, <2>2
    <3>3. b[i - (k - 1)] = ps[k + (i - (k - 1))]
      BY <1>2, <3>1
    <3> QED BY <2>2, <3>1, <3>2, <3>3
  <2> QED BY <2>1, <2>2
<1> QED BY <1>3, <1>4, <1>5, <1>6

\* The first and only entry that passes a test.
LEMMA OnlyMatch ==
    ASSUME NEW r, NEW ps, IsList(r, ps), NEW fp, NEW k \in 1..Len(ps), ps[k].fp = fp
    PROVE  Without(ps, fp) = RemoveAt(ps, k)
<1> DEFINE I == {i \in 1..Len(ps) : ps[i].fp = fp}
<1>1. I = {k}
  BY DEF IsList
<1>2. Len(ps) \in Nat
  BY DEF IsList
<1>3. Min(I) = k
  <2> HIDE DEF I
  <2> QED BY <1>1, <1>2 DEF Min
<1> QED BY <1>1, <1>3 DEF Without, RemoveFirstMatch, SelectInSeq

\* What is left is in the list still, and the fingerprint is not.
LEMMA WithoutList ==
    ASSUME NEW r, NEW ps, IsList(r, ps), NEW fp
    PROVE  /\ IsList(r, Without(ps, fp))
           /\ \A i \in 1..Len(Without(ps, fp)) :
                 /\ Without(ps, fp)[i].fp # fp
                 /\ \E j \in 1..Len(ps) : Without(ps, fp)[i] = ps[j]
<1>1. CASE \A i \in 1..Len(ps) : ps[i].fp # fp
  <2>1. Without(ps, fp) = ps
    BY <1>1 DEF Without, RemoveFirstMatch
  <2> QED BY <1>1, <2>1
<1>2. ASSUME NEW k \in 1..Len(ps), ps[k].fp = fp
      PROVE  /\ IsList(r, Without(ps, fp))
             /\ \A i \in 1..Len(Without(ps, fp)) :
                   /\ Without(ps, fp)[i].fp # fp
                   /\ \E j \in 1..Len(ps) : Without(ps, fp)[i] = ps[j]
  <2> DEFINE qs == Without(ps, fp)
             at(i) == IF i < k THEN i ELSE i + 1
  <2>0. Len(ps) \in Nat
    BY DEF IsList
  <2>1. /\ qs \in Seq(Tables)
        /\ Len(qs) = Len(ps) - 1
        /\ \A i \in 1..Len(ps) - 1 : qs[i] = ps[at(i)]
    <3>1. qs = RemoveAt(ps, k)
      BY <1>2, OnlyMatch
    <3>2. ps \in Seq(Tables)
      BY DEF IsList
    <3> HIDE DEF qs
    <3> QED BY <3>1, <3>2, RemoveAtShifts
  <2>2. \A i \in 1..Len(ps) - 1 : at(i) \in 1..Len(ps) /\ at(i) # k
    BY <2>0
  <2>3. \A i, j \in 1..Len(ps) - 1 : i # j => at(i) # at(j)
    BY <2>0
  <2> HIDE DEF qs, at
  <2>4. IsList(r, qs)
    <3>1. \A i \in 1..Len(qs) : qs[i].raddr = r
      BY <2>1, <2>2 DEF IsList
    <3>2. ASSUME NEW i \in 1..Len(qs), NEW j \in 1..Len(qs), i # j
          PROVE  qs[i].fp # qs[j].fp
      <4>1. at(i) \in 1..Len(ps) /\ at(j) \in 1..Len(ps) /\ at(i) # at(j)
        BY <2>1, <2>2, <2>3, <3>2
      <4> QED BY <2>1, <4>1 DEF IsList
    <3> QED BY <2>1, <3>1, <3>2 DEF IsList
  <2>5. \A i \in 1..Len(qs) : qs[i].fp # fp /\ \E j \in 1..Len(ps) : qs[i] = ps[j]
    BY <1>2, <2>1, <2>2 DEF IsList
  <2> QED BY <2>4, <2>5 DEF qs
<1> QED BY <1>1, <1>2

\* A ranking is a list of the tables made by the call that is being served.
LEMMA RankingList ==
    ASSUME NEW r \in Raddrs, gen[r] \in Nat, NEW S \in SUBSET PathsOf[r],
           NEW ranked \in Rankings(r, S)
    PROVE  /\ IsList(r, ranked)
           /\ \A i \in 1..Len(ranked) : ranked[i] \in {Table(r, fp, gen[r] + 1) : fp \in S}
<1> DEFINE n == Cardinality(S)
           T == {Table(r, fp, gen[r] + 1) : fp \in S}
<1>1. n \in Nat
  <2>1. S \subseteq PathsOf[r] /\ IsFiniteSet(PathsOf[r])
    BY PathsOfAssumption
  <2> QED BY <2>1, FS_Subset, FS_CardinalityType
<1>2. T \subseteq Tables /\ \A t, u \in T : t # u => t.fp # u.fp
  BY PathsOfAssumption DEF Tables, Table
<1>3. \A t \in T : t.raddr = r
  BY DEF Table
<1>4. ranked \in [1..n -> T] /\ \A i, j \in 1..n : i # j => ranked[i] # ranked[j]
  BY DEF Rankings
<1> HIDE DEF n, T
<1>5. ranked \in Seq(T) /\ Len(ranked) = n
  BY <1>1, <1>4
<1>6. ranked \in Seq(Tables)
  BY <1>2, <1>5, SeqMonotonic
<1>7. \A i \in 1..n : ranked[i] \in T
  BY <1>4
<1> QED BY <1>2, <1>3, <1>4, <1>5, <1>6, <1>7 DEF IsList, T

-----------------------------------------------------------------------------
(***************************************************************************)
(* The inductive invariant.                                                *)
(***************************************************************************)
\* The tables made for a remote name it.
Owned == \A r \in Raddrs : \A t \in lpaths[r] : t.raddr = r

\* A table is listed only while its pan.Path is there, as long as there is room
\* to store new ones, and never after its path was reported down.
Listed ==
    \A r \in Raddrs : paths[r] # Nil =>
        /\ IsList(r, paths[r])
        /\ \A i \in 1..Len(paths[r]) :
              /\ Roomy => paths[r][i] \in ppaths
              /\ paths[r][i].fp \notin down[r]

\* An open connection has a remote, and preferences if the script keeps any;
\* its list is gone only if another connection to the remote has closed.
Opened ==
    \A l \in Laddrs : phase[l] = "open" =>
        /\ conn[l] \in Raddrs
        /\ script \in Demos => conns[l] # Nil
        /\ paths[conn[l]] = Nil =>
              /\ script \in Examples
              /\ \E k \in Laddrs \ {l} :
                    conn[k] = conn[l] /\ phase[k] \in {"closed", "ended"}

RankInv == TypeOK /\ Owned /\ Listed /\ Opened

LEMMA InitRankInv == Init => RankInv
<1> SUFFICES ASSUME Init PROVE RankInv
  OBVIOUS
<1>1. daemon \in BOOLEAN
  BY Zenon DEF Init
<1>2. TypeOK
  BY <1>1, BoundAssumption DEF Init, TypeOK, Phases
<1>3. Owned /\ Listed /\ Opened
  BY DEF Init, Owned, Listed, Opened
<1> QED BY <1>2, <1>3 DEF RankInv

\* What clear_addr and set_paths do to the tables of this and other remotes.
LEMMA FlushKeeps ==
    ASSUME RankInv, NEW r \in Raddrs, NEW S \in SUBSET PathsOf[r], gen[r] < MaxGen,
           FlushAndSet(r, S)
    PROVE  /\ lpaths' \in [Raddrs -> SUBSET Tables]
           /\ ppaths' \in SUBSET Tables
           /\ gen' \in [Raddrs -> 0..MaxGen]
           /\ Owned'
           /\ {Table(r, fp, gen[r] + 1) : fp \in S} \subseteq ppaths'
           /\ \A t \in ppaths : t.raddr # r => t \in ppaths'
<1> DEFINE new == {Table(r, fp, gen[r] + 1) : fp \in S}
<1>1. gen[r] \in 0..MaxGen /\ gen[r] + 1 \in 0..MaxGen /\ gen[r] + 1 \in Nat
  BY BoundAssumption DEF RankInv, TypeOK
<1>2. new \subseteq Tables /\ \A t \in new : t.raddr = r
  BY <1>1, PathsOfAssumption DEF Table, Tables
<1>3. /\ gen' = [gen EXCEPT ![r] = gen[r] + 1]
      /\ ppaths' = (ppaths \ lpaths[r]) \cup new
      /\ lpaths' = [lpaths EXCEPT ![r] = new]
  BY DEF FlushAndSet
<1> HIDE DEF new
<1>4. /\ lpaths' \in [Raddrs -> SUBSET Tables]
      /\ ppaths' \in SUBSET Tables
      /\ gen' \in [Raddrs -> 0..MaxGen]
  BY <1>1, <1>2, <1>3 DEF RankInv, TypeOK
<1>5. \A q \in Raddrs : lpaths'[q] = IF q = r THEN new ELSE lpaths[q]
  BY <1>3 DEF RankInv, TypeOK
<1>6. Owned'
  BY <1>2, <1>5 DEF RankInv, Owned
<1>7. \A t \in ppaths : t.raddr # r => t \in ppaths'
  BY <1>3 DEF RankInv, Owned
<1> QED BY <1>3, <1>4, <1>6, <1>7 DEF new

\* A new list for r, as Initialize and Refresh make it.
LEMMA LearnListed ==
    ASSUME RankInv, NEW r \in Raddrs, NEW S \in SUBSET PathsOf[r],
           NEW ranked \in Rankings(r, S), gen[r] < MaxGen,
           FlushAndSet(r, S), Offer(r, ranked), top' = top
    PROVE  /\ paths' \in [Raddrs -> Seq(Tables) \cup {Nil}]
           /\ down' \in [Raddrs -> SUBSET Fps]
           /\ \A q \in Raddrs : q # r => paths'[q] = paths[q]
           /\ paths'[r] # Nil
           /\ Listed'
<1>1. gen[r] \in Nat /\ paths \in [Raddrs -> Seq(Tables) \cup {Nil}]
      /\ down \in [Raddrs -> SUBSET Fps]
  BY DEF RankInv, TypeOK
<1>2. /\ IsList(r, ranked)
      /\ \A i \in 1..Len(ranked) : ranked[i] \in {Table(r, fp, gen[r] + 1) : fp \in S}
  BY <1>1, RankingList
<1>3. /\ {Table(r, fp, gen[r] + 1) : fp \in S} \subseteq ppaths'
      /\ \A t \in ppaths : t.raddr # r => t \in ppaths'
  BY FlushKeeps
<1>4. \A i \in 1..Len(ranked) : ranked[i] \in ppaths'
  BY <1>2, <1>3
<1>5. ranked \in Seq(Tables) /\ ranked # Nil
  BY <1>2, NilAssumption DEF IsList
<1>6. \A q \in Raddrs : /\ paths'[q] = IF q = r THEN ranked ELSE paths[q]
                        /\ down'[q] = IF q = r THEN {} ELSE down[q]
  BY <1>1 DEF Offer, Learn
<1>7. /\ paths' \in [Raddrs -> Seq(Tables) \cup {Nil}]
      /\ down' \in [Raddrs -> SUBSET Fps]
  BY <1>1, <1>5 DEF Offer, Learn
<1>8. ASSUME NEW q \in Raddrs, paths'[q] # Nil
      PROVE  /\ IsList(q, paths'[q])
             /\ \A i \in 1..Len(paths'[q]) :
                   /\ Roomy => paths'[q][i] \in ppaths'
                   /\ paths'[q][i].fp \notin down'[q]
  <2>1. CASE q = r
    BY <1>2, <1>4, <1>6, <2>1
  <2>2. CASE q # r
    <3>1. paths'[q] = paths[q] /\ down'[q] = down[q]
      BY <1>6, <2>2
    <3>2. /\ IsList(q, paths[q])
          /\ \A i \in 1..Len(paths[q]) :
                /\ Roomy => paths[q][i] \in ppaths
                /\ paths[q][i].fp \notin down[q]
      BY <1>8, <3>1 DEF RankInv, Listed
    <3>3. \A i \in 1..Len(paths[q]) : paths[q][i].raddr # r
      BY <2>2, <3>2 DEF IsList
    <3> QED BY <1>3, <3>1, <3>2, <3>3
  <2> QED BY <2>1, <2>2
<1>9. Listed'
  BY <1>8 DEF Listed, Roomy, Fits
<1> QED BY <1>5, <1>6, <1>7, <1>9

\* Without that room nothing is asked of the tables.
LEMMA FullListed ==
    ASSUME RankInv, ~Roomy, UNCHANGED <<paths, down, top>>
    PROVE  Listed'
BY DEF RankInv, Listed, Roomy, Fits

LEMMA SameListed ==
    ASSUME RankInv, UNCHANGED <<paths, down, ppaths, top>>
    PROVE  Listed'
BY DEF RankInv, Listed, Roomy, Fits

-----------------------------------------------------------------------------
(***************************************************************************)
(* Connections.                                                            *)
(***************************************************************************)
Shut == {"closed", "ended"}

\* Steps that open no connection, forget no list and take back no preferences.
LEMMA OpenedKept ==
    ASSUME RankInv, script' = script,
           \A q \in Raddrs : paths'[q] = Nil => paths[q] = Nil,
           \A l \in Laddrs : phase'[l] = "open" =>
               /\ phase[l] = "open" /\ conn'[l] = conn[l]
               /\ conns[l] # Nil => conns'[l] # Nil,
           \A k \in Laddrs : phase[k] \in Shut => phase'[k] \in Shut /\ conn'[k] = conn[k]
    PROVE  Opened'
<1> SUFFICES ASSUME NEW l \in Laddrs, phase'[l] = "open"
             PROVE  /\ conn'[l] \in Raddrs
                    /\ script \in Demos => conns'[l] # Nil
                    /\ paths'[conn'[l]] = Nil =>
                          /\ script \in Examples
                          /\ \E k \in Laddrs \ {l} :
                                conn'[k] = conn'[l] /\ phase'[k] \in Shut
  BY DEF Opened, Shut
<1>1. phase[l] = "open" /\ conn'[l] = conn[l] /\ conn[l] \in Raddrs
      /\ (script \in Demos => conns[l] # Nil)
  BY DEF RankInv, Opened
<1>2. ASSUME paths'[conn'[l]] = Nil
      PROVE  /\ script \in Examples
             /\ \E k \in Laddrs \ {l} : conn'[k] = conn'[l] /\ phase'[k] \in Shut
  <2>1. paths[conn[l]] = Nil
    BY <1>1, <1>2
  <2>2. PICK k \in Laddrs \ {l} : conn[k] = conn[l] /\ phase[k] \in Shut
    BY <1>1, <2>1 DEF RankInv, Opened, Shut
  <2>3. script \in Examples
    BY <1>1, <2>1 DEF RankInv, Opened
  <2> QED BY <1>1, <2>2, <2>3
<1> QED BY <1>1, <1>2

\* The process of l ends, or has ended before.
LEMMA KillPhase ==
    ASSUME RankInv, NEW l \in Laddrs, Kill(l)
    PROVE  /\ phase' \in [Laddrs -> Phases]
           /\ \A k \in Laddrs : phase'[k] = "open" => phase[k] = "open"
           /\ \A k \in Laddrs : phase[k] \in Shut => phase'[k] \in Shut
<1>1. phase \in [Laddrs -> Phases]
  BY DEF RankInv, TypeOK
<1>2. /\ phase' \in [Laddrs -> Phases]
      /\ \A k \in Laddrs : k # l => phase'[k] = phase[k]
      /\ phase'[l] # "open"
      /\ phase[l] \in Shut => phase'[l] \in Shut
  BY <1>1 DEF Kill, Phases, Shut
<1> QED BY <1>2

\* A call that raises in the script.
LEMMA KillRankInv ==
    ASSUME RankInv, NEW l \in Laddrs, Kill(l),
           UNCHANGED <<goVars, script, scriptVars, conn, down, top, daemon>>
    PROVE  RankInv'
<1> USE DEF goVars, scriptVars
<1>1. TypeOK'
  BY KillPhase DEF RankInv, TypeOK
<1>2. Owned' /\ Listed'
  BY SameListed DEF RankInv, Owned
<1>3. Opened'
  BY KillPhase, OpenedKept
<1> QED BY <1>1, <1>2, <1>3 DEF RankInv

-----------------------------------------------------------------------------
(***************************************************************************)
(* One lemma per handler.                                                  *)
(***************************************************************************)
LEMMA InitializeStep ==
    ASSUME RankInv, NEW l \in Laddrs, NEW r \in Raddrs, NEW S \in SUBSET PathsOf[r],
           NEW prefs \in Profiles, NEW ranked \in Rankings(r, S),
           Initialize(l, r, S, prefs, ranked)
    PROVE  RankInv'
<1>1. /\ FlushAndSet(r, S) /\ gen[r] < MaxGen /\ Offer(r, ranked)
      /\ phase[l] = "free" /\ UNCHANGED <<script, top, daemon>>
  BY DEF Initialize
<1>2. /\ paths' \in [Raddrs -> Seq(Tables) \cup {Nil}]
      /\ down' \in [Raddrs -> SUBSET Fps]
      /\ \A q \in Raddrs : q # r => paths'[q] = paths[q]
      /\ paths'[r] # Nil
      /\ Listed'
  BY <1>1, LearnListed
<1>3. /\ lpaths' \in [Raddrs -> SUBSET Tables] /\ ppaths' \in SUBSET Tables
      /\ gen' \in [Raddrs -> 0..MaxGen] /\ Owned'
  BY <1>1, FlushKeeps
<1>4. /\ conns' \in [Laddrs -> Profiles \cup {Nil}]
      /\ conns'[l] = IF script \in Demos THEN prefs ELSE conns[l]
      /\ \A k \in Laddrs : k # l => conns'[k] = conns[k]
  BY DEF Initialize, Keep, RankInv, TypeOK
<1>5. /\ conn' \in [Laddrs -> Raddrs \cup {Nil}]
      /\ \A k \in Laddrs : conn'[k] = IF k = l THEN r ELSE conn[k]
  BY DEF Initialize, RankInv, TypeOK
<1>6. /\ phase' \in [Laddrs -> Phases]
      /\ \A k \in Laddrs : phase'[k] = IF k = l THEN "open" ELSE phase[k]
  BY DEF Initialize, RankInv, TypeOK, Phases
<1>7. TypeOK'
  BY <1>1, <1>2, <1>3, <1>4, <1>5, <1>6 DEF RankInv, TypeOK
<1>8. ASSUME NEW k \in Laddrs, phase'[k] = "open"
      PROVE  /\ conn'[k] \in Raddrs
             /\ script' \in Demos => conns'[k] # Nil
             /\ paths'[conn'[k]] = Nil =>
                   /\ script' \in Examples
                   /\ \E h \in Laddrs \ {k} :
                         conn'[h] = conn'[k] /\ phase'[h] \in Shut
  <2>1. CASE k = l
    BY <1>1, <1>2, <1>4, <1>5, <2>1, NilAssumption
  <2>2. CASE k # l
    <3>1. /\ phase[k] = "open" /\ conn'[k] = conn[k] /\ conn[k] \in Raddrs
          /\ script' \in Demos => conns'[k] # Nil
      BY <1>1, <1>4, <1>5, <1>6, <1>8, <2>2 DEF RankInv, Opened
    <3>2. ASSUME paths'[conn'[k]] = Nil
          PROVE  /\ script' \in Examples
                 /\ \E h \in Laddrs \ {k} : conn'[h] = conn'[k] /\ phase'[h] \in Shut
      <4>1. conn[k] # r /\ paths[conn[k]] = Nil
        BY <1>2, <3>1, <3>2
      <4>2. PICK h \in Laddrs \ {k} : conn[h] = conn[k] /\ phase[h] \in Shut
        BY <3>1, <4>1 DEF RankInv, Opened, Shut
      <4>3. h # l
        BY <1>1, <4>2 DEF Shut
      <4>4. script \in Examples
        BY <3>1, <4>1 DEF RankInv, Opened
      <4> QED BY <1>1, <1>5, <1>6, <3>1, <4>2, <4>3, <4>4
    <3> QED BY <3>1, <3>2
  <2> QED BY <2>1, <2>2
<1>9. Opened'
  BY <1>8 DEF Opened, Shut
<1> QED BY <1>2, <1>3, <1>7, <1>9 DEF RankInv

\* New paths for r that are stored, or flushed only for want of room.
LEMMA RaisesListed ==
    ASSUME RankInv, NEW r \in Raddrs, NEW S \in SUBSET PathsOf[r],
           NEW ranked \in Rankings(r, S), gen[r] < MaxGen, ~Roomy,
           FlushAndSet(r, S), Offer(r, ranked) \/ UNCHANGED <<paths, down>>,
           top' = top
    PROVE  /\ paths' \in [Raddrs -> Seq(Tables) \cup {Nil}]
           /\ down' \in [Raddrs -> SUBSET Fps]
           /\ \A q \in Raddrs : paths'[q] = Nil => paths[q] = Nil
           /\ Listed'
<1>1. CASE Offer(r, ranked)
  BY <1>1, LearnListed
<1>2. CASE UNCHANGED <<paths, down>>
  BY <1>2, FullListed DEF RankInv, TypeOK
<1> QED BY <1>1, <1>2

LEMMA InitializeFailsStep ==
    ASSUME RankInv, NEW l \in Laddrs, NEW r \in Raddrs, NEW S \in SUBSET PathsOf[r],
           NEW prefs \in Profiles, NEW ranked \in Rankings(r, S),
           InitializeFails(l, r, S, prefs, ranked)
    PROVE  RankInv'
<1>1. /\ FlushAndSet(r, S) /\ gen[r] < MaxGen /\ ~Roomy /\ phase[l] = "free"
      /\ Offer(r, ranked) \/ UNCHANGED <<paths, down>>
      /\ Keep(l, prefs) \/ UNCHANGED conns
      /\ phase' = [phase EXCEPT ![l] = "killed"]
      /\ UNCHANGED <<script, conn, top, daemon>>
  BY DEF InitializeFails, scriptVars, Roomy
<1>2. /\ lpaths' \in [Raddrs -> SUBSET Tables] /\ ppaths' \in SUBSET Tables
      /\ gen' \in [Raddrs -> 0..MaxGen] /\ Owned'
  BY <1>1, FlushKeeps
<1>3. /\ paths' \in [Raddrs -> Seq(Tables) \cup {Nil}]
      /\ down' \in [Raddrs -> SUBSET Fps]
      /\ \A q \in Raddrs : paths'[q] = Nil => paths[q] = Nil
      /\ Listed'
  BY <1>1, RaisesListed
<1>4. /\ conns' \in [Laddrs -> Profiles \cup {Nil}]
      /\ \A k \in Laddrs : k # l => conns'[k] = conns[k]
  BY <1>1 DEF Keep, RankInv, TypeOK
<1>5. /\ phase' \in [Laddrs -> Phases]
      /\ \A k \in Laddrs : phase'[k] = IF k = l THEN "killed" ELSE phase[k]
  BY <1>1 DEF RankInv, TypeOK, Phases
<1>6. TypeOK'
  BY <1>1, <1>2, <1>3, <1>4, <1>5 DEF RankInv, TypeOK
<1>7. phase[l] \notin Shut
  BY <1>1 DEF Shut
<1>8. Opened'
  BY <1>1, <1>3, <1>4, <1>5, <1>7, OpenedKept
<1> QED BY <1>2, <1>3, <1>6, <1>8 DEF RankInv

LEMMA SetPreferencesStep ==
    ASSUME RankInv, NEW l \in Laddrs, NEW prefs \in Profiles, SetPreferences(l, prefs)
    PROVE  RankInv'
<1>1. UNCHANGED <<lpaths, ppaths, gen, script, paths, conn, phase, down, top, daemon>>
  BY DEF SetPreferences, goVars, clientVars
<1>2. /\ conns' \in [Laddrs -> Profiles \cup {Nil}]
      /\ \A k \in Laddrs : conns'[k] \in {conns[k], prefs}
  BY DEF SetPreferences, Keep, RankInv, TypeOK
<1>3. TypeOK'
  BY <1>1, <1>2 DEF RankInv, TypeOK
<1>4. Owned' /\ Listed'
  BY <1>1, SameListed DEF RankInv, Owned
<1>5. Opened'
  BY <1>1, <1>2, NilAssumption, OpenedKept
<1> QED BY <1>3, <1>4, <1>5 DEF RankInv

LEMMA PathDownStep ==
    ASSUME RankInv, NEW l \in Laddrs, NEW fp \in Fps, PathDown(l, fp)
    PROVE  RankInv'
<1> DEFINE r == conn[l]
           ps == paths[r]
           qs == Without(ps, fp)
<1>1. /\ r \in Raddrs /\ ps # Nil
      /\ paths' = [paths EXCEPT ![r] = qs]
      /\ down' = [down EXCEPT ![r] = down[r] \cup {fp}]
      /\ UNCHANGED <<lpaths, ppaths, gen, script, conns, conn, phase, top, daemon>>
  BY DEF PathDown, Known, goVars, clientVars, RankInv, TypeOK
<1>2. /\ IsList(r, ps)
      /\ \A i \in 1..Len(ps) : (Roomy => ps[i] \in ppaths) /\ ps[i].fp \notin down[r]
  BY <1>1 DEF RankInv, Listed
<1> HIDE DEF r, ps, qs
<1>3. /\ IsList(r, qs)
      /\ \A i \in 1..Len(qs) : /\ qs[i].fp # fp
                               /\ \E j \in 1..Len(ps) : qs[i] = ps[j]
  BY <1>2, WithoutList DEF qs
<1>4. qs \in Seq(Tables) /\ qs # Nil
  BY <1>3, NilAssumption DEF IsList
<1>5. /\ paths' \in [Raddrs -> Seq(Tables) \cup {Nil}]
      /\ \A q \in Raddrs : paths'[q] = IF q = r THEN qs ELSE paths[q]
  BY <1>1, <1>4 DEF RankInv, TypeOK
<1>6. /\ down' \in [Raddrs -> SUBSET Fps]
      /\ \A q \in Raddrs : down'[q] = IF q = r THEN down[r] \cup {fp} ELSE down[q]
  BY <1>1 DEF RankInv, TypeOK
<1>7. TypeOK'
  BY <1>1, <1>5, <1>6 DEF RankInv, TypeOK
<1>8. ASSUME NEW q \in Raddrs, paths'[q] # Nil
      PROVE  /\ IsList(q, paths'[q])
             /\ \A i \in 1..Len(paths'[q]) :
                   /\ Roomy => paths'[q][i] \in ppaths
                   /\ paths'[q][i].fp \notin down'[q]
  <2>1. CASE q = r
    BY <1>2, <1>3, <1>5, <1>6, <2>1
  <2>2. CASE q # r
    BY <1>5, <1>6, <1>8, <2>2 DEF RankInv, Listed
  <2> QED BY <2>1, <2>2
<1>9. Listed'
  BY <1>1, <1>8 DEF Listed, Roomy, Fits
<1>10. Opened'
  BY <1>1, <1>4, <1>5, OpenedKept
<1> QED BY <1>1, <1>7, <1>9, <1>10 DEF RankInv, Owned

LEMMA RefreshStep ==
    ASSUME RankInv, NEW l \in Laddrs, conn[l] # Nil, NEW S \in SUBSET PathsOf[conn[l]],
           NEW ranked \in Rankings(conn[l], S), Refresh(l, S, ranked)
    PROVE  RankInv'
<1> DEFINE r == conn[l]
<1>1. /\ r \in Raddrs /\ FlushAndSet(r, S) /\ gen[r] < MaxGen /\ Offer(r, ranked)
      /\ UNCHANGED <<script, conns, conn, top>>
      /\ UNCHANGED phase \/ Kill(l)
  BY DEF Refresh, RankInv, TypeOK
<1>2. daemon' \in BOOLEAN
  BY Zenon DEF Refresh
<1> HIDE DEF r
<1>3. /\ paths' \in [Raddrs -> Seq(Tables) \cup {Nil}]
      /\ down' \in [Raddrs -> SUBSET Fps]
      /\ \A q \in Raddrs : q # r => paths'[q] = paths[q]
      /\ paths'[r] # Nil
      /\ Listed'
  BY <1>1, LearnListed DEF r
<1>4. /\ lpaths' \in [Raddrs -> SUBSET Tables] /\ ppaths' \in SUBSET Tables
      /\ gen' \in [Raddrs -> 0..MaxGen] /\ Owned'
  BY <1>1, FlushKeeps DEF r
<1>5. /\ phase' \in [Laddrs -> Phases]
      /\ \A k \in Laddrs : phase'[k] = "open" => phase[k] = "open"
      /\ \A k \in Laddrs : phase[k] \in Shut => phase'[k] \in Shut
  BY <1>1, KillPhase DEF RankInv, TypeOK
<1>6. TypeOK'
  BY <1>1, <1>2, <1>3, <1>4, <1>5 DEF RankInv, TypeOK
<1>7. Opened'
  BY <1>1, <1>3, <1>5, OpenedKept
<1> QED BY <1>3, <1>4, <1>6, <1>7 DEF RankInv

LEMMA RefreshFailsStep ==
    ASSUME RankInv, NEW l \in Laddrs, conn[l] # Nil, NEW S \in SUBSET PathsOf[conn[l]],
           NEW ranked \in Rankings(conn[l], S), RefreshFails(l, S, ranked)
    PROVE  RankInv'
<1> DEFINE r == conn[l]
<1>1. /\ r \in Raddrs /\ FlushAndSet(r, S) /\ gen[r] < MaxGen /\ ~Roomy /\ Kill(l)
      /\ Offer(r, ranked) \/ UNCHANGED <<paths, down>>
      /\ UNCHANGED <<script, conns, conn, top, daemon>>
  BY DEF RefreshFails, Roomy, RankInv, TypeOK
<1> HIDE DEF r
<1>2. /\ lpaths' \in [Raddrs -> SUBSET Tables] /\ ppaths' \in SUBSET Tables
      /\ gen' \in [Raddrs -> 0..MaxGen] /\ Owned'
  BY <1>1, FlushKeeps DEF r
<1>3. /\ phase' \in [Laddrs -> Phases]
      /\ \A k \in Laddrs : phase'[k] = "open" => phase[k] = "open"
      /\ \A k \in Laddrs : phase[k] \in Shut => phase'[k] \in Shut
  BY <1>1, KillPhase
<1>4. /\ paths' \in [Raddrs -> Seq(Tables) \cup {Nil}]
      /\ down' \in [Raddrs -> SUBSET Fps]
      /\ \A q \in Raddrs : paths'[q] = Nil => paths[q] = Nil
      /\ Listed'
  BY <1>1, RaisesListed DEF r
<1>5. TypeOK'
  BY <1>1, <1>2, <1>3, <1>4 DEF RankInv, TypeOK
<1>6. Opened'
  BY <1>1, <1>3, <1>4, OpenedKept
<1> QED BY <1>2, <1>4, <1>5, <1>6 DEF RankInv

LEMMA CloseStep ==
    ASSUME RankInv, NEW l \in Laddrs, Close(l)
    PROVE  RankInv'
<1> DEFINE r == conn[l]
<1>1. /\ r \in Raddrs /\ top + Needs["Close"] <= Slots /\ top' = top + 1
      /\ paths' = [paths EXCEPT ![r] = IF script \in Examples THEN Nil ELSE paths[r]]
      /\ UNCHANGED <<lpaths, ppaths, gen, script, conn, down, daemon>>
  BY DEF Close, MayClose, Known, Fits, goVars, RankInv, TypeOK
<1> HIDE DEF r
<1>2. top' \in 0..Slots /\ (Roomy' => Roomy)
  <2>1. /\ \A op \in Functions : Needs[op] \in Nat \ {0}
        /\ {"Initialize", "Refresh", "Close"} \subseteq Functions
        /\ top \in Nat /\ Slots \in Nat
    BY BoundAssumption, NeedsAssumption DEF Functions, RankInv, TypeOK
  <2> QED BY <1>1, <2>1 DEF Roomy, Fits
<1>3. /\ conns' \in [Laddrs -> Profiles \cup {Nil}]
      /\ \A k \in Laddrs : k # l => conns'[k] = conns[k]
  BY DEF Close, RankInv, TypeOK
<1>4. /\ phase' \in [Laddrs -> Phases]
      /\ phase'[l] \in Shut /\ \A k \in Laddrs : k # l => phase'[k] = phase[k]
  BY DEF Close, Closed, RankInv, TypeOK, Phases, Shut
<1>5. /\ paths' \in [Raddrs -> Seq(Tables) \cup {Nil}]
      /\ \A q \in Raddrs : paths'[q] = IF q = r /\ script \in Examples THEN Nil
                                                                      ELSE paths[q]
  BY <1>1 DEF RankInv, TypeOK
<1>6. TypeOK'
  BY <1>1, <1>2, <1>3, <1>4, <1>5 DEF RankInv, TypeOK
<1>7. Listed'
  BY <1>1, <1>2, <1>5 DEF RankInv, Listed
<1>8. ASSUME NEW k \in Laddrs, phase'[k] = "open"
      PROVE  /\ conn'[k] \in Raddrs
             /\ script' \in Demos => conns'[k] # Nil
             /\ paths'[conn'[k]] = Nil =>
                   /\ script' \in Examples
                   /\ \E h \in Laddrs \ {k} :
                         conn'[h] = conn'[k] /\ phase'[h] \in Shut
  <2>1. k # l /\ phase[k] = "open" /\ conn[k] \in Raddrs
        /\ (script \in Demos => conns[k] # Nil)
    BY <1>4, <1>8 DEF RankInv, Opened, Shut
  <2>2. ASSUME paths'[conn[k]] = Nil
        PROVE  /\ script \in Examples
               /\ \E h \in Laddrs \ {k} : conn[h] = conn[k] /\ phase'[h] \in Shut
    <3>1. CASE conn[k] = r /\ script \in Examples
      <4>1. conn[l] = conn[k] /\ phase'[l] \in Shut
        BY <1>4, <3>1 DEF r, Shut
      <4> QED BY <2>1, <3>1, <4>1
    <3>2. CASE ~(conn[k] = r /\ script \in Examples)
      <4>1. paths[conn[k]] = Nil
        BY <1>5, <2>1, <2>2, <3>2
      <4>2. /\ script \in Examples
            /\ \E h \in Laddrs \ {k} : conn[h] = conn[k] /\ phase[h] \in Shut
        BY <2>1, <4>1 DEF RankInv, Opened, Shut
      <4> QED BY <1>4, <4>2 DEF Shut
    <3> QED BY <3>1, <3>2
  <2> QED BY <1>1, <1>3, <2>1, <2>2
<1>9. Opened'
  BY <1>8 DEF Opened, Shut
<1> QED BY <1>1, <1>6, <1>7, <1>9 DEF RankInv, Owned

\* A connection ends and the script does not hear of it.
LEMMA EndStep ==
    ASSUME RankInv, NEW l \in Laddrs, CloseFails(l) \/ Lost(l)
    PROVE  RankInv'
<1>1. /\ UNCHANGED <<lpaths, ppaths, gen, script, paths, conns, conn, down, top, daemon>>
      /\ phase[l] \notin Shut
  BY DEF CloseFails, MayClose, Lost, Shut, goVars, scriptVars
<1>2. /\ phase' \in [Laddrs -> Phases]
      /\ \A k \in Laddrs : phase'[k] = phase[k] \/ (k = l /\ phase'[k] # "open")
  BY DEF CloseFails, Closed, Lost, RankInv, TypeOK, Phases
<1>3. TypeOK'
  BY <1>1, <1>2 DEF RankInv, TypeOK
<1>4. Owned' /\ Listed'
  BY <1>1, SameListed DEF RankInv, Owned
<1>5. Opened'
  BY <1>1, <1>2, OpenedKept
<1> QED BY <1>3, <1>4, <1>5 DEF RankInv

LEMMA NextRankInv == RankInv /\ [Next]_vars => RankInv'
<1> SUFFICES ASSUME RankInv, [Next]_vars PROVE RankInv'
  OBVIOUS
<1>1. ASSUME UNCHANGED vars PROVE RankInv'
  BY <1>1 DEF vars, goVars, scriptVars, clientVars, RankInv, TypeOK, Owned, Listed,
     Opened, Roomy, Fits
<1>2. ASSUME NEW l \in Laddrs, Path(l) PROVE RankInv'
  BY <1>1, <1>2 DEF Path
<1>3. ASSUME NEW l \in Laddrs, PathFails(l) \/ PathDownFails(l) PROVE RankInv'
  BY <1>3, KillRankInv DEF PathFails, PathDownFails
<1> QED
  BY <1>1, <1>2, <1>3, InitializeStep, InitializeFailsStep, SetPreferencesStep,
     PathDownStep, RefreshStep, RefreshFailsStep, CloseStep, EndStep DEF Next

LEMMA RankInvHolds == Spec => []RankInv
BY InitRankInv, NextRankInv, PTL DEF Spec

-----------------------------------------------------------------------------
\* The state of the four scripts and of the Lua selector is well typed.
THEOREM TypeCorrect == Spec => []TypeOK
<1>1. RankInv => TypeOK
  BY DEF RankInv
<1> QED BY <1>1, RankInvHolds, PTL

\* What the script answers with, if it answers with a path.
LEMMA ChosenListed ==
    ASSUME RankInv, NEW l \in Laddrs, Serving(l), ~PathRaises(l), paths[conn[l]] # <<>>
    PROVE  /\ conn[l] \in Raddrs /\ paths[conn[l]] # Nil
           /\ IsList(conn[l], paths[conn[l]])
           /\ \E i \in 1..Len(paths[conn[l]]) : Chosen(l) = paths[conn[l]][i]
           /\ Chosen(l).fp \in Fps \ down[conn[l]]
           /\ Answer(l) \in {Nil, Chosen(l).fp}
           /\ Roomy => Answer(l) = Chosen(l).fp
<1> DEFINE ps == paths[conn[l]]
<1>1. conn[l] \in Raddrs /\ ps # Nil
  BY DEF RankInv, Opened, Serving, PathRaises
<1>2. /\ IsList(conn[l], ps)
      /\ \A i \in 1..Len(ps) : /\ Roomy => ps[i] \in ppaths
                               /\ ps[i].fp \notin down[conn[l]]
  BY <1>1 DEF RankInv, Listed
<1>3. Len(ps) \in Nat \ {0} /\ \A i \in 1..Len(ps) : ps[i] \in Tables
  BY <1>2, EmptySeq, ElementOfSeq DEF IsList
<1>4. PICK i \in 1..Len(ps) : Chosen(l) = ps[i]
  BY <1>3 DEF Chosen
<1>5. Chosen(l).fp \in Fps
  BY <1>3, <1>4 DEF Tables
<1> QED BY <1>1, <1>2, <1>4, <1>5 DEF Answer, GetPanPath

\* Path raises for an open connection only if the stack is full or, with the
\* example scripts, another connection to the same remote has closed.
THEOREM OpenPathSucceedsHolds == Spec => []OpenPathSucceeds
<1>1. RankInv => OpenPathSucceeds
  <2> SUFFICES ASSUME RankInv, NEW l \in Laddrs, Serving(l), Fits("Path"),
                      PathRaises(l)
               PROVE  /\ script \in Examples
                      /\ \E k \in Laddrs \ {l} :
                            conn[k] = conn[l] /\ phase[k] \in {"closed", "ended"}
    BY DEF OpenPathSucceeds
  <2>1. paths[conn[l]] = Nil
    BY DEF RankInv, Opened, Serving, PathRaises
  <2> QED BY <2>1 DEF RankInv, Opened, Serving
<1> QED BY <1>1, RankInvHolds, PTL

\* As long as there is room to store the paths they are given, the scripts never
\* answer with a table that set_paths has flushed.
THEOREM AnswersResolveHolds == Spec => []AnswersResolve
<1>1. RankInv => AnswersResolve
  BY ChosenListed DEF AnswersResolve
<1> QED BY <1>1, RankInvHolds, PTL

\* A path that was reported down is not answered until it is offered again.
THEOREM DownAvoidedHolds == Spec => []DownAvoided
<1>1. RankInv => DownAvoided
  <2> SUFFICES ASSUME RankInv, NEW l \in Laddrs, Serving(l), ~PathRaises(l)
               PROVE  Answer(l) \notin down[conn[l]]
    BY DEF DownAvoided
  <2>0. Nil \notin down[conn[l]]
    BY NilAssumption DEF RankInv, TypeOK, Opened, Serving
  <2>1. CASE paths[conn[l]] # <<>>
    BY <2>0, <2>1, ChosenListed
  <2>2. CASE paths[conn[l]] = <<>>
    BY <2>0, <2>2 DEF Answer
  <2> QED BY <2>1, <2>2
<1> QED BY <1>1, RankInvHolds, PTL

\* The demos keep a scavenger and another connection to its remote apart as
\* long as two paths are listed and there is room to store new ones.
THEOREM ScavengerApartHolds == Spec => []ScavengerApart
<1>1. RankInv => ScavengerApart
  <2> SUFFICES ASSUME RankInv, NEW l \in Laddrs, NEW k \in Laddrs,
                      Roomy, Serving(l), ~PathRaises(l), conns[l] = "Scavenger",
                      Serving(k), ~PathRaises(k), conns[k] # "Scavenger",
                      script \in Demos, conn[l] = conn[k], Len(paths[conn[l]]) > 1
               PROVE  Answer(l) # Answer(k)
    BY DEF ScavengerApart
  <2> DEFINE ps == paths[conn[l]]
  <2>1. ps # <<>>
    BY EmptySeq
  <2>2. /\ IsList(conn[l], ps)
        /\ Answer(l) = Chosen(l).fp /\ Answer(k) = Chosen(k).fp
    BY <2>1, ChosenListed
  <2>3. Chosen(l) = ps[Len(ps)] /\ Chosen(k) = ps[1]
    BY DEF Chosen
  <2>4. Len(ps) \in Nat /\ 1 \in 1..Len(ps) /\ Len(ps) \in 1..Len(ps) /\ 1 # Len(ps)
    BY <2>2 DEF IsList
  <2> QED BY <2>2, <2>3, <2>4 DEF IsList
<1> QED BY <1>1, RankInvHolds, PTL

=============================================================================
