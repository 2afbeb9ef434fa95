------------------------------- MODULE LuaPaths -------------------------------
(***************************************************************************)
(* The type state of lua/selector.go: which Lua path tables the daemon has *)
(* made for a remote address, and which pan.Path is behind each of them.   *)
(* Every script gets its paths through it and answers with its tables.     *)
(***************************************************************************)
EXTENDS Integers, FiniteSets

CONSTANTS
    Raddrs,     \* remote addresses (the scripts' raddr)
    Fps,        \* path fingerprints
    Nil         \* Lua's nil, Go's nil

(***************************************************************************)
(* A Lua path table, as made by newLuaPath: an object, so two tables with  *)
(* the same fingerprint are different when they were made for different    *)
(* remotes or by different calls (gen tells those apart).                  *)
(***************************************************************************)
Tables == [raddr : Raddrs, fp : Fps, gen : Nat]
Table(r, fp, g) == [raddr |-> r, fp |-> fp, gen |-> g]

ASSUME NilTableAssumption == Nil \notin Tables

VARIABLES
    lpaths,     \* remote address -> its current Lua path tables
    ppaths,     \* Lua path tables that map to a pan.Path that is not nil
    gen         \* remote address -> number of calls of set_paths so far

goVars == <<lpaths, ppaths, gen>>

\* get_pan_path: the pan.Path behind a Lua table, nil once it was flushed.
GetPanPath(t) == IF t \in ppaths THEN t.fp ELSE Nil

\* Faulty variant: clear_addr is left out and old tables keep their pan.Path.
FlushAndSetKeepsOld(r, S) ==
    LET new == {Table(r, fp, gen[r] + 1) : fp \in S}
    IN  /\ gen' = [gen EXCEPT ![r] = @ + 1]
        /\ ppaths' = ppaths \cup new
        /\ lpaths' = [lpaths EXCEPT ![r] = new]

\* clear_addr followed by set_paths: the tables of r are replaced by new ones
\* and the old ones lose their pan.Path.
FlushAndSet(r, S) ==
    LET new == {Table(r, fp, gen[r] + 1) : fp \in S}
    IN  /\ gen' = [gen EXCEPT ![r] = @ + 1]
        /\ ppaths' = (ppaths \ lpaths[r]) \cup new
        /\ lpaths' = [lpaths EXCEPT ![r] = new]

=============================================================================
