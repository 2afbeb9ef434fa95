---------------------------- MODULE PathService ----------------------------
(***************************************************************************)
(* What path selection over RPC promises to the program that uses it       *)
(* (pan.Selector as rpc/selector.go offers it): from the call of           *)
(* Initialize to the call of Close a connection has one path object.  A    *)
(* call takes effect on it at one moment between its invocation and its    *)
(* return, so the answer of Path is the path that was current then.  The   *)
(* program gets that path unless it has said itself that the path is down  *)
(* and has not been offered it again: then Path returns nil.  Once Close   *)
(* has been called answers mean nothing.  The service may end; calls then  *)
(* fail, and so may the processes that made them.                          *)
(***************************************************************************)
CONSTANTS Conns, Threads, Fps, Nil

VARIABLES
    life,   \* connection -> what its process does with it
    pend,   \* connection, goroutine -> its call
    obj,    \* connection -> the paths known and the current one
    hidden, \* connection -> the paths it has said are down
    got,    \* connection -> what Path returned, until it is called again
    up      \* whether the service runs

vars == <<life, pend, obj, hidden, got, up>>

None == [op |-> "none", at |-> "idle", arg |-> {}, ans |-> Nil]
Lost(op) == [op |-> op, at |-> "lost", arg |-> {}, ans |-> Nil]
Empty == [paths |-> {}, cur |-> Nil]

Init ==
    /\ life = [c \in Conns |-> "new"]
    /\ pend = [c \in Conns |-> [t \in Threads |-> None]]
    /\ obj = [c \in Conns |-> Empty]
    /\ hidden = [c \in Conns |-> {}]
    /\ got = [c \in Conns |-> Nil]
    /\ up = TRUE

Opens == [Initialize |-> "new", Close |-> "open"]
Enters == [Initialize |-> "dialing", Close |-> "closing"]
Ends == [Initialize |-> "open", Close |-> "closed"]
Telling == {"Initialize", "PathDown", "Refresh"}

\* Goroutine t of c calls op.
Invoke(c, t, op, arg) ==
    /\ pend[c][t] = None
    /\ IF op \in DOMAIN Opens
       THEN /\ life[c] = Opens[op]
            /\ life' = [life EXCEPT ![c] = Enters[op]]
       ELSE /\ life[c] \in {"open", "closing"}
            /\ UNCHANGED life
    /\ pend' = [pend EXCEPT ![c][t] =
           IF op \in Telling
           THEN [op |-> op, at |-> "called", arg |-> arg, ans |-> Nil]
           ELSE IF up THEN [op |-> op, at |-> "pending", arg |-> arg, ans |-> Nil]
                      ELSE Lost(op)]
    /\ obj' = [obj EXCEPT ![c] = IF op = "Close" THEN Empty ELSE @]
    /\ got' = [got EXCEPT ![c] = IF op = "Path" THEN Nil ELSE @]
    /\ UNCHANGED <<hidden, up>>

\* What the call says of its paths counts from here on.
Note(c, t) ==
    LET m == pend[c][t]
    IN  /\ m.at = "called"
        /\ hidden' = [hidden EXCEPT ![c] = IF m.op = "PathDown" THEN @ \cup m.arg
                                                               ELSE @ \ m.arg]
        /\ pend' = [pend EXCEPT ![c][t] = IF up THEN [m EXCEPT !.at = "pending"]
                                                ELSE Lost(m.op)]
        /\ UNCHANGED <<life, obj, got, up>>

\* The current path changes only when a path is reported down or when it is not
\* among the paths any more; there is one as soon as paths have been offered.
Promise(s, op, arg, n) ==
    /\ n.paths = IF op \in {"Initialize", "Refresh"} THEN arg ELSE s.paths
    /\ n.cur \in n.paths
    /\ s.cur \in n.paths /\ op # "PathDown" => n.cur = s.cur

\* The call takes effect.
Effect(c, t) ==
    LET m == pend[c][t]
    IN  /\ up
        /\ m.at = "pending"
        /\ life[c] \in {"dialing", "open"}
        /\ \E n \in [paths : SUBSET Fps, cur : Fps] :
              /\ Promise(obj[c], m.op, m.arg, n)
              /\ obj' = [obj EXCEPT ![c] = n]
              /\ pend' = [pend EXCEPT ![c][t].at = "done",
                             ![c][t].ans = IF m.op = "Path" THEN n.cur ELSE Nil]
        /\ UNCHANGED <<life, hidden, got, up>>

\* After Close there is no object; Path may still answer with a path or none.
LateEffect(c, t) ==
    LET m == pend[c][t]
    IN  /\ up
        /\ m.at = "pending"
        /\ life[c] \in {"closing", "closed"}
        /\ \E fp \in Fps \cup {Nil} :
              /\ fp # Nil => m.op = "Path"
              /\ pend' = [pend EXCEPT ![c][t].at = "done", ![c][t].ans = fp]
        /\ UNCHANGED <<life, obj, hidden, got, up>>

Respond(c, t) ==
    LET m == pend[c][t]
    IN  /\ up
        /\ m.at = "done"
        /\ life' = [life EXCEPT ![c] = IF m.op \in DOMAIN Ends THEN Ends[m.op] ELSE @]
        /\ got' = [got EXCEPT ![c] = IF m.op # "Path" THEN @
                                     ELSE IF m.ans \in hidden[c] THEN Nil ELSE m.ans]
        /\ pend' = [pend EXCEPT ![c][t] = None]
        /\ UNCHANGED <<obj, hidden, up>>

\* Without a service SetPreferences and Close return an error.
Error(c, t) ==
    LET op == pend[c][t].op
    IN  /\ pend[c][t].at = "lost"
        /\ op \in {"SetPreferences", "Close"}
        /\ life' = [life EXCEPT ![c] = IF op = "Close" THEN "closed" ELSE @]
        /\ pend' = [pend EXCEPT ![c][t] = None]
        /\ UNCHANGED <<obj, hidden, got, up>>

\* The process of c ends: a call of it found no service or a closed client, or
\* two of its calls met in the client's map of paths.
Die(c) ==
    /\ life[c] # "killed"
    /\ \/ \E t \in Threads : /\ ~up \/ life[c] = "closed"
                             /\ pend[c][t] # None
       \/ \E t, u \in Threads : /\ t # u
                                /\ pend[c][t].at = "called"
                                /\ pend[c][u].at = "called" \/ pend[c][u].ans # Nil
    /\ life' = [life EXCEPT ![c] = "killed"]
    /\ pend' = [pend EXCEPT ![c] = [t \in Threads |-> None]]
    /\ obj' = [obj EXCEPT ![c] = Empty]
    /\ hidden' = [hidden EXCEPT ![c] = {}]
    /\ got' = [got EXCEPT ![c] = Nil]
    /\ UNCHANGED up

\* The service ends, and with it every call it has not answered.
End ==
    /\ up
    /\ up' = FALSE
    /\ pend' = [c \in Conns |-> [t \in Threads |->
           IF pend[c][t].at \in {"idle", "called"} THEN pend[c][t]
                                                  ELSE Lost(pend[c][t].op)]]
    /\ obj' = [c \in Conns |-> Empty]
    /\ UNCHANGED <<life, hidden, got>>

Next ==
    \/ \E c \in Conns :
          \/ Die(c)
          \/ \E t \in Threads :
                \/ \E S \in SUBSET Fps \ {{}} :
                      \E op \in {"Initialize", "Refresh"} : Invoke(c, t, op, S)
                \/ \E fp \in Fps : Invoke(c, t, "PathDown", {fp})
                \/ \E op \in {"SetPreferences", "Path", "Close"} : Invoke(c, t, op, {})
                \/ Effect(c, t)
                \/ LateEffect(c, t)
                \/ Note(c, t)
                \/ Respond(c, t)
                \/ Error(c, t)
    \/ End

Spec == Init /\ [][Next]_vars
=============================================================================
