----------------------------- MODULE DurableKV -----------------------------
(***************************************************************************)
(* What the control plane's embedded store promises its callers: a map     *)
(* whose updates take effect one at a time, and whose acknowledged updates *)
(* no crash can undo.  There is no log, no file, no lock and no replay     *)
(* here.  `current` is the map a reader would see if every update that has *)
(* taken effect were visible; `maybe` is the set of maps a loss of power   *)
(* may bring back.  An update is acknowledged only when nothing but the    *)
(* current map can come back.                                              *)
(***************************************************************************)
CONSTANTS Procs, Keys, Values, Absent

VARIABLES current, maybe, st, req

kvars == <<current, maybe, st, req>>

Maps == [Keys -> Values \cup {Absent}]

Init ==
    /\ current = [k \in Keys |-> Absent]
    /\ maybe = {current}
    /\ st = [p \in Procs |-> "idle"]
    /\ \A p \in Procs : req[p].val = Absent

Call(p) ==
    /\ st[p] = "idle"
    /\ st' = [st EXCEPT ![p] = "called"]
    /\ \E k \in Keys, v \in Values \cup {Absent} :
          req' = [req EXCEPT ![p] = [key |-> k, val |-> v]]
    /\ UNCHANGED <<current, maybe>>

(* The update takes effect, but may still be lost with the power. *)
Commit(p) ==
    /\ st[p] = "called"
    /\ \A q \in Procs : st[q] # "applied"
    /\ st' = [st EXCEPT ![p] = "applied"]
    /\ current' = [current EXCEPT ![req[p].key] = req[p].val]
    /\ maybe' = maybe \cup {current'}
    /\ UNCHANGED req

Flush ==
    /\ maybe' = {current}
    /\ UNCHANGED <<current, st, req>>

(* Success is reported only once the update can no longer be lost. *)
Ack(p) ==
    /\ st[p] = "applied"
    /\ maybe = {current}
    /\ st' = [st EXCEPT ![p] = "idle"]
    /\ UNCHANGED <<current, maybe, req>>

(* A failed call has no effect, now or later. *)
Fail(p) ==
    /\ st[p] = "called"
    /\ st' = [st EXCEPT ![p] = "idle"]
    /\ UNCHANGED <<current, maybe, req>>

Crash ==
    /\ st' = [p \in Procs |-> "idle"]
    /\ UNCHANGED req
    /\ \/ UNCHANGED <<current, maybe>>
       \/ \E m \in maybe : current' = m /\ maybe' = {m}

Next ==
    \/ \E p \in Procs : Call(p) \/ Commit(p) \/ Ack(p) \/ Fail(p)
    \/ Flush
    \/ Crash

Spec == Init /\ [][Next]_kvars
=============================================================================
