---------------------------- MODULE ServerContract ----------------------------
(***************************************************************************)
(* What a Server promises the application that polls it: every session is  *)
(* announced, then talks, then leaves, each session on its own; and the    *)
(* server is closed when all that came have left.                          *)
(***************************************************************************)
CONSTANT SessionIDs

VARIABLES
    told,     \* per session id, the last callback
    stopped,  \* stopServer() was called
    closed,   \* the server-closed callback was made
    gone      \* the server was deleted

vars == <<told, stopped, closed, gone>>

Present == {"new", "talking"}

Init ==
    /\ told = [s \in SessionIDs |-> "none"]
    /\ stopped = FALSE /\ closed = FALSE /\ gone = FALSE

Tell(s, what) ==
    /\ ~closed /\ ~gone
    /\ told' = [told EXCEPT ![s] = what]
    /\ UNCHANGED <<stopped, closed, gone>>

NewConnect(s) == told[s] = "none" /\ Tell(s, "new")
Received(s)   == told[s] \in Present /\ Tell(s, "talking")
Left(s)       == told[s] \in Present /\ Tell(s, "left")

Stop == stopped' = TRUE /\ UNCHANGED <<told, closed, gone>>

Closed ==
    /\ stopped
    /\ \A s \in SessionIDs : told[s] \notin Present
    /\ closed' = TRUE
    /\ UNCHANGED <<told, stopped, gone>>

Delete == stopped /\ gone' = TRUE /\ UNCHANGED <<told, stopped, closed>>

Next ==
    \/ \E s \in SessionIDs : NewConnect(s) \/ Received(s) \/ Left(s)
    \/ Stop \/ Closed \/ Delete

Spec == Init /\ [][Next]_vars
=============================================================================
