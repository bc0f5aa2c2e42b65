---------------------------- MODULE ClientContract ----------------------------
(***************************************************************************)
(* What a Client promises the application that polls it: the order of the  *)
(* callbacks of each session, whatever the threads behind them do.  The    *)
(* application knows of a session only what it was told last.              *)
(***************************************************************************)
CONSTANT SessionIDs

VARIABLES
    told,     \* per session id, the last callback
    leaving,  \* sessions that are being removed
    closing,  \* closeClient() was called
    closed,   \* the client-closed callback was made
    gone      \* the client was deleted

vars == <<told, leaving, closing, closed, gone>>

Online == {"up", "talking"}

Init ==
    /\ told = [s \in SessionIDs |-> "none"]
    /\ leaving = {}
    /\ closing = FALSE /\ closed = FALSE /\ gone = FALSE

Tell(s, what) ==
    /\ ~closed /\ ~gone
    /\ told' = [told EXCEPT ![s] = what]
    /\ UNCHANGED <<leaving, closing, closed, gone>>

(* A session that is down, new, or new under the id of a removed one, may  *)
(* come up or fail to; one that is up cannot do either.                    *)
Connected(s) == told[s] \notin Online /\ Tell(s, "up")
Failed(s)    == told[s] \notin Online /\ Tell(s, "failed")

(* Data comes only while the session is up. *)
Received(s) == told[s] \in Online /\ Tell(s, "talking")

(* A session goes down once it was up.  While it is being removed, or the  *)
(* client is closing, one that came up unnoticed is told to be down.       *)
Disconnected(s) == (told[s] \in Online \/ s \in leaving \/ closing) /\ Tell(s, "down")

(* The last thing said of a session, once, never while it is up. *)
Removed(s) == told[s] \in {"failed", "down"} /\ s \in leaving /\ Tell(s, "removed")

Leave == \E S \in SUBSET SessionIDs :
    /\ leaving' = leaving \cup S
    /\ UNCHANGED <<told, closing, closed, gone>>

Forget(s) ==
    /\ told[s] = "removed"
    /\ leaving' = leaving \ {s}
    /\ UNCHANGED <<told, closing, closed, gone>>

Close == closing' = TRUE /\ UNCHANGED <<told, leaving, closed, gone>>

(* The client is closed when every session it spoke of is removed. *)
Closed ==
    /\ closing
    /\ \A s \in SessionIDs : told[s] \in {"none", "removed"}
    /\ closed' = TRUE
    /\ UNCHANGED <<told, leaving, closing, gone>>

Delete ==
    /\ closing
    /\ gone' = TRUE /\ leaving' = {}
    /\ UNCHANGED <<told, closing, closed>>

Next ==
    \/ \E s \in SessionIDs :
          \/ Connected(s) \/ Failed(s) \/ Received(s) \/ Disconnected(s) \/ Removed(s)
          \/ Forget(s)
    \/ Leave \/ Close \/ Closed \/ Delete

Spec == Init /\ [][Next]_vars
=============================================================================
