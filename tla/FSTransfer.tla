------------------------------ MODULE FSTransfer ------------------------------
(***************************************************************************)
(* The file transfer of FSTransfer/FSTransfer.cpp between the client and   *)
(* the server of FSTransfer/FSTransferPool.cpp.                            *)
(*                                                                         *)
(* One file is uploaded (or downloaded) by calls of upload(): each call    *)
(* has a session of the client, and an FSTransfer object at either end of  *)
(* its connection, one with the duty to send and one with the duty to      *)
(* receive.  The receiver says how much of the file it has, the sender     *)
(* goes on from there slice by slice, and closes with a check.             *)
(*                                                                         *)
(* A connection may break at any point, and the loop threads of the two    *)
(* programs notice it each at a time of its own.  What they received       *)
(* before is still handled by the applications, which may be far behind.   *)
(* The client's loop thread connects again, the client's object stays and  *)
(* announces the file anew; the server has a new session and a new object. *)
(* The client's end of a call is number 0, and its k-th connection ends at *)
(* the server in number k.                                                 *)
(*                                                                         *)
(* A file is the sequence of its slices: the number of a slice that was    *)
(* written, Hole for one that was jumped over and reads as zeros.          *)
(***************************************************************************)
EXTENDS Integers, FiniteSets, Sequences

CONSTANTS Calls,        \* the calls of upload() or download(), each its session
          Totals,       \* the sizes of the sender's file, in slices
          Telling,      \* in which slices the check may tell a hole from the content
          Before,       \* what the receiver may have under that name already
          MaxExecuting, \* the transfers the pool starts (8)
          MaxDrops      \* how often connections may break or fail (a bound)

Client == 0
Links == 1 .. MaxDrops + 1
Ends == {Client} \cup Links
Hole == 0
Other == -2             \* a slice of another file
NoTask == -1

ASSUME TransferAssumption ==
    /\ Calls \subseteq Nat /\ Totals \subseteq Nat
    /\ Before \subseteq Seq({Other})
    /\ MaxExecuting \in Nat \ {0} /\ MaxDrops \in Nat

VARIABLES
    way,       \* "upload" or "download"
    total,     \* the size of the sender's file
    telling,   \* its slices in which the check would tell a hole from the content
    disk,      \* the receiver's file (none: empty)
    conn,      \* the client's end of a call's connection; "none" as long as it
               \* was not called or waits in m_allWaitTaskInfo
    links,     \* the connections a call had so far
    open,      \* the server's ends that are open: <<call, link>>
    tr,        \* the FSTransfer objects: m_duty, and m_task as the slices transmitted
    chan,      \* what is on its way to an end, or received and not handled yet
    report,    \* what the transfers of a call last printed
    drops,     \* connections that broke or failed
    marks,     \* what befell a call: "late", "cut", "refused" (history)
    overlap,   \* a receiver opened the file when another one had it open (history)
    crashed    \* an m_task was dereferenced that was not there

vars == <<way, total, telling, disk, conn, links, open, tr, chan, report, drops,
          marks, overlap, crashed>>

\* no object: the client's transfer is NULL, the server's is not in its map
Unmade == [duty |-> "NULL", task |-> NoTask]
NoTransfer == [duty |-> "None", task |-> NoTask]
WithDuty(t, duty) == [duty |-> duty, task |-> t.task]
WithTask(t, task) == [duty |-> t.duty, task |-> task]
Sending(task) == [duty |-> "Send", task |-> task]
Receivers == IF way = "upload" THEN Links ELSE {Client}

\* the receiver's file is, slice by slice, the sender's
Intact == Len(disk) = total /\ \A i \in 1 .. total : disk[i] = i

-----------------------------------------------------------------------------
(* The file system.  Every fopen may fail.                                 *)

\* fseek and fwrite of slice i: what was jumped over reads as zeros
WriteSlice(file, i) ==
    [k \in 1 .. (IF i > Len(file) THEN i ELSE Len(file)) |->
        IF k = i THEN i ELSE IF k <= Len(file) THEN file[k] ELSE Hole]

\* the last slice written may still be in its stream's buffer
Unflushed(ends) ==
    IF Len(disk) > 0 /\ \E x \in ends : tr[x[1]][x[2]].task > 0 THEN {0, 1} ELSE {0}

\* getFileSize: 0 when the file cannot be opened
SizesSeen == {0} \cup {Len(disk) - u : u \in Unflushed(Calls \X Receivers)}

\* the slices the check reads from: 1024 bytes at the start, 1024 at the end,
\* where the last slice may be shorter
Looked == {1, total - 1, total} \cap 1 .. total

-----------------------------------------------------------------------------
(* Messages                                                                *)

Post == [t |-> "post", at |-> total, code |-> "ok"]
Result(code, at) == [t |-> "result", at |-> at, code |-> code]
Slice(at) == [t |-> "slice", at |-> at, code |-> "ok"]
Ack(at) == [t |-> "ack", at |-> at, code |-> "ok"]
Download == [t |-> "download", at |-> 0, code |-> "ok"]
Check == [t |-> "check", at |-> total, code |-> "ok"]
\* CONNECT or CONNECT_FAIL in the client's queue: the callback is the same
Status == [t |-> "status", at |-> 0, code |-> "ok"]

-----------------------------------------------------------------------------
Init ==
    /\ way \in {"upload", "download"}
    /\ total \in Totals
    /\ telling \in {known \cap Looked : known \in Telling}
    /\ disk \in Before
    /\ conn = [c \in Calls |-> "none"]
    /\ links = [c \in Calls |-> 0]
    /\ open = {}
    /\ tr = [c \in Calls |-> [e \in Ends |-> Unmade]]
    /\ chan = [c \in Calls |-> [e \in Ends |-> <<>>]]
    /\ report = [c \in Calls |-> "none"]
    /\ drops = 0
    /\ marks = [c \in Calls |-> {}]
    /\ overlap = FALSE
    /\ crashed = FALSE

-----------------------------------------------------------------------------
(* The pool, and what the loop threads do to the connections               *)

Executing == {c \in Calls : conn[c] # "none"}

\* upload, download: executeTask starts the task that was pushed last and gives
\* it the next session id; once MaxExecuting were started, tasks wait and none
\* of them is started again
Request(c) ==
    /\ conn[c] = "none" /\ \A d \in Calls : d < c => conn[d] # "none"
    /\ Cardinality(Executing) < MaxExecuting
    /\ conn' = [conn EXCEPT ![c] = "connecting"]
    /\ UNCHANGED <<way, total, telling, disk, links, open, tr, chan, report, drops,
                   marks, overlap, crashed>>

\* the connection of a call comes up: the client's connect callback is queued,
\* the server's has made a new object
Connected(c) ==
    /\ conn[c] \in {"connecting", "down"}
    /\ links[c] < MaxDrops + 1
    /\ conn' = [conn EXCEPT ![c] = "up"]
    /\ links' = [links EXCEPT ![c] = @ + 1]
    /\ open' = open \cup {<<c, links[c] + 1>>}
    /\ tr' = [tr EXCEPT ![c][links[c] + 1] = NoTransfer]
    /\ chan' = [chan EXCEPT ![c][Client] = Append(@, Status)]
    /\ UNCHANGED <<way, total, telling, disk, report, drops, marks, overlap, crashed>>

\* it does not: the client's connect callback is queued all the same
ConnectFailed(c) ==
    /\ conn[c] \in {"connecting", "down"}
    /\ drops < MaxDrops
    /\ drops' = drops + 1
    /\ conn' = [conn EXCEPT ![c] = "down"]
    /\ chan' = [chan EXCEPT ![c][Client] = Append(@, Status)]
    /\ UNCHANGED <<way, total, telling, disk, links, open, tr, report, marks, overlap, crashed>>

\* an end closes: what its loop thread had received stays queued, the rest is lost
Closes(c, e) ==
    \E n \in 0 .. Len(chan[c][e]) :
        /\ \A i \in n + 1 .. Len(chan[c][e]) : chan[c][e][i].t # "status"
        /\ chan' = [chan EXCEPT ![c][e] = SubSeq(@, 1, n)]

\* the two ends of the connection that is up
Current(c, k) == conn[c] = "up" /\ links[c] = k

\* the connection breaks (at the client's end, at the server's), or the loop
\* thread notices that the other end closed
Break(c) ==
    /\ conn[c] = "up"
    /\ IF <<c, links[c]>> \in open THEN drops < MaxDrops /\ drops' = drops + 1
       ELSE UNCHANGED drops
    /\ conn' = [conn EXCEPT ![c] = "down"]
    /\ Closes(c, Client)
    /\ UNCHANGED <<way, total, telling, disk, links, open, tr, report, marks, overlap, crashed>>
BreakAtServer(c, k) ==
    /\ <<c, k>> \in open
    /\ IF Current(c, k) THEN drops < MaxDrops /\ drops' = drops + 1
       ELSE UNCHANGED drops
    /\ open' = open \ {<<c, k>>}
    /\ Closes(c, k)
    /\ UNCHANGED <<way, total, telling, disk, conn, links, tr, report, marks, overlap, crashed>>

\* the server's disconnect callback erases its object, whose file stays open;
\* the client's leaves its transfer as it is
Erase(c, k) ==
    /\ <<c, k>> \notin open /\ chan[c][k] = <<>> /\ tr[c][k] # Unmade
    /\ tr' = [tr EXCEPT ![c][k] = Unmade]
    /\ \E lost \in Unflushed({<<c, k>>} \cap (Calls \X Receivers)) :
            disk' = SubSeq(disk, 1, Len(disk) - lost)
    /\ UNCHANGED <<way, total, telling, conn, links, open, chan, report, drops, marks,
                   overlap, crashed>>

-----------------------------------------------------------------------------
(* What the applications handle: one action per message                    *)

Receives(c, e, t) == chan[c][e] # <<>> /\ Head(chan[c][e]).t = t
Got(c, e) == Head(chan[c][e])

\* where a message of an end goes: the client sends by session id, over the
\* connection that is up when it sends
Reached(c, e) ==
    IF e = Client THEN {k \in Links : Current(c, k) /\ <<c, k>> \in open}
    ELSE IF Current(c, e) /\ <<c, e>> \in open THEN {Client} ELSE {}

\* what the client handles came before the connection over which it sends
Outdated(c, e) ==
    /\ e = Client /\ conn[c] = "up"
    /\ \E i \in 2 .. Len(chan[c][e]) : chan[c][e][i].t = "status"

\* the message is consumed and `reply' is sent; `why' is added to the marks
Reply(c, e, reply, why) ==
    /\ chan' = [chan EXCEPT ![c] = [x \in Ends |->
            IF x = e THEN Tail(@[x]) ELSE IF x \in Reached(c, e) THEN @[x] \o reply ELSE @[x]]]
    /\ marks' = [marks EXCEPT ![c] =
            @ \cup why \cup (IF reply # <<>> /\ Outdated(c, e) THEN {"late"} ELSE {})]

Fixed == UNCHANGED <<way, total, telling, conn, links, open, drops, crashed>>

\* postFile: nothing is sent and the duty stays when the file cannot be opened
PostFile(c, e, unable, why) ==
    \/ /\ Reply(c, e, <<Post>>, why)
       /\ tr' = [tr EXCEPT ![c][e] = WithDuty(@, "Send")]
    \/ /\ Reply(c, e, <<>>, why \cup {"refused"})
       /\ tr' = [tr EXCEPT ![c][e] = unable]

\* (a faulty variant: only the first connection announces the file)
AnnouncesOnce(t) == t.duty = "NULL"
\* a new transfer announces the file or asks for it; online(true) does so again
\* for one that has a duty
Announces(t) == t.duty # "None"

\* the client's connect callback
OnConnect(c) ==
    /\ Receives(c, Client, "status")
    /\ LET me == tr[c][Client]
           made == IF me.duty = "NULL" THEN NoTransfer ELSE me
           why == IF me.task # NoTask THEN {"cut"} ELSE {}
       IN IF ~Announces(me)
          THEN Reply(c, Client, <<>>, why) /\ UNCHANGED tr
          ELSE IF way = "upload"
          THEN PostFile(c, Client, made, why)
          ELSE /\ Reply(c, Client, <<Download>>, why)
               /\ tr' = [tr EXCEPT ![c][Client] = WithDuty(made, "Recv")]
    /\ UNCHANGED <<disk, report, overlap>> /\ Fixed

\* FST_NET_DOWNLOAD
OnDownload(c, e) ==
    /\ Receives(c, e, "download")
    /\ PostFile(c, e, tr[c][e], {})
    /\ UNCHANGED <<disk, report, overlap>> /\ Fixed

\* on_PostFile: a larger file is removed; fopen "wb+" leaves an empty one, or
\* fails, and is answered with FST_E_OPEN_FAIL
Refuses(c, e) == tr[c][e].duty = "Send" \/ tr[c][e].task # NoTask
OnPostFile(c, e) ==
    /\ Receives(c, e, "post")
    /\ LET size == Got(c, e).at
           me == IF tr[c][e].duty = "None" THEN WithDuty(tr[c][e], "Recv") ELSE tr[c][e]
           Opens(begin) ==
               /\ Reply(c, e, <<Result("ok", begin)>>, {})
               /\ tr' = [tr EXCEPT ![c][e] = WithTask(me, begin)]
               /\ disk' = <<>>
               /\ overlap' = (overlap \/ \E x \in (Calls \X Receivers) \ {<<c, e>>} :
                                             tr[x[1]][x[2]].task # NoTask)
           Fails(begin, removes) ==
               /\ Reply(c, e, <<Result("openfail", begin)>>, {"refused"})
               /\ tr' = [tr EXCEPT ![c][e] = me]
               /\ disk' \in {disk} \cup removes
               /\ UNCHANGED overlap
       IN \/ /\ Refuses(c, e)
             /\ Reply(c, e, <<>>, {})
             /\ UNCHANGED <<disk, tr, overlap>>
          \/ /\ ~Refuses(c, e) /\ size \in SizesSeen
             /\ Reply(c, e, <<Result("exists", size)>>, {})
             /\ tr' = [tr EXCEPT ![c][e] = me]
             /\ UNCHANGED <<disk, overlap>>
          \/ /\ ~Refuses(c, e)
             /\ \E have \in SizesSeen :
                    \/ size > have /\ (Opens(have) \/ Fails(have, {}))
                    \/ size < have /\ (Opens(0) \/ Fails(0, {<<>>}))
    /\ UNCHANGED report /\ Fixed

\* sendFileData(begin): the next slice, or the check and the end of the task
SendFileData(c, e, begin) ==
    /\ Reply(c, e, IF begin < total THEN <<Slice(begin)>> ELSE <<Check>>, {})
    /\ tr' = [tr EXCEPT ![c][e] = Sending(IF begin < total THEN begin ELSE NoTask)]

\* on_PostFileResult: the sender's fopen may fail, and nothing is sent then
OnPostFileResult(c, e) ==
    /\ Receives(c, e, "result")
    /\ LET ignored == tr[c][e].duty = "Recv" \/ tr[c][e].task # NoTask
           code == Got(c, e).code
       IN \/ /\ ignored
             /\ Reply(c, e, <<>>, {}) /\ UNCHANGED <<tr, report>>
          \/ /\ ~ignored /\ code = "ok"
             /\ SendFileData(c, e, Got(c, e).at) /\ UNCHANGED report
          \/ /\ ~ignored
             /\ Reply(c, e, <<>>, IF code = "ok" THEN {"refused"} ELSE {})
             /\ tr' = [tr EXCEPT ![c][e] = Sending(NoTask)]
             /\ report' = IF code = "exists" THEN [report EXCEPT ![c] = "exists"] ELSE report
    /\ UNCHANGED <<disk, overlap>> /\ Fixed

\* input() gives a message about slices to an object without a task
HasTask(c, e) == tr[c][e].task # NoTask
Crash(c, e) ==
    /\ \E t \in {"slice", "ack", "check"} : Receives(c, e, t)
    /\ ~HasTask(c, e)
    /\ crashed' = TRUE
    /\ UNCHANGED <<way, total, telling, disk, conn, links, open, tr, chan, report, drops,
                   marks, overlap>>

\* (a faulty variant: the task ends with the last slice)
OnSlicesEnding(c, e) ==
    /\ Receives(c, e, "slice") /\ HasTask(c, e)
    /\ LET at == Got(c, e).at + 1
       IN /\ disk' = WriteSlice(disk, at)
          /\ tr' = [tr EXCEPT ![c][e] = WithTask(@, IF at = total THEN NoTask ELSE at)]
          /\ Reply(c, e, <<Ack(at)>>, {})
    /\ UNCHANGED <<report, overlap>> /\ Fixed
\* recvFileData
OnSlices(c, e) ==
    /\ Receives(c, e, "slice") /\ HasTask(c, e)
    /\ LET at == Got(c, e).at + 1
       IN /\ disk' = WriteSlice(disk, at)
          /\ tr' = [tr EXCEPT ![c][e] = WithTask(@, at)]
          /\ Reply(c, e, <<Ack(at)>>, {})
    /\ UNCHANGED <<report, overlap>> /\ Fixed

OnSlicesResult(c, e) ==
    /\ Receives(c, e, "ack") /\ HasTask(c, e)
    /\ SendFileData(c, e, Got(c, e).at)
    /\ UNCHANGED <<disk, report, overlap>> /\ Fixed

\* (a faulty variant: the sizes are all that is compared)
SizesAgree == Len(disk) = total
\* on_Check: the sizes, and the hashes of what is read at both ends; zeros in a
\* hole are taken for the content where that is zeros too
CheckPasses ==
    /\ Len(disk) = total
    /\ \A i \in telling : disk[i] = i
OnCheck(c, e) ==
    /\ Receives(c, e, "check") /\ HasTask(c, e)
    /\ report' = [report EXCEPT ![c] = IF CheckPasses THEN "suc" ELSE "fail"]
    /\ tr' = [tr EXCEPT ![c][e] = WithTask(@, NoTask)]
    /\ Reply(c, e, <<>>, {})
    /\ UNCHANGED <<disk, overlap>> /\ Fixed

Input(c, e) ==
    \/ OnDownload(c, e) \/ OnPostFile(c, e) \/ OnPostFileResult(c, e)
    \/ OnSlices(c, e) \/ OnSlicesResult(c, e) \/ OnCheck(c, e) \/ Crash(c, e)

-----------------------------------------------------------------------------
\* the client's updateFrame, and the server's
ClientFrame == \E c \in Calls : OnConnect(c) \/ Input(c, Client)
ServerFrame == \E c \in Calls, k \in Links : Input(c, k) \/ Erase(c, k)

Next ==
    /\ ~crashed
    /\ \/ ClientFrame \/ ServerFrame
       \/ \E c \in Calls :
            \/ Request(c) \/ Connected(c) \/ ConnectFailed(c) \/ Break(c)
            \/ \E k \in Links : BreakAtServer(c, k)

Spec == Init /\ [][Next]_vars

\* Something goes on as long as an updateFrame loop has a message, the client's
\* reconnect timer can connect, or its heartbeat can notice that the server
\* closed: less than what is fair to each of them.
NoticesClose(c) == <<c, links[c]>> \notin open /\ Break(c)
GoesOn ==
    /\ ~crashed
    /\ ClientFrame \/ ServerFrame \/ \E c \in Calls : Connected(c) \/ NoticesClose(c)
FairSpec == Spec /\ WF_vars(GoesOn)

-----------------------------------------------------------------------------
(* Properties                                                              *)

\* A message about slices finds the task whose file it is about (input
\* dereferences m_task without a look: FSTransfer.cpp:395, 428, 500), unless
\* the client's application was so late that it answered over a connection
\* that came up meanwhile; every message finds an object, and a sender is never
\* asked for what is behind the end of its file (the assertion at
\* FSTransfer.cpp:431), late or not.
TaskForMessage ==
    \A c \in Calls, e \in Ends : \A i \in DOMAIN chan[c][e] :
        LET m == chan[c][e][i] IN
        /\ m.t \in {"slice", "ack", "check"} => HasTask(c, e) \/ "late" \in marks[c]
        /\ m.t \in {"ack", "result"} => m.at <= total
        /\ m.t # "status" => tr[c][e].duty # "NULL"

\* "check suc" is printed for a file that is the sender's in every slice,
\* unless the receiver had it open twice at a time, or the client was late, or
\* the file begins with zeros: a transfer that goes on leaves a hole at the
\* start, and of that the check reads 1024 bytes (FSTransfer.cpp:391-424).
SuccessIntact ==
    [][\A c \in Calls : report'[c] = "suc" /\ report[c] # "suc"
            => Intact' \/ overlap \/ "late" \in marks[c] \/ (total > 0 /\ 1 \notin telling)]_vars

\* Every transfer that was started comes to an end - a check, or the word that
\* the file is there - unless a file could not be opened at one of the ends
\* (FSTransfer.cpp:151, 316, 358: nobody is told, or the sender is and drops
\* it, 386), or the client had a task when its connection came up anew: it then
\* ignores the answer to its new announcement (FSTransfer.cpp:288, 348;
\* FSTransferPool.cpp:197), or a message without its task ended the program.
FinishesUnlessCut ==
    <>[](crashed \/ \A c \in Executing :
                        report[c] # "none" \/ marks[c] \cap {"cut", "refused"} # {})
=============================================================================
