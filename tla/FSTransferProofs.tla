--------------------------- MODULE FSTransferProofs ---------------------------
(***************************************************************************)
(* The safety of FSTransfer, for every number of calls, every size of the  *)
(* file, every file the receiver had and every bound: TransferInv is       *)
(* inductive.                                                              *)
(*                                                                         *)
(* As long as the client of a call was never late, there is one message at *)
(* a time on its connection, since each is answered by at most one; what   *)
(* is left of an earlier connection is at the head of the client's queue,  *)
(* before the connect callbacks.  What a message is says which objects     *)
(* have a task, and how far: the one it is for, whatever became of its     *)
(* connection, and the one it came from as long as that is up.  While only *)
(* one receiver ever had the file open, its disk is what that receiver's   *)
(* task says, a hole at the start and then the slices of the file.         *)
(***************************************************************************)
EXTENDS FSTransfer, TLAPS

Duties == {"NULL", "None", "Send", "Recv"}
Reports == {"none", "exists", "suc", "fail"}
Kinds == {"status", "post", "result", "slice", "ack", "download", "check"}
Message == [t : Kinds, at : Int, code : {"ok", "exists", "openfail"}]
Transfer == [duty : Duties, task : Int]

(* The types of the variables that the properties are about *)
TypeOK ==
    /\ way \in {"upload", "download"}
    /\ total \in Nat
    /\ telling \subseteq 1 .. total
    /\ disk \in Seq(Int)
    /\ conn \in [Calls -> {"none", "connecting", "up", "down"}]
    /\ links \in [Calls -> 0 .. MaxDrops + 1]
    /\ open \subseteq Calls \X Links
    /\ tr \in [Calls -> [Ends -> Transfer]]
    /\ chan \in [Calls -> [Ends -> Seq(Message)]]
    /\ report \in [Calls -> Reports]
    /\ marks \in [Calls -> SUBSET {"late", "cut", "refused"}]
    /\ overlap \in BOOLEAN

Senders == IF way = "upload" THEN {Client} ELSE Links
Late(c) == "late" \in marks[c]
Live(c, e) == tr[c][e].task # NoTask

(* What holds of a message for end e whatever became of its connection     *)
MessageInv(e, m) ==
    /\ m.t = "status" => e = Client
    /\ m.t = "download" => e # Client /\ way = "download"
    /\ m.t \in {"post", "slice", "check"} => e \in Receivers
    /\ m.t \in {"result", "ack"} => e \in Senders /\ m.at \in 0 .. total
    /\ m.t \in {"post", "check"} => m.at = total
    /\ m.t = "slice" => m.at \in 0 .. total - 1

(* The file and the objects of an end that gets m: what its task says      *)
OwnTask(m, t) ==
    /\ m.t \in {"slice", "check"} => t.task = m.at
    /\ m.t = "ack" => t.task # NoTask

(* What the other object's task says, while the connection is up           *)
PeerTask(m, t) ==
    /\ m.t = "slice" => t.task # NoTask
    /\ m.t = "ack" \/ (m.t = "result" /\ m.code = "ok") => t.task = m.at

(* Of every call, late or not *)
SideInv(c) ==
    /\ \A e \in Ends : \A i \in DOMAIN chan[c][e] : MessageInv(e, chan[c][e][i])
    /\ \A k \in Links : <<c, k>> \in open => k <= links[c]
    /\ \A k \in Links : k > links[c] => chan[c][k] = <<>> /\ tr[c][k].task = NoTask
    /\ \A k \in Links : chan[c][k] # <<>> \/ <<c, k>> \in open => tr[c][k].duty # "NULL"
    /\ tr[c][Client].duty = "NULL" =>
            /\ \A k \in Links : chan[c][k] = <<>>
            /\ \A i \in DOMAIN chan[c][Client] : chan[c][Client][i].t = "status"
    /\ \A e \in Ends : tr[c][e].task \in -1 .. total

(* Of a call whose client was never late *)
QueueInv(c) ==
    /\ \A k \in Links : Len(chan[c][k]) <= 1
    /\ \A i \in DOMAIN chan[c][Client] : i > 1 => chan[c][Client][i].t = "status"
    /\ \A k \in Links : Current(c, k) /\ chan[c][k] # <<>> => chan[c][Client] = <<>>
    /\ \A e \in Ends : chan[c][e] # <<>> => OwnTask(Head(chan[c][e]), tr[c][e])
    /\ \A k \in Links : Current(c, k) /\ <<c, k>> \in open =>
            /\ chan[c][k] # <<>> => PeerTask(Head(chan[c][k]), tr[c][Client])
            /\ Len(chan[c][Client]) = 1 => PeerTask(Head(chan[c][Client]), tr[c][k])

(* The disk when the slices from b on, up to k, were written to it: the    *)
(* receiver had b slices, and its file was truncated all the same.         *)
Written(file, k) ==
    \E b \in 0 .. k :
        IF b = k THEN file = <<>>
        ELSE /\ Len(file) = k
             /\ \A i \in 1 .. k : file[i] = IF i <= b THEN Hole ELSE i

(* No two receivers have the file open, and the one that has wrote it *)
DiskInv ==
    ~overlap =>
        /\ \A x, y \in Calls \X Receivers : Live(x[1], x[2]) /\ Live(y[1], y[2]) => x = y
        /\ \A c \in Calls, e \in Receivers :
                Live(c, e) /\ ~Late(c) => Written(disk, tr[c][e].task)

TransferInv ==
    /\ TypeOK
    /\ \A c \in Calls : SideInv(c)
    /\ \A c \in Calls : ~Late(c) => QueueInv(c)
    /\ DiskInv

-----------------------------------------------------------------------------
(* Queues                                                                  *)

LEMMA OneMessage ==
    ASSUME NEW a \in Message
    PROVE  <<a>> \in Seq(Message) /\ <<a>> # <<>> /\ Len(<<a>>) = 1 /\ <<a>>[1] = a
OBVIOUS

LEMMA NonEmpty ==
    ASSUME NEW q \in Seq(Message), q # <<>>
    PROVE  /\ Len(q) \in Nat \ {0} /\ 1 \in DOMAIN q /\ Head(q) = q[1] /\ Head(q) \in Message
           /\ DOMAIN q = 1 .. Len(q)
OBVIOUS

LEMMA Emptiness == \A q \in Seq(Message) : (q = <<>>) <=> (Len(q) = 0)
OBVIOUS

LEMMA AtMostOne == \A q : Len(q) = 0 \/ Len(q) = 1 => Len(q) <= 1
OBVIOUS

LEMMA OfOne == \A q \in Seq(Message) : Len(q) = 1 => q # <<>>
OBVIOUS

LEMMA HeadConsumed ==
    ASSUME NEW q \in Seq(Message), q # <<>>
    PROVE  /\ Tail(q) \in Seq(Message) /\ Len(Tail(q)) = Len(q) - 1
           /\ \A i \in DOMAIN Tail(q) : i + 1 \in DOMAIN q /\ Tail(q)[i] = q[i + 1]
OBVIOUS

LEMMA JoinGives ==
    ASSUME NEW q \in Seq(Message), NEW a \in Message
    PROVE  /\ q \o <<>> = q
           /\ q \o <<a>> \in Seq(Message) /\ Len(q \o <<a>>) = Len(q) + 1
           /\ \A i \in DOMAIN (q \o <<a>>) :
                 (q \o <<a>>)[i] = IF i <= Len(q) THEN q[i] ELSE a
OBVIOUS

LEMMA AppendGives ==
    ASSUME NEW q \in Seq(Message), NEW a \in Message
    PROVE  /\ Append(q, a) \in Seq(Message) /\ Len(Append(q, a)) = Len(q) + 1
           /\ \A i \in DOMAIN Append(q, a) :
                 Append(q, a)[i] = IF i <= Len(q) THEN q[i] ELSE a
OBVIOUS

LEMMA PrefixGives ==
    ASSUME NEW q \in Seq(Message), NEW n \in 0 .. Len(q)
    PROVE  /\ SubSeq(q, 1, n) \in Seq(Message) /\ Len(SubSeq(q, 1, n)) = n
           /\ \A i \in DOMAIN SubSeq(q, 1, n) : i \in DOMAIN q /\ SubSeq(q, 1, n)[i] = q[i]
OBVIOUS

-----------------------------------------------------------------------------
(* What is received, and answered                                          *)

LEMMA EndTypes == Client \in Ends /\ Links \subseteq Ends /\ Client \notin Links /\ Links \subseteq Int
                  /\ \A e \in Ends : e = Client \/ e \in Links
BY TransferAssumption DEF Client, Ends, Links

LEMMA SendersReceivers ==
    ASSUME TypeOK
    PROVE  /\ Senders \subseteq Ends /\ Receivers \subseteq Ends /\ Senders \cap Receivers = {}
           /\ way = "upload" => Senders = {Client} /\ Receivers = Links
           /\ way = "download" => Senders = Links /\ Receivers = {Client}
BY EndTypes DEF TypeOK, Senders, Receivers

\* An answer goes to the other side, over the connection that is up.
LEMMA Reaching ==
    ASSUME TypeOK, NEW c \in Calls, NEW e \in Ends, NEW f \in Reached(c, e)
    PROVE  /\ f \in Ends /\ f # e
           /\ e = Client => f \in Links /\ Current(c, f) /\ <<c, f>> \in open
           /\ e # Client => f = Client /\ Current(c, e) /\ <<c, e>> \in open
           /\ e \in Senders => f \in Receivers
           /\ e \in Receivers => f \in Senders
BY EndTypes, SendersReceivers DEF Reached, TypeOK

\* While the client is not late, what is handled is the last message between
\* the two ends.
LEMMA LastMessage ==
    ASSUME TypeOK, NEW c \in Calls, QueueInv(c), NEW e \in Ends, chan[c][e] # <<>>,
           ~Outdated(c, e), NEW f \in Reached(c, e)
    PROVE  Len(chan[c][e]) = 1 /\ chan[c][f] = <<>>
<1>1. PICK n \in Nat \ {0} : n = Len(chan[c][e]) /\ DOMAIN chan[c][e] = 1 .. n
  <2>1. chan[c][e] \in Seq(Message)
    BY DEF TypeOK
  <2> QED BY <2>1, NonEmpty
<1>2. CASE e = Client
  <2>1. f \in Links /\ Current(c, f)
    BY <1>2, Reaching
  <2>2. chan[c][f] = <<>>
    BY <1>2, <2>1 DEF QueueInv
  <2>3. ASSUME n # 1 PROVE FALSE
    <3>1. 2 \in 1 .. n /\ 2 \in 2 .. n
      BY <2>3
    <3>2. chan[c][e][2].t = "status"
      BY <1>1, <1>2, <3>1 DEF QueueInv
    <3>3. conn[c] = "up"
      BY <2>1 DEF Current
    <3>4. Outdated(c, e)
      BY <1>1, <1>2, <3>1, <3>2, <3>3 DEF Outdated
    <3> QED BY <3>4
  <2> QED BY <1>1, <2>2, <2>3
<1>3. CASE e # Client
  <2>1. f = Client /\ e \in Links /\ Current(c, e)
    BY <1>3, Reaching, EndTypes
  <2>2. Len(chan[c][e]) <= 1
    BY <2>1 DEF QueueInv
  <2>3. n = 1
    <3>1. n <= 1
      BY <1>1, <2>2
    <3> QED BY <3>1
  <2>4. chan[c][f] = <<>>
    BY <2>1 DEF QueueInv
  <2> QED BY <1>1, <2>3, <2>4
<1> QED BY <1>2, <1>3

LEMMA TheMessage ==
    ASSUME TransferInv, NEW c \in Calls, NEW e \in Ends, NEW kind, Receives(c, e, kind)
    PROVE  /\ chan[c][e] # <<>> /\ Got(c, e) \in Message /\ Got(c, e).t = kind
           /\ MessageInv(e, Got(c, e))
           /\ ~Late(c) => OwnTask(Got(c, e), tr[c][e])
           /\ ~Late(c) /\ ~Outdated(c, e)
                => \A f \in Reached(c, e) : PeerTask(Got(c, e), tr[c][f])
<1>0. TypeOK /\ SideInv(c)
  BY DEF TransferInv
<1>1. chan[c][e] \in Seq(Message) /\ chan[c][e] # <<>> /\ Got(c, e).t = kind
  BY <1>0 DEF TypeOK, Receives, Got
<1>2. /\ 1 \in DOMAIN chan[c][e] /\ Got(c, e) = chan[c][e][1] /\ Got(c, e) \in Message
      /\ Len(chan[c][e]) \in Nat \ {0} /\ DOMAIN chan[c][e] = 1 .. Len(chan[c][e])
  BY <1>1, NonEmpty DEF Got
<1>3. MessageInv(e, Got(c, e))
  BY <1>0, <1>2 DEF SideInv
<1>4. ASSUME ~Late(c) PROVE OwnTask(Got(c, e), tr[c][e])
  BY <1>1, <1>4 DEF TransferInv, QueueInv, Got
<1>5. ASSUME ~Late(c), ~Outdated(c, e), NEW f \in Reached(c, e)
      PROVE  PeerTask(Got(c, e), tr[c][f])
  <2>0. QueueInv(c)
    BY <1>5 DEF TransferInv
  <2>1. CASE e = Client
    <3>1. f \in Links /\ Current(c, f) /\ <<c, f>> \in open /\ Len(chan[c][e]) = 1
      BY <1>0, <1>1, <1>5, <2>0, <2>1, Reaching, LastMessage
    <3> QED BY <2>0, <2>1, <3>1 DEF QueueInv, Got
  <2>2. CASE e # Client
    <3>1. f = Client /\ Current(c, e) /\ <<c, e>> \in open /\ e \in Links
      BY <1>0, <1>5, <2>2, Reaching, EndTypes
    <3> QED BY <2>0, <3>1, <1>1 DEF QueueInv, Got
  <2> QED BY <2>1, <2>2
<1> QED BY <1>1, <1>2, <1>3, <1>4, <1>5

\* A message is consumed, and answered by at most one.
Answer(reply) == reply = <<>> \/ \E a \in Message : reply = <<a>>

LEMMA ReplyGives ==
    ASSUME TypeOK, NEW c \in Calls, NEW e \in Ends, chan[c][e] # <<>>,
           NEW reply, Answer(reply), NEW why \in SUBSET {"late", "cut", "refused"},
           Reply(c, e, reply, why)
    PROVE  /\ chan' \in [Calls -> [Ends -> Seq(Message)]]
           /\ \A d \in Calls \ {c} : chan'[d] = chan[d]
           /\ chan'[c][e] = Tail(chan[c][e])
           /\ \A x \in Ends \ {e} : chan'[c][x] =
                 IF x \in Reached(c, e) THEN chan[c][x] \o reply ELSE chan[c][x]
           /\ marks' \in [Calls -> SUBSET {"late", "cut", "refused"}]
           /\ \A d \in Calls : Late(d) => Late(d)'
           /\ \A d \in Calls \ {c} : marks'[d] = marks[d]
           /\ reply # <<>> /\ Outdated(c, e) => Late(c)'
<1> DEFINE F == [x \in Ends |-> IF x = e THEN Tail(chan[c][x])
                   ELSE IF x \in Reached(c, e) THEN chan[c][x] \o reply ELSE chan[c][x]]
           M == marks[c] \cup why \cup (IF reply # <<>> /\ Outdated(c, e) THEN {"late"} ELSE {})
<1>1. \A x \in Ends : chan[c][x] \in Seq(Message)
  BY DEF TypeOK
<1>2. ASSUME NEW x \in Ends PROVE chan[c][x] \o reply \in Seq(Message)
  <2>1. PICK q \in Seq(Message) : q = chan[c][x]
    BY <1>1
  <2>2. CASE reply = <<>>
    <3>1. q \o <<>> = q
      OBVIOUS
    <3> QED BY <2>1, <2>2, <3>1
  <2>3. CASE \E a \in Message : reply = <<a>>
    <3>1. PICK a \in Message : reply = <<a>>
      BY <2>3
    <3>2. q \o <<a>> \in Seq(Message)
      OBVIOUS
    <3> QED BY <2>1, <3>1, <3>2
  <2> QED BY <2>2, <2>3 DEF Answer
<1>3. Tail(chan[c][e]) \in Seq(Message)
  BY <1>1, HeadConsumed
<1>4. F \in [Ends -> Seq(Message)]
  BY <1>1, <1>2, <1>3
<1>5. M \in SUBSET {"late", "cut", "refused"}
  BY DEF TypeOK
<1>6. chan' = [chan EXCEPT ![c] = F] /\ marks' = [marks EXCEPT ![c] = M]
  BY DEF Reply
<1>7. /\ F[e] = Tail(chan[c][e])
      /\ \A x \in Ends \ {e} : F[x] =
            IF x \in Reached(c, e) THEN chan[c][x] \o reply ELSE chan[c][x]
  <2>1. F[e] = Tail(chan[c][e])
    OBVIOUS
  <2>2. ASSUME NEW x \in Ends \ {e}
        PROVE  F[x] = IF x \in Reached(c, e) THEN chan[c][x] \o reply ELSE chan[c][x]
    OBVIOUS
  <2> QED BY <2>1, <2>2
<1>8. /\ \A k \in marks[c] : k \in M
      /\ reply # <<>> /\ Outdated(c, e) => "late" \in M
  OBVIOUS
<1> HIDE DEF F, M
<1>9. chan' \in [Calls -> [Ends -> Seq(Message)]] /\ chan'[c] = F
      /\ \A d \in Calls \ {c} : chan'[d] = chan[d]
  BY <1>4, <1>6 DEF TypeOK
<1>10. marks' \in [Calls -> SUBSET {"late", "cut", "refused"}] /\ marks'[c] = M
      /\ \A d \in Calls \ {c} : marks'[d] = marks[d]
  BY <1>5, <1>6 DEF TypeOK
<1>11. \A d \in Calls : Late(d) => Late(d)'
  BY <1>8, <1>10 DEF Late
<1>12. reply # <<>> /\ Outdated(c, e) => Late(c)'
  BY <1>8, <1>10 DEF Late
<1> QED BY <1>7, <1>9, <1>10, <1>11, <1>12

-----------------------------------------------------------------------------
(* What a step leaves alone                                                *)

Undisturbed(d) ==
    /\ conn'[d] = conn[d] /\ links'[d] = links[d] /\ tr'[d] = tr[d] /\ chan'[d] = chan[d]
    /\ \A k \in Links : <<d, k>> \in open' <=> <<d, k>> \in open

LEMMA OtherCallKeeps ==
    ASSUME NEW d \in Calls, UNCHANGED <<way, total>>, Undisturbed(d)
    PROVE  (SideInv(d) => SideInv(d)') /\ (QueueInv(d) => QueueInv(d)')
<1>1. /\ \A e \in Ends : \A m : MessageInv(e, m)' <=> MessageInv(e, m)
      /\ \A k \in Links : Current(d, k)' <=> Current(d, k)
  BY DEF MessageInv, Senders, Receivers, Undisturbed, Current
<1>2. SideInv(d) => SideInv(d)'
  BY <1>1 DEF SideInv, Undisturbed
<1>3. QueueInv(d) => QueueInv(d)'
  BY <1>1 DEF QueueInv, Undisturbed
<1> QED BY <1>2, <1>3

LEMMA StepKeeps ==
    ASSUME TransferInv, TypeOK', NEW c \in Calls, UNCHANGED <<way, total>>,
           \A d \in Calls \ {c} : Undisturbed(d), \A d \in Calls : Late(d) => Late(d)',
           SideInv(c)', ~Late(c)' => QueueInv(c)', DiskInv'
    PROVE  TransferInv'
<1>1. \A d \in Calls : SideInv(d)'
  BY OtherCallKeeps DEF TransferInv
<1>2. \A d \in Calls : ~Late(d)' => QueueInv(d)'
  BY OtherCallKeeps DEF TransferInv
<1> QED BY <1>1, <1>2 DEF TransferInv

\* A step that writes nothing leaves the disk what it is, if no receiver
\* starts.
LEMMA DiskKeeps ==
    ASSUME TransferInv, UNCHANGED <<way, disk, overlap>>, \A d \in Calls : Late(d) => Late(d)',
           \A d \in Calls, e \in Receivers : tr'[d][e].task \in {tr[d][e].task, NoTask}
    PROVE  DiskInv'
<1> SUFFICES ASSUME ~overlap' PROVE DiskInv'
  BY DEF DiskInv
<1>1. Receivers' = Receivers /\ ~overlap /\ DiskInv
  BY DEF Receivers, TransferInv
<1>2. \A d \in Calls, e \in Receivers :
         Live(d, e)' => Live(d, e) /\ tr'[d][e].task = tr[d][e].task
  BY DEF Live
<1>3. ASSUME NEW x \in Calls \X Receivers, NEW y \in Calls \X Receivers,
             Live(x[1], x[2])', Live(y[1], y[2])'
      PROVE  x = y
  BY <1>1, <1>2, <1>3 DEF DiskInv
<1>4. ASSUME NEW d \in Calls, NEW e \in Receivers, Live(d, e)', ~Late(d)'
      PROVE  Written(disk, tr[d][e].task)' 
  <2>1. Written(disk, tr[d][e].task) /\ tr'[d][e].task = tr[d][e].task
    BY <1>1, <1>2, <1>4 DEF DiskInv
  <2> QED BY <2>1 DEF Written
<1> QED BY <1>1, <1>3, <1>4 DEF DiskInv

-----------------------------------------------------------------------------
(* A message that is handled                                               *)

\* A step of an end that took its message, and answered with what fits the
\* tasks at both ends, as far as the client was not late, keeps the call's part
\* of the invariant.
LEMMA SideKeeps ==
    ASSUME TransferInv, Fixed, NEW c \in Calls, NEW e \in Ends, chan[c][e] # <<>>,
           NEW t \in Transfer, t.duty # "NULL", t.task \in -1 .. total,
           tr' = [tr EXCEPT ![c][e] = t], NEW reply, Answer(reply),
           chan' \in [Calls -> [Ends -> Seq(Message)]],
           chan'[c][e] = Tail(chan[c][e]),
           \A x \in Ends \ {e} : chan'[c][x] =
                IF x \in Reached(c, e) THEN chan[c][x] \o reply ELSE chan[c][x],
           \A f \in Reached(c, e), a \in Message : reply = <<a>> =>
                a.t # "status" /\ MessageInv(f, a)
    PROVE  SideInv(c)'
<1>0. TypeOK /\ SideInv(c) /\ links' = links /\ open' = open /\ total' = total
  BY DEF TransferInv, Fixed
<1>1. /\ tr'[c][e] = t /\ \A x \in Ends \ {e} : tr'[c][x] = tr[c][x]
  BY <1>0 DEF TypeOK
<1>2. /\ \A x \in Ends : chan[c][x] \in Seq(Message) /\ chan'[c][x] \in Seq(Message)
      /\ Client \in Ends /\ Links \subseteq Ends
  BY <1>0, EndTypes DEF TypeOK
<1>3. ASSUME NEW x \in Ends, NEW i \in DOMAIN chan'[c][x] PROVE MessageInv(x, chan'[c][x][i])
  <2>1. CASE x = e
    <3>1. i + 1 \in DOMAIN chan[c][e] /\ chan'[c][x][i] = chan[c][e][i + 1]
      <4>1. PICK q \in Seq(Message) : q = chan[c][e] /\ q # <<>> /\ chan'[c][x] = Tail(q)
        BY <1>2, <2>1
      <4>2. i + 1 \in DOMAIN q /\ Tail(q)[i] = q[i + 1]
        BY <1>3, <4>1, HeadConsumed
      <4> QED BY <4>1, <4>2
    <3> QED BY <1>0, <2>1, <3>1 DEF SideInv
  <2>2. CASE x # e /\ (x \notin Reached(c, e) \/ reply = <<>>)
    <3>1. chan'[c][x] = chan[c][x]
      <4>1. PICK q \in Seq(Message) : q = chan[c][x]
        BY <1>2
      <4>2. q \o <<>> = q
        OBVIOUS
      <4>3. x \notin Reached(c, e) => chan'[c][x] = chan[c][x]
        BY <2>2
      <4>4. x \in Reached(c, e) => chan'[c][x] = q \o <<>>
        BY <2>2, <4>1
      <4> QED BY <4>1, <4>2, <4>3, <4>4
    <3> QED BY <1>0, <1>3, <3>1 DEF SideInv
  <2>3. CASE x # e /\ x \in Reached(c, e) /\ reply # <<>>
    <3>1. PICK a \in Message : reply = <<a>>
      BY <2>3 DEF Answer
    <3>2. PICK q \in Seq(Message) : q = chan[c][x] /\ chan'[c][x] = q \o <<a>>
      BY <1>2, <2>3, <3>1
    <3>3. chan'[c][x][i] = IF i <= Len(q) THEN q[i] ELSE a
      BY <1>3, <3>2, JoinGives
    <3>4. CASE i <= Len(q)
      <4>1. i \in DOMAIN q
        BY <1>2, <1>3, <3>4
      <4> QED BY <1>0, <3>2, <3>3, <3>4, <4>1 DEF SideInv
    <3>5. CASE ~(i <= Len(q))
      BY <2>3, <3>1, <3>3, <3>5
    <3> QED BY <3>4, <3>5
  <2> QED BY <2>1, <2>2, <2>3
<1>4. ASSUME NEW x \in Ends \ {e}, chan'[c][x] # <<>>
      PROVE  chan[c][x] # <<>> \/ x \in Reached(c, e)
  BY <1>4
<1>5. \A k \in Links : k > links[c] => k # e /\ k \notin Reached(c, e)
  BY <1>0 DEF SideInv, Reached, Current, Client, Links
<1>6. \A k \in Links : k > links'[c] => chan'[c][k] = <<>> /\ tr'[c][k].task = NoTask
  BY <1>0, <1>1, <1>2, <1>4, <1>5 DEF SideInv
<1>7. \A k \in Links : chan'[c][k] # <<>> \/ <<c, k>> \in open' => tr'[c][k].duty # "NULL"
  <2>1. ASSUME NEW k \in Links, k # e, chan'[c][k] # <<>> \/ <<c, k>> \in open
        PROVE  tr'[c][k].duty # "NULL"
    <3>1. chan[c][k] # <<>> \/ <<c, k>> \in open
      BY <1>0, <1>2, <1>4, <2>1, Reaching, EndTypes
    <3> QED BY <1>0, <1>1, <1>2, <2>1, <3>1 DEF SideInv
  <2> QED BY <1>0, <1>1, <2>1
<1>8. tr'[c][Client].duty # "NULL"
  <2>1. CASE e = Client
    BY <1>1, <2>1
  <2>2. CASE e # Client
    <3>1. e \in Links /\ tr'[c][Client] = tr[c][Client]
      BY <1>1, <1>2, <2>2, EndTypes
    <3> QED BY <1>0, <3>1 DEF SideInv
  <2> QED BY <2>1, <2>2
<1>9. \A x \in Ends : tr'[c][x].task \in -1 .. total'
  BY <1>0, <1>1 DEF SideInv
<1>10. \A x \in Ends : \A i \in DOMAIN chan'[c][x] : MessageInv(x, chan[c][x][i])'
  BY <1>3 DEF MessageInv, Senders, Receivers, Fixed
<1>11. \A k \in Links : <<c, k>> \in open' => k <= links'[c]
  BY <1>0 DEF SideInv
<1> QED BY <1>6, <1>7, <1>8, <1>9, <1>10, <1>11 DEF SideInv

LEMMA QueueKeeps ==
    ASSUME TransferInv, Fixed, NEW c \in Calls, QueueInv(c), NEW e \in Ends, chan[c][e] # <<>>,
           NEW t \in Transfer, tr' = [tr EXCEPT ![c][e] = t], NEW reply, Answer(reply),
           chan' \in [Calls -> [Ends -> Seq(Message)]],
           chan'[c][e] = Tail(chan[c][e]),
           \A x \in Ends \ {e} : chan'[c][x] =
                IF x \in Reached(c, e) THEN chan[c][x] \o reply ELSE chan[c][x],
           reply # <<>> => ~Outdated(c, e),
           \A f \in Reached(c, e), a \in Message : reply = <<a>> =>
                OwnTask(a, tr[c][f]) /\ PeerTask(a, t)
    PROVE  QueueInv(c)'
<1>0. TypeOK /\ \A k \in Links : /\ Current(c, k)' <=> Current(c, k)
                                 /\ <<c, k>> \in open' <=> <<c, k>> \in open
  BY DEF TransferInv, Fixed, Current
<1>1. /\ tr'[c][e] = t /\ \A x \in Ends \ {e} : tr'[c][x] = tr[c][x]
  BY <1>0 DEF TypeOK
<1>2. /\ \A x \in Ends : chan[c][x] \in Seq(Message) /\ chan'[c][x] \in Seq(Message)
      /\ Client \in Ends /\ Links \subseteq Ends /\ Client \notin Links
  BY <1>0, EndTypes DEF TypeOK
<1>3. Len(chan'[c][e]) = Len(chan[c][e]) - 1 /\ Len(chan[c][e]) \in Nat \ {0}
  BY <1>2, HeadConsumed, NonEmpty
<1>4. \A i \in DOMAIN chan'[c][e] : i + 1 \in DOMAIN chan[c][e]
                                   /\ chan'[c][e][i] = chan[c][e][i + 1]
  BY <1>2, HeadConsumed
<1>7. e \in Links => Len(chan'[c][e]) = 0
  <2>1. PICK n \in Nat \ {0} : n = Len(chan[c][e])
    BY <1>3
  <2>2. e \in Links => n <= 1
    BY <2>1 DEF QueueInv
  <2>3. e \in Links => n = 1
    BY <2>2
  <2> QED BY <1>3, <2>1, <2>3
<1>5. CASE reply # <<>> /\ Reached(c, e) # {}
  <2>1. PICK f \in Reached(c, e), a \in Message : reply = <<a>>
    BY <1>5 DEF Answer
  <2>2. /\ f \in Ends /\ f # e /\ Len(chan[c][e]) = 1 /\ chan[c][f] = <<>>
        /\ e = Client => f \in Links /\ Current(c, f)
        /\ e # Client => f = Client /\ e \in Links /\ Current(c, e)
    BY <1>0, <1>5, Reaching, LastMessage, EndTypes
  <2>3. chan'[c][e] = <<>>
    <3>1. Len(chan'[c][e]) = 0
      BY <1>3, <2>2
    <3> QED BY <1>2, <3>1, Emptiness
  <2>4. chan'[c][f] = <<a>>
    <3>1. chan'[c][f] = <<>> \o <<a>>
      BY <2>1, <2>2
    <3> QED BY <3>1
  <2>5. /\ Len(chan'[c][f]) = 1 /\ DOMAIN chan'[c][f] = {1} /\ Head(chan'[c][f]) = a
        /\ chan'[c][f] # <<>>
    BY <2>4
  <2>6. \A x \in Ends \ {e, f} : chan'[c][x] = chan[c][x] /\ x \in Links
    <3>1. \A x \in Reached(c, e) : x = f
      <4>1. ASSUME NEW x \in Reached(c, e) PROVE x = f
        <5>1. CASE e = Client
          <6>1. Current(c, x) /\ Current(c, f)
            BY <1>0, <2>2, <5>1, Reaching
          <6> QED BY <6>1 DEF Current
        <5>2. CASE e # Client
          BY <1>0, <2>2, <5>2, Reaching
        <5> QED BY <5>1, <5>2
      <4> QED BY <4>1
    <3> QED BY <2>2, <3>1, EndTypes
  <2>7. \A k \in Links : Current(c, k) => k = e \/ k = f
    BY <2>2 DEF Current
  <2>8. OwnTask(a, tr'[c][f]) /\ PeerTask(a, tr'[c][e])
    BY <1>1, <2>1, <2>2
  <2>9. f \in Links => e = Client /\ Client # f
    BY <1>2, <2>2
  <2>10. \A k \in Links : Len(chan'[c][k]) <= 1
    <3>1. Len(chan'[c][e]) = 0
      BY <1>3, <2>2
    <3>2. ASSUME NEW k \in Links, k # e, k # f PROVE Len(chan'[c][k]) <= 1
      BY <1>2, <2>6, <3>2 DEF QueueInv
    <3>3. Len(chan'[c][e]) <= 1 /\ Len(chan'[c][f]) <= 1
      <4>1. Len(chan'[c][f]) = 1
        BY <2>5
      <4> QED BY <3>1, <4>1, AtMostOne
    <3> QED BY <3>2, <3>3
  <2>11. ASSUME NEW i \in DOMAIN chan'[c][Client], i > 1 PROVE chan'[c][Client][i].t = "status"
    <3>1. Client = e \/ Client = f
      BY <2>2
    <3>2. i \in DOMAIN <<>> \/ i = 1
      BY <2>3, <2>5, <2>11, <3>1
    <3> QED BY <2>11, <3>2
  <2>12. \A k \in Links : Current(c, k) /\ chan'[c][k] # <<>> => chan'[c][Client] = <<>>
    BY <2>3, <2>7, <2>9
  <2>13. ASSUME NEW x \in Ends, chan'[c][x] # <<>> PROVE OwnTask(Head(chan'[c][x]), tr'[c][x])
    <3>1. CASE x = f
      BY <2>5, <2>8, <3>1
    <3>2. CASE x # f
      <4>1. x # e /\ chan'[c][x] = chan[c][x] /\ tr'[c][x] = tr[c][x]
        BY <1>1, <2>3, <2>6, <2>13, <3>2
      <4> QED BY <2>13, <4>1 DEF QueueInv
    <3> QED BY <3>1, <3>2
  <2>14. ASSUME NEW k \in Links, Current(c, k)
         PROVE  /\ chan'[c][k] # <<>> => PeerTask(Head(chan'[c][k]), tr'[c][Client])
                /\ Len(chan'[c][Client]) = 1 => PeerTask(Head(chan'[c][Client]), tr'[c][k])
    <3>1. CASE k = f
      <4>1. e = Client /\ Len(chan'[c][e]) = 0
        BY <1>3, <2>2, <2>9, <3>1
      <4> QED BY <2>5, <2>8, <3>1, <4>1
    <3>2. CASE k = e
      <4>1. f = Client
        BY <1>2, <2>2, <3>2
      <4> QED BY <2>3, <2>5, <2>8, <3>2, <4>1
    <3> QED BY <2>7, <2>14, <3>1, <3>2
  <2> QED BY <1>0, <2>10, <2>11, <2>12, <2>13, <2>14 DEF QueueInv
<1>6. CASE reply = <<>> \/ Reached(c, e) = {}
  <2>1. \A x \in Ends \ {e} : chan'[c][x] = chan[c][x]
    <3>1. ASSUME NEW x \in Ends \ {e} PROVE chan'[c][x] = chan[c][x]
      <4>1. PICK q \in Seq(Message) : q = chan[c][x]
        BY <1>2
      <4>2. q \o <<>> = q
        OBVIOUS
      <4>3. x \notin Reached(c, e) => chan'[c][x] = chan[c][x]
        OBVIOUS
      <4>4. x \in Reached(c, e) => chan'[c][x] = q \o <<>>
        BY <1>6, <4>1
      <4> QED BY <4>1, <4>2, <4>3, <4>4
    <3> QED BY <3>1
  <2>2. e \in Links => chan'[c][e] = <<>>
    BY <1>2, <1>7, Emptiness
  <2>3. e = Client => \A i \in DOMAIN chan'[c][e] : chan'[c][e][i].t = "status"
    <3>1. \A i \in DOMAIN chan'[c][e] : i \in Nat \ {0}
      BY <1>2
    <3> QED BY <1>4, <3>1 DEF QueueInv
  <2>4. chan'[c][e] # <<>> => e = Client /\ Head(chan'[c][e]).t = "status"
    <3>1. chan'[c][e] # <<>> => 1 \in DOMAIN chan'[c][e] /\ Head(chan'[c][e]) = chan'[c][e][1]
      BY <1>2, NonEmpty
    <3> QED BY <2>2, <2>3, <3>1, EndTypes
  <2>5. \A m, u : m.t = "status" => OwnTask(m, u) /\ PeerTask(m, u)
    BY DEF OwnTask, PeerTask
  <2>6. \A k \in Links : Len(chan'[c][k]) <= 1
    <3>1. ASSUME NEW k \in Links, k # e PROVE Len(chan'[c][k]) <= 1
      <4>1. chan'[c][k] = chan[c][k]
        BY <1>2, <2>1, <3>1
      <4>2. Len(chan[c][k]) <= 1
        BY DEF QueueInv
      <4> QED BY <4>1, <4>2
    <3>2. ASSUME e \in Links PROVE Len(chan'[c][e]) <= 1
      BY <1>7, <3>2, AtMostOne
    <3> QED BY <3>1, <3>2
  <2>7. \A i \in DOMAIN chan'[c][Client] : i > 1 => chan'[c][Client][i].t = "status"
    BY <1>2, <2>1, <2>3 DEF QueueInv
  <2>8. \A k \in Links : Current(c, k) /\ chan'[c][k] # <<>> => chan'[c][Client] = <<>>
    BY <1>2, <2>1, <2>2 DEF QueueInv
  <2>9. \A x \in Ends : chan'[c][x] # <<>> => OwnTask(Head(chan'[c][x]), tr'[c][x])
    <3>1. \A x \in Ends \ {e} : chan'[c][x] # <<>> => OwnTask(Head(chan'[c][x]), tr'[c][x])
      BY <1>1, <2>1 DEF QueueInv
    <3> QED BY <2>4, <2>5, <3>1
  <2>10. ASSUME NEW k \in Links, Current(c, k), <<c, k>> \in open
         PROVE  /\ chan'[c][k] # <<>> => PeerTask(Head(chan'[c][k]), tr'[c][Client])
                /\ Len(chan'[c][Client]) = 1 => PeerTask(Head(chan'[c][Client]), tr'[c][k])
    <3>1. ASSUME chan'[c][k] # <<>> PROVE PeerTask(Head(chan'[c][k]), tr'[c][Client])
      <4>1. k # e /\ chan'[c][k] = chan[c][k] /\ chan[c][Client] = <<>>
        BY <1>2, <2>1, <2>2, <2>10, <3>1 DEF QueueInv
      <4>2. e # Client /\ tr'[c][Client] = tr[c][Client]
        BY <1>1, <1>2, <4>1
      <4> QED BY <2>10, <3>1, <4>1, <4>2 DEF QueueInv
    <3>2. ASSUME Len(chan'[c][Client]) = 1 PROVE PeerTask(Head(chan'[c][Client]), tr'[c][k])
      <4>0. chan'[c][Client] # <<>>
        BY <1>2, <3>2, OfOne
      <4>1. CASE e = Client
        BY <2>4, <2>5, <4>0, <4>1
      <4>2. CASE e # Client
        <5>1. chan'[c][Client] = chan[c][Client] /\ k # e
          BY <1>2, <2>1, <2>10, <4>0, <4>2 DEF QueueInv
        <5> QED BY <1>1, <1>2, <2>10, <3>2, <5>1 DEF QueueInv
      <4> QED BY <4>1, <4>2
    <3> QED BY <3>1, <3>2
  <2> QED BY <1>0, <2>6, <2>7, <2>8, <2>9, <2>10 DEF QueueInv
<1> QED BY <1>5, <1>6

\* What an end sends when its transfer becomes t: it is for the other end, and
\* as long as the client is not late, true of the tasks at both.
Fits(c, e, reply, t) ==
    \A f \in Reached(c, e), a \in Message : reply = <<a>> =>
        /\ a.t # "status" /\ MessageInv(f, a)
        /\ ~Late(c) /\ ~Outdated(c, e) => OwnTask(a, tr[c][f]) /\ PeerTask(a, t)

\* The two together.
LEMMA AnswerKeeps ==
    ASSUME TransferInv, Fixed, NEW c \in Calls, NEW e \in Ends, chan[c][e] # <<>>,
           NEW t \in Transfer, t.duty # "NULL", t.task \in -1 .. total,
           tr' = [tr EXCEPT ![c][e] = t], NEW reply, Answer(reply),
           NEW why \in SUBSET {"late", "cut", "refused"}, Reply(c, e, reply, why),
           disk' \in Seq(Int), report' \in [Calls -> Reports], overlap' \in BOOLEAN, DiskInv',
           Fits(c, e, reply, t)
    PROVE  TransferInv'
<1>0. TypeOK /\ UNCHANGED <<way, total>>
  BY DEF TransferInv, Fixed
<1>1. /\ chan' \in [Calls -> [Ends -> Seq(Message)]]
      /\ \A d \in Calls \ {c} : chan'[d] = chan[d]
      /\ chan'[c][e] = Tail(chan[c][e])
      /\ \A x \in Ends \ {e} : chan'[c][x] =
            IF x \in Reached(c, e) THEN chan[c][x] \o reply ELSE chan[c][x]
      /\ marks' \in [Calls -> SUBSET {"late", "cut", "refused"}]
      /\ \A d \in Calls : Late(d) => Late(d)'
      /\ reply # <<>> /\ Outdated(c, e) => Late(c)'
  BY <1>0, ReplyGives
<1>2. tr' \in [Calls -> [Ends -> Transfer]] /\ \A d \in Calls \ {c} : tr'[d] = tr[d]
  BY <1>0 DEF TypeOK
<1>3. TypeOK'
  BY <1>0, <1>1, <1>2 DEF TypeOK, Fixed
<1>4. \A d \in Calls \ {c} : Undisturbed(d)
  BY <1>1, <1>2 DEF Undisturbed, Fixed
<1>5. SideInv(c)'
  BY <1>1, SideKeeps DEF Fits
<1>6. ASSUME ~Late(c)' PROVE QueueInv(c)'
  <2>1. ~Late(c) /\ (reply # <<>> => ~Outdated(c, e))
    BY <1>1, <1>6
  <2>2. QueueInv(c)
    BY <2>1 DEF TransferInv
  <2>3. \A f \in Reached(c, e), a \in Message : reply = <<a>> =>
            OwnTask(a, tr[c][f]) /\ PeerTask(a, t)
    <3>1. \A a \in Message : <<a>> # <<>>
      OBVIOUS
    <3> QED BY <2>1, <3>1 DEF Fits
  <2> QED BY <1>1, <2>1, <2>2, <2>3, QueueKeeps
<1> QED BY <1>0, <1>1, <1>3, <1>4, <1>5, <1>6, StepKeeps

\* An end that says nothing
LEMMA SilenceKeeps ==
    ASSUME TransferInv, Fixed, NEW c \in Calls, NEW e \in Ends, chan[c][e] # <<>>,
           NEW t \in Transfer, t.duty # "NULL", t.task \in -1 .. total,
           tr' = [tr EXCEPT ![c][e] = t],
           NEW why \in SUBSET {"late", "cut", "refused"}, Reply(c, e, <<>>, why),
           disk' \in Seq(Int), report' \in [Calls -> Reports], overlap' \in BOOLEAN, DiskInv'
    PROVE  TransferInv'
<1>1. PICK reply : reply = <<>>
  OBVIOUS
<1>2. Answer(reply) /\ Reply(c, e, reply, why) /\ Fits(c, e, reply, t)
  BY <1>1 DEF Answer, Fits
<1> QED BY <1>2, AnswerKeeps

LEMMA Tasks ==
    ASSUME TypeOK, NEW c \in Calls, NEW e \in Ends, NEW t \in Transfer,
           tr' = [tr EXCEPT ![c][e] = t]
    PROVE  /\ tr'[c][e] = t
           /\ \A d \in Calls, x \in Ends : d # c \/ x # e => tr'[d][x] = tr[d][x]
BY DEF TypeOK

\* ... nor writes anything
LEMMA DiskSame ==
    ASSUME TransferInv, Fixed, NEW c \in Calls, NEW e \in Ends, chan[c][e] # <<>>,
           NEW t \in Transfer, tr' = [tr EXCEPT ![c][e] = t],
           e \in Receivers => t.task \in {tr[c][e].task, NoTask},
           NEW reply, Answer(reply),
           NEW why \in SUBSET {"late", "cut", "refused"}, Reply(c, e, reply, why),
           UNCHANGED <<disk, overlap>>
    PROVE  DiskInv'
<1>0. TypeOK /\ way' = way
  BY DEF TransferInv, Fixed
<1>1. \A d \in Calls : Late(d) => Late(d)'
  BY <1>0, ReplyGives
<1>2. ASSUME NEW d \in Calls, NEW x \in Receivers
      PROVE  tr'[d][x].task \in {tr[d][x].task, NoTask}
  <2>1. x \in Ends
    BY <1>0, SendersReceivers
  <2> QED BY <1>0, <2>1, Tasks
<1> QED BY <1>0, <1>1, <1>2, DiskKeeps

-----------------------------------------------------------------------------
(* The disk                                                                *)

LEMMA WriteSliceLength ==
    ASSUME NEW file \in Seq(Int), NEW k \in Nat \ {0}
    PROVE  /\ WriteSlice(file, k) \in Seq(Int)
           /\ Len(WriteSlice(file, k)) = IF k > Len(file) THEN k ELSE Len(file)
           /\ \A i \in 1 .. Len(WriteSlice(file, k)) : WriteSlice(file, k)[i] =
                 IF i = k THEN k ELSE IF i <= Len(file) THEN file[i] ELSE Hole
<1> DEFINE n == IF k > Len(file) THEN k ELSE Len(file)
           W == [i \in 1 .. n |->
                    IF i = k THEN k ELSE IF i <= Len(file) THEN file[i] ELSE Hole]
<1>1. n \in Nat /\ Len(file) \in Nat
  OBVIOUS
<1>2. ASSUME NEW i \in 1 .. n
      PROVE  (IF i = k THEN k ELSE IF i <= Len(file) THEN file[i] ELSE Hole) \in Int
  BY <1>2, <1>1 DEF Hole
<1>3. W \in [1 .. n -> Int]
  BY <1>2
<1>4. W \in Seq(Int) /\ Len(W) = n
  <2> HIDE DEF W, n
  <2> QED BY <1>1, <1>3
<1>5. WriteSlice(file, k) = W
  BY DEF WriteSlice
<1> QED BY <1>4, <1>5

\* Slices that are written one after the other leave no hole but the one at
\* the front, which the receiver's truncation of its file left.
LEMMA NextSlice ==
    ASSUME NEW file \in Seq(Int), NEW k \in Nat, Written(file, k)
    PROVE  Written(WriteSlice(file, k + 1), k + 1)
<1> DEFINE W == WriteSlice(file, k + 1)
<1>1. PICK b \in 0 .. k : IF b = k THEN file = <<>>
                          ELSE /\ Len(file) = k
                               /\ \A i \in 1 .. k : file[i] = IF i <= b THEN Hole ELSE i
  BY DEF Written
<1>2. Len(file) \in 0 .. k
  BY <1>1
<1>3. /\ Len(W) = k + 1
      /\ \A i \in 1 .. k + 1 : W[i] = IF i = k + 1 THEN k + 1
                                      ELSE IF i <= Len(file) THEN file[i] ELSE Hole
  BY <1>2, WriteSliceLength
<1> HIDE DEF W
<1>4. \A i \in 1 .. k + 1 : W[i] = IF i <= b THEN Hole ELSE i
  <2>1. CASE b = k
    <3>1. Len(file) = 0
      BY <1>1, <2>1
    <3> QED BY <1>3, <2>1, <3>1
  <2>2. CASE b # k
    BY <1>1, <1>3, <2>2
  <2> QED BY <2>1, <2>2
<1>5. b \in 0 .. k + 1 /\ b # k + 1
  OBVIOUS
<1>6. Written(W, k + 1)
  BY <1>3, <1>4, <1>5 DEF Written
<1> QED BY <1>6 DEF W

\* A check that can tell a hole from the content in the first slice sees the
\* hole at the front: a file that passes it has none.
LEMMA CheckSeesHole ==
    ASSUME TypeOK, Written(disk, total), CheckPasses, total = 0 \/ 1 \in telling
    PROVE  Intact
<1>0. total \in Nat
  BY DEF TypeOK
<1>1. PICK b \in 0 .. total : IF b = total THEN disk = <<>>
                              ELSE \A i \in 1 .. total : disk[i] = IF i <= b THEN Hole ELSE i
  BY DEF Written
<1>2. CASE total = 0
  BY <1>2 DEF CheckPasses, Intact
<1>3. CASE total # 0
  <2>1. Len(disk) = total /\ disk[1] = 1
    BY <1>3 DEF CheckPasses
  <2>2. b # total
    <3>1. Len(<<>>) = 0
      OBVIOUS
    <3> QED BY <1>1, <1>3, <2>1, <3>1
  <2>3. b = 0
    <3>1. 1 \in 1 .. total
      BY <1>0, <1>3
    <3>2. disk[1] = IF 1 <= b THEN Hole ELSE 1
      BY <1>1, <2>2, <3>1
    <3> QED BY <2>1, <3>2 DEF Hole
  <2> QED BY <1>1, <2>1, <2>2, <2>3 DEF Intact
<1> QED BY <1>2, <1>3

-----------------------------------------------------------------------------
(* What is sent, and what a transfer becomes                               *)

\* What a transfer becomes is one.
LEMMA TransferType ==
    ASSUME NEW t \in Transfer
    PROVE  /\ t.task \in Int /\ t.duty \in Duties
           /\ \A duty \in Duties : /\ WithDuty(t, duty) \in Transfer
                                  /\ WithDuty(t, duty).task = t.task
                                  /\ WithDuty(t, duty).duty = duty
           /\ \A k \in Int : /\ WithTask(t, k) \in Transfer /\ WithTask(t, k).task = k
                             /\ WithTask(t, k).duty = t.duty
BY DEF Transfer, WithDuty, WithTask

LEMMA NewTransfers ==
    /\ Unmade \in Transfer /\ Unmade.task = NoTask /\ Unmade.duty = "NULL"
    /\ NoTransfer \in Transfer /\ NoTransfer.task = NoTask /\ NoTransfer.duty = "None"
    /\ \A k \in Int : /\ Sending(k) \in Transfer /\ Sending(k).task = k
                      /\ Sending(k).duty = "Send"
BY DEF Unmade, NoTransfer, Sending, Transfer, Duties, NoTask

LEMMA MessageTypes ==
    ASSUME total \in Nat
    PROVE  /\ Post \in Message /\ Post.t = "post" /\ Post.at = total
           /\ Check \in Message /\ Check.t = "check" /\ Check.at = total
           /\ Download \in Message /\ Download.t = "download"
           /\ Status \in Message /\ Status.t = "status"
           /\ \A k \in Int :
                /\ Slice(k) \in Message /\ Slice(k).t = "slice" /\ Slice(k).at = k
                /\ Ack(k) \in Message /\ Ack(k).t = "ack" /\ Ack(k).at = k
                /\ \A code \in {"ok", "exists", "openfail"} :
                     /\ Result(code, k) \in Message /\ Result(code, k).t = "result"
                     /\ Result(code, k).at = k /\ Result(code, k).code = code
BY DEF Post, Check, Download, Status, Slice, Ack, Result, Message, Kinds

\* What a record field of a transfer in tr is
LEMMA CallTypes ==
    ASSUME TransferInv, NEW c \in Calls, NEW e \in Ends
    PROVE  /\ TypeOK /\ tr[c][e] \in Transfer /\ tr[c][e].task \in -1 .. total
           /\ total \in Nat /\ tr[c][e].task \in Int
           /\ chan[c][e] # <<>> /\ e # Client => tr[c][e].duty # "NULL"
           /\ chan[c][e] # <<>> /\ Got(c, e).t # "status" => tr[c][e].duty # "NULL"
<1>0. TypeOK /\ SideInv(c)
  BY DEF TransferInv
<1>1. tr[c][e] \in Transfer /\ total \in Nat /\ tr[c][e].task \in -1 .. total
      /\ tr[c][e].task \in Int
  BY <1>0 DEF TypeOK, SideInv, Transfer
<1>2. chan[c][e] # <<>> /\ e # Client => tr[c][e].duty # "NULL"
  BY <1>0, EndTypes DEF SideInv
<1>3. ASSUME chan[c][e] # <<>>, Got(c, e).t # "status" PROVE tr[c][e].duty # "NULL"
  <2>1. 1 \in DOMAIN chan[c][e] /\ Got(c, e) = chan[c][e][1]
    BY <1>0, <1>3, NonEmpty DEF TypeOK, Got
  <2> QED BY <1>0, <1>2, <1>3, <2>1 DEF SideInv
<1> QED BY <1>0, <1>1, <1>2, <1>3

-----------------------------------------------------------------------------
(* The client's connect callback, and the announcements                    *)

LEMMA PostFileKeeps ==
    ASSUME TransferInv, Fixed, NEW c \in Calls, NEW e \in Senders, chan[c][e] # <<>>,
           NEW unable \in Transfer, unable.duty # "NULL", unable.task \in {tr[c][e].task, NoTask},
           NEW why \in SUBSET {"late", "cut", "refused"}, PostFile(c, e, unable, why),
           UNCHANGED <<disk, report, overlap>>
    PROVE  TransferInv'
<1>0. /\ TypeOK /\ e \in Ends /\ tr[c][e] \in Transfer /\ tr[c][e].task \in -1 .. total
      /\ total \in Nat /\ e \notin Receivers
  <2>1. TypeOK
    BY DEF TransferInv
  <2>2. e \in Ends /\ e \notin Receivers
    BY <2>1, SendersReceivers
  <2> QED BY <2>1, <2>2, CallTypes
<1>1. disk' \in Seq(Int) /\ report' \in [Calls -> Reports] /\ overlap' \in BOOLEAN
  BY <1>0 DEF TypeOK
<1>2. CASE Reply(c, e, <<Post>>, why) /\ tr' = [tr EXCEPT ![c][e] = WithDuty(@, "Send")]
  <2>1. PICK t \in Transfer : t = WithDuty(tr[c][e], "Send") /\ t.duty = "Send"
                              /\ t.task = tr[c][e].task
    BY <1>0, TransferType DEF Duties
  <2>2. tr' = [tr EXCEPT ![c][e] = t]
    BY <1>0, <1>2, <2>1 DEF TypeOK
  <2>3. PICK reply : reply = <<Post>>
    OBVIOUS
  <2>4. PICK post \in Message : post = Post /\ post.t = "post" /\ post.at = total
    BY <1>0, MessageTypes
  <2>5. Answer(reply) /\ \A a \in Message : reply = <<a>> => a = post
    BY <2>3, <2>4 DEF Answer
  <2>6. Reply(c, e, reply, why)
    BY <1>2, <2>3
  <2>7. \A f \in Reached(c, e) : MessageInv(f, post)
    BY <1>0, <2>4, Reaching DEF MessageInv
  <2>8. \A u : OwnTask(post, u) /\ PeerTask(post, u)
    BY <2>4 DEF OwnTask, PeerTask
  <2>9. DiskInv'
    BY <1>0, <2>2, <2>5, <2>6, DiskSame
  <2>10. t.duty # "NULL" /\ t.task \in -1 .. total /\ post.t # "status"
    BY <1>0, <2>1, <2>4
  <2>11. Fits(c, e, reply, t)
    BY <2>5, <2>7, <2>8, <2>10 DEF Fits
  <2> QED BY <1>0, <1>1, <2>2, <2>5, <2>6, <2>9, <2>10, <2>11, AnswerKeeps
<1>3. CASE Reply(c, e, <<>>, why \cup {"refused"}) /\ tr' = [tr EXCEPT ![c][e] = unable]
  <2>1. PICK w \in SUBSET {"late", "cut", "refused"} : Reply(c, e, <<>>, w)
    BY <1>3
  <2>2. unable.task \in -1 .. total
    BY <1>0 DEF NoTask
  <2>3. PICK reply : reply = <<>> /\ Answer(reply) /\ Reply(c, e, reply, w)
    BY <2>1 DEF Answer
  <2>4. DiskInv'
    BY <1>0, <1>3, <2>3, DiskSame
  <2> QED BY <1>0, <1>1, <1>3, <2>1, <2>2, <2>4, SilenceKeeps
<1> QED BY <1>2, <1>3 DEF PostFile

LEMMA OnDownloadKeeps ==
    ASSUME TransferInv, NEW c \in Calls, NEW e \in Ends, OnDownload(c, e) PROVE TransferInv'
<1>1. Receives(c, e, "download") /\ PostFile(c, e, tr[c][e], {}) /\ Fixed
      /\ UNCHANGED <<disk, report, overlap>>
  BY DEF OnDownload
<1>2. /\ chan[c][e] # <<>> /\ e # Client /\ way = "download"
      /\ TypeOK /\ tr[c][e] \in Transfer /\ tr[c][e].duty # "NULL"
  BY <1>1, TheMessage, CallTypes DEF MessageInv
<1>3. e \in Senders
  BY <1>2, SendersReceivers, EndTypes
<1>4. {} \in SUBSET {"late", "cut", "refused"}
  OBVIOUS
<1> QED BY <1>1, <1>2, <1>3, <1>4, PostFileKeeps

LEMMA OnConnectKeeps ==
    ASSUME TransferInv, NEW c \in Calls, OnConnect(c) PROVE TransferInv'
<1> DEFINE me == tr[c][Client]
           made == IF me.duty = "NULL" THEN NoTransfer ELSE me
           why == IF me.task # NoTask THEN {"cut"} ELSE {}
<1>1. Receives(c, Client, "status") /\ Fixed /\ UNCHANGED <<disk, report, overlap>>
  BY DEF OnConnect
<1>2. /\ chan[c][Client] # <<>> /\ TypeOK /\ me \in Transfer /\ me.task \in -1 .. total
      /\ total \in Nat /\ me.task \in Int /\ Client \in Ends
  BY <1>1, EndTypes, TheMessage, CallTypes
<1>3. disk' \in Seq(Int) /\ report' \in [Calls -> Reports] /\ overlap' \in BOOLEAN
  BY <1>1, <1>2 DEF TypeOK
<1>4. made \in Transfer /\ made.duty # "NULL" /\ made.task \in {me.task, NoTask}
  BY <1>2, NewTransfers
<1>5. why \in SUBSET {"late", "cut", "refused"}
  OBVIOUS
<1>6. CASE ~Announces(me)
  <2>1. Reply(c, Client, <<>>, why) /\ UNCHANGED tr
    BY <1>6 DEF OnConnect
  <2>2. me.duty # "NULL"
    BY <1>6 DEF Announces
  <2>3. tr' = [tr EXCEPT ![c][Client] = me]
    BY <1>2, <2>1 DEF TypeOK
  <2>4. PICK reply : reply = <<>> /\ Answer(reply) /\ Reply(c, Client, reply, why)
    BY <2>1 DEF Answer
  <2> HIDE DEF why, me
  <2>5. me.task \in {tr[c][Client].task, NoTask}
    BY DEF me
  <2>6. DiskInv'
    BY <1>1, <1>2, <1>5, <2>3, <2>4, <2>5, DiskSame
  <2> QED BY <1>1, <1>2, <1>3, <1>5, <2>1, <2>2, <2>3, <2>6, SilenceKeeps
<1>7. CASE Announces(me) /\ way = "upload"
  <2>1. PostFile(c, Client, made, why)
    BY <1>7 DEF OnConnect
  <2>2. Client \in Senders
    BY <1>2, <1>7, SendersReceivers
  <2> HIDE DEF made, why
  <2> QED BY <1>1, <1>2, <1>4, <1>5, <2>1, <2>2, PostFileKeeps
<1>8. CASE Announces(me) /\ way # "upload"
  <2>1. /\ Reply(c, Client, <<Download>>, why)
        /\ tr' = [tr EXCEPT ![c][Client] = WithDuty(made, "Recv")] /\ way = "download"
    BY <1>2, <1>8 DEF OnConnect, TypeOK
  <2>2. PICK t \in Transfer : t = WithDuty(made, "Recv") /\ t.duty = "Recv"
                              /\ t.task = made.task
    BY <1>4, TransferType DEF Duties
  <2>3. PICK download \in Message : download = Download /\ download.t = "download"
    BY <1>2, MessageTypes
  <2>4. PICK reply : reply = <<Download>>
    OBVIOUS
  <2> HIDE DEF made, why, me
  <2>5. tr' = [tr EXCEPT ![c][Client] = t] /\ Reply(c, Client, reply, why)
    BY <2>1, <2>2, <2>4
  <2>6. Answer(reply) /\ \A a \in Message : reply = <<a>> => a = download
    BY <2>3, <2>4 DEF Answer
  <2>7. \A f \in Reached(c, Client) : MessageInv(f, download)
    BY <1>2, <2>1, <2>3, Reaching DEF MessageInv
  <2>8. \A u : OwnTask(download, u) /\ PeerTask(download, u)
    BY <2>3 DEF OwnTask, PeerTask
  <2>9. t.task \in {tr[c][Client].task, NoTask}
    BY <1>4, <2>2 DEF me
  <2>10. DiskInv'
    BY <1>1, <1>2, <1>5, <2>5, <2>6, <2>9, DiskSame
  <2>11. t.duty # "NULL" /\ t.task \in -1 .. total /\ download.t # "status"
    BY <1>2, <1>4, <2>2, <2>3 DEF NoTask
  <2>12. Fits(c, Client, reply, t)
    BY <2>6, <2>7, <2>8, <2>11 DEF Fits
  <2> QED BY <1>1, <1>2, <1>3, <1>5, <2>5, <2>6, <2>10, <2>11, <2>12, AnswerKeeps
<1> QED BY <1>6, <1>7, <1>8

-----------------------------------------------------------------------------
(* The receiver is told of a file                                          *)

LEMMA SeenSizes ==
    ASSUME TypeOK
    PROVE  \A have \in SizesSeen : have \in 0 .. Len(disk)
<1>1. Len(disk) \in Nat
  BY DEF TypeOK
<1>2. \A u \in Unflushed(Calls \X Receivers) : u \in Nat /\ u <= Len(disk)
  BY <1>1 DEF Unflushed
<1>3. \A u \in Unflushed(Calls \X Receivers) : Len(disk) - u \in 0 .. Len(disk)
  BY <1>1, <1>2
<1>4. 0 \in 0 .. Len(disk)
  BY <1>1
<1> QED BY <1>3, <1>4 DEF SizesSeen

LEMMA WrittenLength ==
    ASSUME NEW file \in Seq(Int), NEW k \in Nat, Written(file, k)
    PROVE  Len(file) <= k
<1>1. PICK b \in 0 .. k : IF b = k THEN file = <<>> ELSE Len(file) = k
  BY DEF Written
<1>2. CASE b = k
  <2>1. Len(file) = 0
    BY <1>1, <1>2
  <2> QED BY <2>1
<1> QED BY <1>1, <1>2

\* What overlap says when it stays FALSE
Remembers(c, e) ==
    overlap' = (overlap \/ \E x \in (Calls \X Receivers) \ {<<c, e>>} :
                              tr[x[1]][x[2]].task # NoTask)

LEMMA Alone ==
    ASSUME NEW c, NEW e, Remembers(c, e)
    PROVE  ~overlap' => \A d \in Calls, f \in Receivers :
                            d # c \/ f # e => tr[d][f].task = NoTask
<1> DEFINE Open == \E x \in (Calls \X Receivers) \ {<<c, e>>} : tr[x[1]][x[2]].task # NoTask
<1>1. overlap' = (overlap \/ Open)
  BY DEF Remembers
<1>2. ASSUME NEW d \in Calls, NEW f \in Receivers, d # c \/ f # e, tr[d][f].task # NoTask
      PROVE  Open
  <2>1. <<d, f>> \in (Calls \X Receivers) \ {<<c, e>>}
    BY <1>2
  <2> QED BY <1>2, <2>1
<1> HIDE DEF Open
<1>3. ~overlap' => ~Open
  BY <1>1
<1> QED BY <1>2, <1>3

\* A receiver that opens the file has it alone, or sets overlap.
LEMMA OpeningKeeps ==
    ASSUME TransferInv, Fixed, NEW c \in Calls, NEW e \in Receivers, NEW t \in Transfer,
           tr' = [tr EXCEPT ![c][e] = t], t.task \in Nat, disk' = <<>>,
           ~overlap' => \A d \in Calls, f \in Receivers :
                            d # c \/ f # e => tr[d][f].task = NoTask
    PROVE  DiskInv'
<1> SUFFICES ASSUME ~overlap' PROVE DiskInv'
  BY DEF DiskInv
<1>0. TypeOK /\ Receivers' = Receivers /\ Receivers \subseteq Ends
  BY SendersReceivers DEF TransferInv, Fixed, Receivers
<1>1. ASSUME NEW d \in Calls, NEW f \in Receivers, d # c \/ f # e
      PROVE  tr[d][f].task = NoTask
  BY <1>1
<1>2. tr'[c][e] = t /\ \A d \in Calls, f \in Receivers :
                           d # c \/ f # e => tr'[d][f].task = NoTask
  <2>1. /\ tr'[c][e] = t
        /\ \A d \in Calls, f \in Ends : d # c \/ f # e => tr'[d][f] = tr[d][f]
    <3>1. e \in Ends /\ TypeOK
      BY <1>0
    <3>2. tr \in [Calls -> [Ends -> Transfer]]
      BY <3>1 DEF TypeOK
    <3>3. tr'[c][e] = t
      BY <3>1, <3>2
    <3>4. ASSUME NEW d \in Calls, NEW f \in Ends, d # c \/ f # e PROVE tr'[d][f] = tr[d][f]
      BY <3>1, <3>2, <3>4
    <3> QED BY <3>3, <3>4
  <2>2. ASSUME NEW d \in Calls, NEW f \in Receivers, d # c \/ f # e
        PROVE  tr'[d][f].task = NoTask
    <3>1. tr'[d][f] = tr[d][f]
      BY <1>0, <2>1, <2>2
    <3> QED BY <1>1, <2>2, <3>1
  <2> QED BY <2>1, <2>2
<1>3. \A x \in Calls \X Receivers : tr'[x[1]][x[2]].task # NoTask => x = <<c, e>>
  <2>1. ASSUME NEW d \in Calls, NEW f \in Receivers, tr'[d][f].task # NoTask
        PROVE  <<d, f>> = <<c, e>>
    BY <1>2, <2>1
  <2>2. \A x \in Calls \X Receivers : x[1] \in Calls /\ x[2] \in Receivers /\ x = <<x[1], x[2]>>
    OBVIOUS
  <2> QED BY <2>1, <2>2
<1>4. \A x, y \in Calls \X Receivers : Live(x[1], x[2])' /\ Live(y[1], y[2])' => x = y
  <2>1. \A x \in Calls \X Receivers : Live(x[1], x[2])' => x = <<c, e>>
    BY <1>3 DEF Live
  <2>2. ASSUME NEW x \in Calls \X Receivers, NEW y \in Calls \X Receivers,
               Live(x[1], x[2])', Live(y[1], y[2])'
        PROVE  x = y
    BY <2>1, <2>2
  <2> QED BY <2>2
<1>5. Written(disk, t.task)'
  <2>1. \E b \in 0 .. t.task : b = t.task
    OBVIOUS
  <2> QED BY <2>1 DEF Written
<1>6. ASSUME NEW d \in Calls, NEW f \in Receivers, Live(d, f)' PROVE Written(disk, tr[d][f].task)'
  <2>1. d = c /\ f = e
    BY <1>2, <1>6 DEF Live
  <2> QED BY <1>2, <1>5, <2>1 DEF Written
<1> QED BY <1>0, <1>4, <1>6 DEF DiskInv

\* A file that is removed was larger than what any receiver has written.
LEMMA RemovingKeeps ==
    ASSUME TransferInv, Fixed, \A d \in Calls : Late(d) => Late(d)',
           \A d \in Calls, f \in Receivers : tr'[d][f].task = tr[d][f].task,
           UNCHANGED overlap, disk' = disk \/ Len(disk) > total
    PROVE  DiskInv'
<1>1. CASE disk' = disk
  BY <1>1, DiskKeeps DEF Fixed
<1>2. CASE Len(disk) > total
  <2> SUFFICES ASSUME ~overlap' PROVE DiskInv'
    BY DEF DiskInv
  <2>0. TypeOK /\ Receivers' = Receivers /\ Receivers \subseteq Ends /\ DiskInv /\ ~overlap
    BY SendersReceivers DEF TransferInv, Fixed, Receivers
  <2>1. ASSUME NEW d \in Calls, NEW f \in Receivers, Live(d, f), ~Late(d) PROVE FALSE
    <3>1. Written(disk, tr[d][f].task)
      BY <2>0, <2>1 DEF DiskInv
    <3>2. PICK k \in Nat : k = tr[d][f].task /\ k <= total /\ total \in Nat
      BY <2>0, <2>1, CallTypes DEF Live, NoTask
    <3>3. disk \in Seq(Int) /\ Len(disk) <= k /\ Len(disk) \in Nat
      BY <2>0, <3>1, <3>2, WrittenLength DEF TypeOK
    <3> QED BY <1>2, <3>2, <3>3
  <2>2. \A x, y \in Calls \X Receivers : Live(x[1], x[2])' /\ Live(y[1], y[2])' => x = y
    BY <2>0 DEF DiskInv, Live
  <2>3. \A d \in Calls, f \in Receivers : Live(d, f)' => Late(d)'
    BY <2>1 DEF Live
  <2> QED BY <2>0, <2>2, <2>3 DEF DiskInv
<1> QED BY <1>1, <1>2

\* The two ends of the receiver's fopen, as in OnPostFile
Opened(c, e, me, begin) ==
    /\ Reply(c, e, <<Result("ok", begin)>>, {})
    /\ tr' = [tr EXCEPT ![c][e] = WithTask(me, begin)]
    /\ disk' = <<>>
    /\ Remembers(c, e)
Unopened(c, e, me, begin, removes) ==
    /\ Reply(c, e, <<Result("openfail", begin)>>, {"refused"})
    /\ tr' = [tr EXCEPT ![c][e] = me]
    /\ disk' \in {disk} \cup removes
    /\ UNCHANGED overlap

LEMMA OnPostFileKeeps ==
    ASSUME TransferInv, NEW c \in Calls, NEW e \in Ends, OnPostFile(c, e) PROVE TransferInv'
<1> DEFINE size == Got(c, e).at
           me == IF tr[c][e].duty = "None" THEN WithDuty(tr[c][e], "Recv") ELSE tr[c][e]
<1>1. Receives(c, e, "post") /\ Fixed /\ UNCHANGED report
  BY DEF OnPostFile
<1>2. /\ chan[c][e] # <<>> /\ e \in Receivers /\ size = total
      /\ TypeOK /\ total \in Nat /\ tr[c][e] \in Transfer /\ tr[c][e].task \in -1 .. total
      /\ tr[c][e].duty # "NULL" /\ {} \in SUBSET {"late", "cut", "refused"}
  <2>1. chan[c][e] # <<>> /\ Got(c, e).t = "post" /\ MessageInv(e, Got(c, e))
    BY <1>1, TheMessage
  <2> QED BY <2>1, CallTypes DEF MessageInv
<1>3. me \in Transfer /\ me.duty # "NULL" /\ me.task = tr[c][e].task
  BY <1>2, TransferType DEF Duties
<1>4. report' \in [Calls -> Reports] /\ disk \in Seq(Int) /\ overlap \in BOOLEAN
  BY <1>1, <1>2 DEF TypeOK
\* an answer that does not start the transfer
<1>5. ASSUME NEW code \in {"ok", "exists", "openfail"}, NEW k \in 0 .. total,
             NEW w \in SUBSET {"late", "cut", "refused"}, Reply(c, e, <<Result(code, k)>>, w),
             NEW t \in Transfer, t.duty # "NULL", t.task \in -1 .. total,
             tr' = [tr EXCEPT ![c][e] = t], code = "ok" => t.task = k,
             disk' \in Seq(Int), overlap' \in BOOLEAN, DiskInv'
      PROVE  TransferInv'
  <2>1. PICK reply : reply = <<Result(code, k)>>
    OBVIOUS
  <2>2. PICK result \in Message : result = Result(code, k) /\ result.t = "result"
                                  /\ result.at = k /\ result.code = code
    BY <1>2, <1>5, MessageTypes
  <2>3. Answer(reply) /\ \A a \in Message : reply = <<a>> => a = result
    BY <2>1, <2>2 DEF Answer
  <2>4. Reply(c, e, reply, w)
    BY <1>5, <2>1
  <2>5. \A f \in Reached(c, e) : MessageInv(f, result)
    BY <1>2, <1>5, <2>2, Reaching DEF MessageInv
  <2>6. \A u : OwnTask(result, u)
    BY <2>2 DEF OwnTask
  <2>7. PeerTask(result, t)
    BY <1>5, <2>2 DEF PeerTask
  <2>8. Fits(c, e, reply, t)
    BY <2>2, <2>3, <2>5, <2>6, <2>7 DEF Fits
  <2> QED BY <1>1, <1>2, <1>4, <1>5, <2>3, <2>4, <2>8, AnswerKeeps
<1>6. CASE Refuses(c, e) /\ Reply(c, e, <<>>, {}) /\ UNCHANGED <<disk, tr, overlap>>
  <2>1. tr' = [tr EXCEPT ![c][e] = tr[c][e]] /\ disk' \in Seq(Int) /\ overlap' \in BOOLEAN
    BY <1>2, <1>6 DEF TypeOK
  <2>2. PICK reply : reply = <<>> /\ Answer(reply) /\ Reply(c, e, reply, {})
    BY <1>6 DEF Answer
  <2>3. DiskInv'
    BY <1>1, <1>2, <1>6, <2>1, <2>2, DiskSame
  <2> QED BY <1>1, <1>2, <1>4, <1>6, <2>1, <2>3, SilenceKeeps
<1>7. CASE size \in SizesSeen /\ Reply(c, e, <<Result("exists", size)>>, {})
           /\ tr' = [tr EXCEPT ![c][e] = me] /\ UNCHANGED <<disk, overlap>>
  <2> HIDE DEF me
  <2>1. disk' \in Seq(Int) /\ overlap' \in BOOLEAN
    BY <1>2, <1>7 DEF TypeOK
  <2>2. Reply(c, e, <<Result("exists", total)>>, {}) /\ total \in 0 .. total
    BY <1>2, <1>7
  <2>3. PICK reply : reply = <<Result("exists", total)>> /\ Reply(c, e, reply, {})
    BY <2>2
  <2>4. Answer(reply)
    <3>1. Result("exists", total) \in Message
      BY <1>2, MessageTypes
    <3> QED BY <2>3, <3>1 DEF Answer
  <2>5. DiskInv'
    BY <1>1, <1>2, <1>3, <1>7, <2>3, <2>4, DiskSame
  <2>6. "exists" \in {"ok", "exists", "openfail"} /\ me.task \in -1 .. total
    BY <1>2, <1>3
  <2> QED BY <1>2, <1>3, <1>5, <1>7, <2>1, <2>2, <2>5, <2>6
<1>8. ASSUME ~Refuses(c, e), NEW begin \in 0 .. total, Reply(c, e, <<Result("ok", begin)>>, {}),
             tr' = [tr EXCEPT ![c][e] = WithTask(me, begin)], disk' = <<>>,
             Remembers(c, e)
      PROVE  TransferInv'
  <2> HIDE DEF me
  <2>1. PICK t \in Transfer : t = WithTask(me, begin) /\ t.task = begin /\ t.duty = me.duty
    <3>1. begin \in Int
      BY <1>2
    <3> QED BY <1>3, <3>1, TransferType
  <2>2. tr' = [tr EXCEPT ![c][e] = t] /\ t.task \in Nat /\ t.task \in -1 .. total
    BY <1>2, <1>8, <2>1
  <2>3. disk' \in Seq(Int) /\ overlap' \in BOOLEAN
    <3>1. overlap' \in BOOLEAN
      BY <1>8 DEF Remembers
    <3>2. <<>> \in Seq(Int)
      OBVIOUS
    <3> QED BY <1>8, <3>1, <3>2
  <2>4. DiskInv'
    <3>1. ~overlap' => \A d \in Calls, f \in Receivers :
                           d # c \/ f # e => tr[d][f].task = NoTask
      BY <1>8, Alone
    <3>2. disk' = <<>>
      BY <1>8
    <3>3. Fixed /\ e \in Receivers
      BY <1>1, <1>2
    <3> QED BY <2>2, <3>1, <3>2, <3>3, OpeningKeeps
  <2>5. "ok" \in {"ok", "exists", "openfail"}
    OBVIOUS
  <2> QED BY <1>2, <1>3, <1>5, <1>8, <2>1, <2>2, <2>3, <2>4, <2>5
<1>9. ASSUME ~Refuses(c, e), NEW begin \in 0 .. total,
             Reply(c, e, <<Result("openfail", begin)>>, {"refused"}),
             tr' = [tr EXCEPT ![c][e] = me], UNCHANGED overlap,
             disk' = disk \/ (disk' = <<>> /\ Len(disk) > total)
      PROVE  TransferInv'
  <2> HIDE DEF me
  <2>1. disk' \in Seq(Int) /\ overlap' \in BOOLEAN
    <3>1. <<>> \in Seq(Int)
      OBVIOUS
    <3> QED BY <1>4, <1>9, <3>1
  <2>2. \A d \in Calls, f \in Receivers : tr'[d][f].task = tr[d][f].task
    BY <1>2, <1>3, <1>9, Tasks, SendersReceivers
  <2>3. PICK w \in SUBSET {"late", "cut", "refused"} : w = {"refused"}
    OBVIOUS
  <2>4. PICK reply : reply = <<Result("openfail", begin)>>
    OBVIOUS
  <2>5. Answer(reply) /\ Reply(c, e, reply, w)
    <3>1. Result("openfail", begin) \in Message
      BY <1>2, <1>9, MessageTypes
    <3> QED BY <1>9, <2>3, <2>4, <3>1 DEF Answer
  <2>6. \A d \in Calls : Late(d) => Late(d)'
    BY <1>2, <2>5, ReplyGives
  <2>7. DiskInv'
    BY <1>1, <1>9, <2>2, <2>6, RemovingKeeps
  <2>8. "openfail" \in {"ok", "exists", "openfail"} /\ me.task \in -1 .. total
        /\ Reply(c, e, <<Result("openfail", begin)>>, w)
    BY <1>2, <1>3, <1>9, <2>3
  <2> QED BY <1>3, <1>5, <1>9, <2>1, <2>7, <2>8
<1>10. ASSUME NEW have \in SizesSeen
       PROVE  /\ size > have => have \in 0 .. total
              /\ size < have => Len(disk) > total /\ 0 \in 0 .. total
  <2>1. Len(disk) \in Nat /\ have \in 0 .. Len(disk)
    BY <1>2, SeenSizes DEF TypeOK
  <2> QED BY <1>2, <2>1
<1>11. CASE /\ ~Refuses(c, e)
            /\ \E have \in SizesSeen :
                \/ size > have /\ (Opened(c, e, me, have) \/ Unopened(c, e, me, have, {}))
                \/ size < have /\ (Opened(c, e, me, 0) \/ Unopened(c, e, me, 0, {<<>>}))
  <2> HIDE DEF me, size
  <2>1. PICK have \in SizesSeen :
            \/ size > have /\ (Opened(c, e, me, have) \/ Unopened(c, e, me, have, {}))
            \/ size < have /\ (Opened(c, e, me, 0) \/ Unopened(c, e, me, 0, {<<>>}))
    BY <1>11
  <2>2. ASSUME NEW begin \in 0 .. total, Opened(c, e, me, begin) PROVE TransferInv'
    BY <1>8, <1>11, <2>2 DEF Opened
  <2>3. ASSUME NEW begin \in 0 .. total, Unopened(c, e, me, begin, {}) PROVE TransferInv'
    <3>1. disk' = disk
      BY <2>3 DEF Unopened
    <3>2. /\ Reply(c, e, <<Result("openfail", begin)>>, {"refused"})
          /\ tr' = [tr EXCEPT ![c][e] = me] /\ UNCHANGED overlap
      BY <2>3 DEF Unopened
    <3>3. disk' = disk \/ (disk' = <<>> /\ Len(disk) > total)
      BY <3>1
    <3>4. ~Refuses(c, e)
      BY <1>11
    <3> QED BY <1>9, <2>3, <3>2, <3>3, <3>4
  <2>4. ASSUME Unopened(c, e, me, 0, {<<>>}), Len(disk) > total, 0 \in 0 .. total
        PROVE  TransferInv'
    BY <1>9, <1>11, <2>4 DEF Unopened
  <2> QED BY <1>10, <2>1, <2>2, <2>3, <2>4
<1>12. \/ Refuses(c, e) /\ Reply(c, e, <<>>, {}) /\ UNCHANGED <<disk, tr, overlap>>
       \/ /\ size \in SizesSeen /\ Reply(c, e, <<Result("exists", size)>>, {})
          /\ tr' = [tr EXCEPT ![c][e] = me] /\ UNCHANGED <<disk, overlap>>
       \/ /\ ~Refuses(c, e)
          /\ \E have \in SizesSeen :
                \/ size > have /\ (Opened(c, e, me, have) \/ Unopened(c, e, me, have, {}))
                \/ size < have /\ (Opened(c, e, me, 0) \/ Unopened(c, e, me, 0, {<<>>}))
  BY DEF OnPostFile, Opened, Unopened, Remembers
<1> QED BY <1>6, <1>7, <1>11, <1>12

-----------------------------------------------------------------------------
(* The transfer                                                            *)

\* The sender goes on from where the receiver is.
LEMMA SendKeeps ==
    ASSUME TransferInv, Fixed, NEW c \in Calls, NEW e \in Ends, NEW kind \in {"result", "ack"},
           Receives(c, e, kind), kind = "result" => Got(c, e).code = "ok",
           SendFileData(c, e, Got(c, e).at), UNCHANGED <<disk, overlap>>,
           report' \in [Calls -> Reports]
    PROVE  TransferInv'
<1>1. PICK k : k = Got(c, e).at
  OBVIOUS
<1>2. /\ chan[c][e] # <<>> /\ TypeOK /\ total \in Nat
      /\ k \in 0 .. total /\ e \in Senders /\ e \notin Receivers
  <2>1. chan[c][e] # <<>> /\ Got(c, e).t = kind /\ MessageInv(e, Got(c, e))
    BY TheMessage
  <2>2. TypeOK /\ total \in Nat
    BY CallTypes
  <2> QED BY <1>1, <2>1, <2>2, SendersReceivers DEF MessageInv
<1>3. ~Late(c) /\ ~Outdated(c, e) => \A f \in Reached(c, e) : tr[c][f].task = k
  <2>1. ASSUME ~Late(c), ~Outdated(c, e), NEW f \in Reached(c, e)
        PROVE  PeerTask(Got(c, e), tr[c][f]) /\ Got(c, e).t = kind
    BY <2>1, TheMessage
  <2> QED BY <1>1, <2>1 DEF PeerTask
<1>4. disk' \in Seq(Int) /\ overlap' \in BOOLEAN /\ {} \in SUBSET {"late", "cut", "refused"}
  BY <1>2 DEF TypeOK
<1>5. ASSUME NEW a \in Message, a.t \in {"slice", "check"}, a.at = k,
             a.t = "slice" => k < total, a.t = "check" => k = total,
             NEW t \in Transfer, t.duty = "Send", a.t = "slice" => t.task = k,
             t.task \in -1 .. total,
             NEW reply, reply = <<a>>, Reply(c, e, reply, {}), tr' = [tr EXCEPT ![c][e] = t]
      PROVE  TransferInv'
  <2>1. Answer(reply) /\ \A b \in Message : reply = <<b>> => b = a
    BY <1>5 DEF Answer
  <2>2. DiskInv'
    <3>1. tr' = [tr EXCEPT ![c][e] = t] /\ Reply(c, e, reply, {})
      BY <1>5
    <3> QED BY <1>2, <1>4, <2>1, <3>1, DiskSame
  <2>3. \A f \in Reached(c, e) : MessageInv(f, a)
    <3>1. \A f \in Reached(c, e) : f \in Receivers
      BY <1>2, Reaching
    <3>2. a.t = "slice" => a.at \in 0 .. total - 1
      BY <1>2, <1>5
    <3> QED BY <1>5, <3>1, <3>2 DEF MessageInv
  <2>4. ASSUME ~Late(c), ~Outdated(c, e), NEW f \in Reached(c, e) PROVE OwnTask(a, tr[c][f])
    BY <1>3, <1>5, <2>4 DEF OwnTask
  <2>5. PeerTask(a, t)
    BY <1>2, <1>5 DEF PeerTask, NoTask
  <2>6. t.duty # "NULL" /\ a.t # "status"
    BY <1>5
  <2>7. Fits(c, e, reply, t)
    BY <2>1, <2>3, <2>4, <2>5, <2>6 DEF Fits
  <2> QED BY <1>2, <1>4, <1>5, <2>1, <2>2, <2>6, <2>7, AnswerKeeps
<1>6. CASE k < total
  <2>1. PICK t \in Transfer : t = Sending(k) /\ t.task = k /\ t.duty = "Send"
    BY <1>2, NewTransfers
  <2>2. PICK a \in Message : a = Slice(k) /\ a.t = "slice" /\ a.at = k
    BY <1>2, MessageTypes
  <2>3. PICK reply : reply = <<a>>
    OBVIOUS
  <2>4. tr' = [tr EXCEPT ![c][e] = t] /\ Reply(c, e, reply, {})
    BY <1>1, <1>6, <2>1, <2>2, <2>3 DEF SendFileData
  <2>5. t.task \in -1 .. total
    BY <1>2, <2>1
  <2>6. a.t \in {"slice", "check"} /\ a.t # "check"
    BY <2>2
  <2> QED BY <1>5, <1>6, <2>1, <2>2, <2>3, <2>4, <2>5, <2>6
<1>7. CASE ~(k < total)
  <2>1. PICK t \in Transfer : t = Sending(NoTask) /\ t.task = NoTask /\ t.duty = "Send"
    BY NewTransfers DEF NoTask
  <2>2. PICK a \in Message : a = Check /\ a.t = "check" /\ a.at = total
    BY <1>2, MessageTypes
  <2>3. PICK reply : reply = <<a>>
    OBVIOUS
  <2>4. tr' = [tr EXCEPT ![c][e] = t] /\ Reply(c, e, reply, {})
    BY <1>1, <1>7, <2>1, <2>2, <2>3 DEF SendFileData
  <2>5. k = total /\ t.task \in -1 .. total
    BY <1>2, <1>7, <2>1 DEF NoTask
  <2> QED BY <1>5, <2>1, <2>2, <2>3, <2>4, <2>5
<1> QED BY <1>6, <1>7

LEMMA OnPostFileResultKeeps ==
    ASSUME TransferInv, NEW c \in Calls, NEW e \in Ends, OnPostFileResult(c, e)
    PROVE  TransferInv'
<1> DEFINE ignored == tr[c][e].duty = "Recv" \/ tr[c][e].task # NoTask
           why == IF Got(c, e).code = "ok" THEN {"refused"} ELSE {}
<1>1. Receives(c, e, "result") /\ Fixed /\ UNCHANGED <<disk, overlap>>
  BY DEF OnPostFileResult
<1>2. /\ chan[c][e] # <<>> /\ TypeOK /\ e \in Senders /\ e \notin Receivers
      /\ tr[c][e] \in Transfer /\ tr[c][e].task \in -1 .. total /\ tr[c][e].duty # "NULL"
      /\ total \in Nat /\ {} \in SUBSET {"late", "cut", "refused"}
  <2>1. chan[c][e] # <<>> /\ Got(c, e).t = "result" /\ MessageInv(e, Got(c, e))
    BY <1>1, TheMessage
  <2> QED BY <2>1, CallTypes, SendersReceivers DEF MessageInv
<1>3. disk' \in Seq(Int) /\ overlap' \in BOOLEAN
  BY <1>1, <1>2 DEF TypeOK
<1>4. ASSUME NEW t \in Transfer, t.duty # "NULL", t.task \in -1 .. total,
             tr' = [tr EXCEPT ![c][e] = t], report' \in [Calls -> Reports],
             NEW w \in SUBSET {"late", "cut", "refused"}, Reply(c, e, <<>>, w)
      PROVE  TransferInv'
  <2>1. PICK reply : reply = <<>> /\ Answer(reply) /\ Reply(c, e, reply, w)
    BY <1>4 DEF Answer
  <2>2. DiskInv'
    BY <1>1, <1>2, <1>4, <2>1, DiskSame
  <2> QED BY <1>1, <1>2, <1>3, <1>4, <2>2, SilenceKeeps
<1>5. CASE ignored /\ Reply(c, e, <<>>, {}) /\ UNCHANGED <<tr, report>>
  <2>1. tr' = [tr EXCEPT ![c][e] = tr[c][e]] /\ report' \in [Calls -> Reports]
    BY <1>2, <1>5 DEF TypeOK
  <2> QED BY <1>2, <1>4, <1>5, <2>1
<1>6. CASE Got(c, e).code = "ok" /\ SendFileData(c, e, Got(c, e).at) /\ UNCHANGED report
  <2>1. report' \in [Calls -> Reports]
    BY <1>2, <1>6 DEF TypeOK
  <2> QED BY <1>1, <1>6, <2>1, SendKeeps
<1>7. CASE /\ Reply(c, e, <<>>, why) /\ tr' = [tr EXCEPT ![c][e] = Sending(NoTask)]
           /\ report' = IF Got(c, e).code = "exists" THEN [report EXCEPT ![c] = "exists"]
                        ELSE report
  <2>1. PICK t \in Transfer : t = Sending(NoTask) /\ t.task = NoTask /\ t.duty = "Send"
    BY NewTransfers DEF NoTask
  <2>2. t.task \in -1 .. total /\ why \in SUBSET {"late", "cut", "refused"}
    BY <1>2, <2>1 DEF NoTask
  <2>3. report' \in [Calls -> Reports]
    BY <1>2, <1>7 DEF TypeOK, Reports
  <2>4. tr' = [tr EXCEPT ![c][e] = t]
    BY <1>7, <2>1
  <2> HIDE DEF why
  <2> QED BY <1>4, <1>7, <2>1, <2>2, <2>3, <2>4
<1> QED BY <1>5, <1>6, <1>7 DEF OnPostFileResult

LEMMA OnSlicesResultKeeps ==
    ASSUME TransferInv, NEW c \in Calls, NEW e \in Ends, OnSlicesResult(c, e) PROVE TransferInv'
<1>1. /\ Receives(c, e, "ack") /\ Fixed /\ UNCHANGED <<disk, overlap>>
      /\ SendFileData(c, e, Got(c, e).at)
  BY DEF OnSlicesResult
<1>2. report' \in [Calls -> Reports]
  BY DEF OnSlicesResult, TransferInv, TypeOK
<1> QED BY <1>1, <1>2, SendKeeps

\* A slice is written where the last one ended.
LEMMA OnSlicesKeeps ==
    ASSUME TransferInv, NEW c \in Calls, NEW e \in Ends, OnSlices(c, e) PROVE TransferInv'
<1>1. Receives(c, e, "slice") /\ HasTask(c, e) /\ Fixed /\ UNCHANGED <<report, overlap>>
  BY DEF OnSlices
<1>2. PICK k : k = Got(c, e).at
  OBVIOUS
<1>3. /\ chan[c][e] # <<>> /\ TypeOK /\ total \in Nat /\ e \in Receivers /\ k \in 0 .. total - 1
      /\ tr[c][e] \in Transfer /\ tr[c][e].duty # "NULL"
      /\ {} \in SUBSET {"late", "cut", "refused"} /\ k \in Nat /\ Receivers \subseteq Ends
  <2>1. chan[c][e] # <<>> /\ Got(c, e).t = "slice" /\ MessageInv(e, Got(c, e))
    BY <1>1, TheMessage
  <2>2. TypeOK /\ total \in Nat /\ tr[c][e] \in Transfer /\ tr[c][e].duty # "NULL"
    BY <2>1, CallTypes
  <2> QED BY <1>2, <2>1, <2>2, SendersReceivers DEF MessageInv
<1>4. ~Late(c) => tr[c][e].task = k
  BY <1>1, <1>2, TheMessage DEF OwnTask
<1>5. ~Late(c) /\ ~Outdated(c, e) => \A f \in Reached(c, e) : tr[c][f].task # NoTask
  <2>1. ASSUME ~Late(c), ~Outdated(c, e), NEW f \in Reached(c, e)
        PROVE  PeerTask(Got(c, e), tr[c][f]) /\ Got(c, e).t = "slice"
    BY <1>1, <2>1, TheMessage
  <2> QED BY <2>1 DEF PeerTask
<1>6. /\ disk' = WriteSlice(disk, k + 1) /\ Reply(c, e, <<Ack(k + 1)>>, {})
      /\ tr' = [tr EXCEPT ![c][e] = WithTask(tr[c][e], k + 1)]
  BY <1>2, <1>3 DEF OnSlices, TypeOK
<1>7. PICK t \in Transfer : t = WithTask(tr[c][e], k + 1) /\ t.task = k + 1 /\ t.duty = tr[c][e].duty
  BY <1>3, TransferType
<1>8. PICK a \in Message : a = Ack(k + 1) /\ a.t = "ack" /\ a.at = k + 1
  BY <1>3, MessageTypes
<1>9. PICK reply : reply = <<a>>
  OBVIOUS
<1>10. tr' = [tr EXCEPT ![c][e] = t] /\ Reply(c, e, reply, {})
  BY <1>6, <1>7, <1>8, <1>9
<1>11. Answer(reply) /\ \A b \in Message : reply = <<b>> => b = a
  BY <1>9 DEF Answer
<1>12. /\ disk' \in Seq(Int) /\ overlap' \in BOOLEAN /\ report' \in [Calls -> Reports]
       /\ disk \in Seq(Int)
  <2>1. disk \in Seq(Int) /\ k + 1 \in Nat \ {0}
    BY <1>3 DEF TypeOK
  <2> QED BY <1>1, <1>3, <1>6, <2>1, WriteSliceLength DEF TypeOK
<1>13. DiskInv'
  <2> SUFFICES ASSUME ~overlap' PROVE DiskInv'
    BY DEF DiskInv
  <2>1. DiskInv /\ ~overlap /\ Receivers' = Receivers
    BY <1>1 DEF TransferInv, Fixed, Receivers
  <2>2. /\ tr'[c][e] = t
        /\ \A d \in Calls, f \in Receivers : d # c \/ f # e => tr'[d][f] = tr[d][f]
    <3>0. tr \in [Calls -> [Ends -> Transfer]] /\ tr' = [tr EXCEPT ![c][e] = t]
      BY <1>3, <1>10 DEF TypeOK
    <3>1. ASSUME NEW d \in Calls, NEW f \in Ends, d # c \/ f # e PROVE tr'[d][f] = tr[d][f]
      BY <3>0, <3>1
    <3>2. tr'[c][e] = t
      BY <3>0
    <3> QED BY <1>3, <3>1, <3>2
  <2>3. ASSUME NEW d \in Calls, NEW f \in Receivers, Live(d, f) PROVE d = c /\ f = e
    <3>1. <<d, f>> \in Calls \X Receivers /\ <<c, e>> \in Calls \X Receivers
      BY <1>3
    <3>2. Live(c, e)
      BY <1>1 DEF HasTask, Live
    <3>3. <<d, f>> = <<c, e>>
      BY <2>1, <2>3, <3>1, <3>2 DEF DiskInv
    <3> QED BY <3>3
  <2>4. \A d \in Calls, f \in Receivers : Live(d, f)' => d = c /\ f = e
    BY <2>2, <2>3 DEF Live
  <2>5. ASSUME NEW x \in Calls \X Receivers, NEW y \in Calls \X Receivers,
               Live(x[1], x[2])', Live(y[1], y[2])'
        PROVE  x = y
    <3>1. \A d \in Calls, f \in Receivers : tr'[d][f].task # NoTask => d = c /\ f = e
      BY <2>4 DEF Live
    <3>2. \A z \in Calls \X Receivers :
             tr'[z[1]][z[2]].task # NoTask => z = <<c, e>>
      BY <3>1
    <3> QED BY <2>5, <3>2 DEF Live
  <2>6. ~Late(c)' => Written(disk', k + 1)
    <3>1. ~Late(c)' => ~Late(c)
      BY <1>3, <1>10, <1>11, ReplyGives
    <3>2. ~Late(c) => Written(disk, k)
      BY <1>1, <1>3, <1>4, <2>1 DEF DiskInv, HasTask, Live
    <3> QED BY <1>3, <1>6, <1>12, <3>1, <3>2, NextSlice
  <2>7. ASSUME NEW d \in Calls, NEW f \in Receivers, Live(d, f)', ~Late(d)'
        PROVE  Written(disk, tr[d][f].task)'
    <3>1. d = c /\ f = e /\ tr'[d][f].task = k + 1
      BY <1>7, <2>2, <2>4, <2>7
    <3> QED BY <2>6, <2>7, <3>1 DEF Written
  <2> QED BY <2>1, <2>5, <2>7 DEF DiskInv
<1>14. \A f \in Reached(c, e) : MessageInv(f, a)
  <2>1. \A f \in Reached(c, e) : f \in Senders
    BY <1>3, Reaching
  <2>2. a.at \in 0 .. total
    BY <1>3, <1>8
  <2> QED BY <1>8, <2>1, <2>2 DEF MessageInv
<1>15. ~Late(c) /\ ~Outdated(c, e) => \A f \in Reached(c, e) : OwnTask(a, tr[c][f])
  BY <1>5, <1>8 DEF OwnTask
<1>16. PeerTask(a, t)
  BY <1>7, <1>8 DEF PeerTask
<1>17. Fits(c, e, reply, t)
  BY <1>8, <1>11, <1>14, <1>15, <1>16 DEF Fits
<1>18. t.duty # "NULL" /\ t.task \in -1 .. total /\ e \in Ends
  BY <1>3, <1>7
<1> QED BY <1>1, <1>3, <1>10, <1>11, <1>12, <1>13, <1>17, <1>18, AnswerKeeps

LEMMA OnCheckKeeps ==
    ASSUME TransferInv, NEW c \in Calls, NEW e \in Ends, OnCheck(c, e) PROVE TransferInv'
<1>1. /\ Receives(c, e, "check") /\ Fixed /\ Reply(c, e, <<>>, {})
      /\ UNCHANGED <<disk, overlap>>
  BY DEF OnCheck
<1>2. /\ chan[c][e] # <<>> /\ TypeOK /\ tr[c][e] \in Transfer /\ tr[c][e].duty # "NULL"
      /\ total \in Nat /\ {} \in SUBSET {"late", "cut", "refused"}
  <2>1. chan[c][e] # <<>> /\ Got(c, e).t = "check"
    BY <1>1, TheMessage
  <2> QED BY <2>1, CallTypes
<1>3. disk' \in Seq(Int) /\ overlap' \in BOOLEAN /\ report' \in [Calls -> Reports]
  BY <1>1, <1>2 DEF OnCheck, TypeOK, Reports
<1>4. PICK t \in Transfer : t = WithTask(tr[c][e], NoTask) /\ t.task = NoTask
                            /\ t.duty = tr[c][e].duty
  BY <1>2, TransferType DEF NoTask
<1>5. tr' = [tr EXCEPT ![c][e] = t]
  BY <1>2, <1>4 DEF OnCheck, TypeOK
<1>6. PICK reply : reply = <<>> /\ Answer(reply) /\ Reply(c, e, reply, {})
  BY <1>1 DEF Answer
<1>7. DiskInv'
  BY <1>1, <1>2, <1>4, <1>5, <1>6, DiskSame
<1>8. t.task \in -1 .. total /\ t.duty # "NULL"
  BY <1>2, <1>4 DEF NoTask
<1> QED BY <1>1, <1>2, <1>3, <1>5, <1>7, <1>8, SilenceKeeps

-----------------------------------------------------------------------------
(* Connections                                                             *)

LEMMA Initial == Init => TransferInv
<1> SUFFICES ASSUME Init PROVE TransferInv
  OBVIOUS
<1>1. disk \in Seq(Int)
  <2>1. disk \in Seq({Other}) /\ {Other} \subseteq Int
    BY TransferAssumption DEF Init, Other
  <2> QED BY <2>1
<1>2. total \in Nat /\ telling \subseteq 1 .. total
  BY TransferAssumption DEF Init, Looked
<1>3. tr \in [Calls -> [Ends -> Transfer]] /\ \A c \in Calls, e \in Ends : tr[c][e] = Unmade
  BY NewTransfers DEF Init
<1>4. /\ chan \in [Calls -> [Ends -> Seq(Message)]]
      /\ \A c \in Calls, e \in Ends : chan[c][e] = <<>> /\ DOMAIN chan[c][e] = {}
  BY DEF Init
<1>5. links \in [Calls -> 0 .. MaxDrops + 1] /\ \A c \in Calls : conn[c] = "none"
  BY TransferAssumption DEF Init
<1>6. TypeOK
  BY <1>1, <1>2, <1>3, <1>4, <1>5 DEF Init, TypeOK, Reports
<1>7. ASSUME NEW c \in Calls PROVE SideInv(c) /\ QueueInv(c)
  <2>1. \A e \in Ends : tr[c][e].task = NoTask /\ NoTask \in -1 .. total
    BY <1>2, <1>3, NewTransfers DEF NoTask
  <2>2. SideInv(c)
    BY <1>4, <2>1, EndTypes DEF SideInv, Init
  <2>3. \A k \in Links : chan[c][k] = <<>> /\ Len(chan[c][k]) <= 1
    <3>1. Len(<<>>) <= 1
      OBVIOUS
    <3> QED BY <1>4, <3>1, EndTypes
  <2>4. chan[c][Client] = <<>> /\ DOMAIN chan[c][Client] = {} /\ ~\E k \in Links : Current(c, k)
    BY <1>4, <1>5, EndTypes DEF Current
  <2> QED BY <1>4, <2>2, <2>3, <2>4 DEF QueueInv
<1>8. DiskInv
  <2>1. \A c \in Calls, e \in Ends : ~Live(c, e)
    BY <1>3, NewTransfers DEF Live
  <2>2. Receivers \subseteq Ends
    BY <1>6, SendersReceivers
  <2>3. \A x \in Calls \X Receivers : ~Live(x[1], x[2])
    BY <2>1, <2>2
  <2> QED BY <2>1, <2>2, <2>3 DEF DiskInv
<1> QED BY <1>6, <1>7, <1>8 DEF TransferInv

\* A step in which nothing is said or written
LEMMA QuietKeeps ==
    ASSUME TransferInv,
           UNCHANGED <<way, total, telling, disk, links, open, tr, chan, report, marks, overlap>>,
           conn' \in [Calls -> {"none", "connecting", "up", "down"}],
           \A d \in Calls, k \in Links : Current(d, k)' => Current(d, k)
    PROVE  TransferInv'
<1>1. TypeOK'
  BY DEF TransferInv, TypeOK
<1>2. \A e \in Ends : \A m : MessageInv(e, m)' <=> MessageInv(e, m)
  BY DEF MessageInv, Senders, Receivers
<1>3. ASSUME NEW d \in Calls PROVE SideInv(d)'
  BY <1>2 DEF TransferInv, SideInv
<1>4. ASSUME NEW d \in Calls, ~Late(d)' PROVE QueueInv(d)'
  <2>1. QueueInv(d)
    BY <1>4 DEF TransferInv, Late
  <2> QED BY <2>1 DEF QueueInv
<1>5. DiskInv'
  BY DEF TransferInv, DiskInv, Receivers, Live, Late, Written
<1> QED BY <1>1, <1>3, <1>4, <1>5 DEF TransferInv

LEMMA RequestKeeps == ASSUME TransferInv, NEW c \in Calls, Request(c) PROVE TransferInv'
<1>1. /\ UNCHANGED <<way, total, telling, disk, links, open, tr, chan, report, marks, overlap>>
      /\ conn' = [conn EXCEPT ![c] = "connecting"]
  BY DEF Request
<1>2. conn \in [Calls -> {"none", "connecting", "up", "down"}]
  BY DEF TransferInv, TypeOK
<1>3. conn' \in [Calls -> {"none", "connecting", "up", "down"}]
  BY <1>1, <1>2
<1>4. \A d \in Calls, k \in Links : Current(d, k)' => Current(d, k)
  BY <1>1, <1>2 DEF Current
<1> QED BY <1>1, <1>3, <1>4, QuietKeeps

\* What a connect callback that is queued leaves of the client's queue
LEMMA StatusGives ==
    ASSUME TypeOK, NEW c \in Calls, chan' = [chan EXCEPT ![c][Client] = Append(@, Status)]
    PROVE  /\ chan' \in [Calls -> [Ends -> Seq(Message)]]
           /\ \A d \in Calls \ {c} : chan'[d] = chan[d]
           /\ \A k \in Links : chan'[c][k] = chan[c][k]
           /\ chan'[c][Client] # <<>> /\ DOMAIN chan'[c][Client] = 1 .. Len(chan[c][Client]) + 1
           /\ Len(chan[c][Client]) \in Nat /\ Len(chan'[c][Client]) = Len(chan[c][Client]) + 1
           /\ \A i \in DOMAIN chan'[c][Client] :
                 \/ chan'[c][Client][i].t = "status"
                 \/ i \in DOMAIN chan[c][Client] /\ chan'[c][Client][i] = chan[c][Client][i]
           /\ \/ Head(chan'[c][Client]).t = "status"
              \/ /\ chan[c][Client] # <<>> /\ Head(chan'[c][Client]) = Head(chan[c][Client])
                 /\ Len(chan'[c][Client]) # 1
<1>0. PICK q \in Seq(Message) : q = chan[c][Client]
  BY EndTypes DEF TypeOK
<1>1. PICK s \in Message : s = Status /\ s.t = "status"
  BY MessageTypes DEF TypeOK
<1>2. PICK r \in Seq(Message) : /\ r = Append(q, s) /\ Len(r) = Len(q) + 1
                               /\ \A i \in DOMAIN r : r[i] = IF i <= Len(q) THEN q[i] ELSE s
  BY AppendGives
<1>3. chan' = [chan EXCEPT ![c][Client] = r]
  BY <1>0, <1>1, <1>2
<1>4. /\ chan' \in [Calls -> [Ends -> Seq(Message)]] /\ chan'[c][Client] = r
      /\ \A d \in Calls \ {c} : chan'[d] = chan[d]
      /\ \A k \in Links : chan'[c][k] = chan[c][k]
  BY <1>2, <1>3, EndTypes DEF TypeOK
<1>5. r # <<>> /\ DOMAIN r = 1 .. Len(q) + 1 /\ Len(q) \in Nat /\ Head(r) = r[1]
  BY <1>2
<1>6. \A i \in DOMAIN r : r[i].t = "status" \/ (i \in DOMAIN q /\ r[i] = q[i])
  BY <1>1, <1>2, <1>5
<1>7. Head(r).t = "status" \/ (q # <<>> /\ Head(r) = Head(q) /\ Len(r) # 1)
  <2>1. CASE q = <<>>
    BY <1>1, <1>2, <1>5, <2>1
  <2>2. CASE q # <<>>
    <3>1. Head(q) = q[1] /\ Len(q) \in Nat \ {0}
      BY <2>2
    <3> QED BY <1>2, <1>5, <2>2, <3>1
  <2> QED BY <2>1, <2>2
<1> QED BY <1>0, <1>2, <1>4, <1>5, <1>6, <1>7

\* ... which says nothing of the tasks
LEMMA StatusFits ==
    \A m, t : m.t = "status" => OwnTask(m, t) /\ PeerTask(m, t) /\ MessageInv(Client, m)
BY DEF OwnTask, PeerTask, MessageInv

LEMMA ConnectFailedKeeps ==
    ASSUME TransferInv, NEW c \in Calls, ConnectFailed(c) PROVE TransferInv'
<1>0. TypeOK /\ UNCHANGED <<way, total, telling, disk, links, open, tr, report, marks, overlap>>
      /\ Receivers' = Receivers
  BY DEF TransferInv, ConnectFailed, Receivers
<1>1. /\ chan' \in [Calls -> [Ends -> Seq(Message)]]
      /\ \A d \in Calls \ {c} : chan'[d] = chan[d]
      /\ \A k \in Links : chan'[c][k] = chan[c][k]
      /\ chan'[c][Client] # <<>> /\ DOMAIN chan'[c][Client] = 1 .. Len(chan[c][Client]) + 1
      /\ \A i \in DOMAIN chan'[c][Client] :
            \/ chan'[c][Client][i].t = "status"
            \/ i \in DOMAIN chan[c][Client] /\ chan'[c][Client][i] = chan[c][Client][i]
      /\ \/ Head(chan'[c][Client]).t = "status"
         \/ /\ chan[c][Client] # <<>> /\ Head(chan'[c][Client]) = Head(chan[c][Client])
            /\ Len(chan'[c][Client]) # 1
  BY <1>0, StatusGives DEF ConnectFailed
<1>2. /\ conn' \in [Calls -> {"none", "connecting", "up", "down"}]
      /\ ~\E k \in Links : Current(c, k)'
      /\ \A d \in Calls \ {c} : conn'[d] = conn[d]
  BY <1>0 DEF ConnectFailed, TypeOK, Current
<1>3. TypeOK'
  BY <1>0, <1>1, <1>2 DEF TypeOK
<1>4. \A d \in Calls \ {c} : Undisturbed(d)
  BY <1>0, <1>1, <1>2 DEF Undisturbed
<1>5. \A d \in Calls : Late(d) => Late(d)'
  BY <1>0 DEF Late
<1>6. SideInv(c)'
  <2>0. SideInv(c)
    BY DEF TransferInv
  <2>1. ASSUME NEW e \in Ends, NEW i \in DOMAIN chan'[c][e] PROVE MessageInv(e, chan'[c][e][i])
    BY <1>1, <2>0, <2>1, StatusFits, EndTypes DEF SideInv
  <2>2. \A e \in Ends : \A i \in DOMAIN chan'[c][e] : MessageInv(e, chan[c][e][i])'
    BY <1>0, <2>1 DEF MessageInv, Senders, Receivers
  <2>3. tr[c][Client].duty = "NULL" =>
            /\ \A k \in Links : chan'[c][k] = <<>>
            /\ \A i \in DOMAIN chan'[c][Client] : chan'[c][Client][i].t = "status"
    BY <1>0, <1>1, <2>0 DEF SideInv
  <2>4. /\ \A k \in Links : chan'[c][k] # <<>> \/ <<c, k>> \in open' => tr'[c][k].duty # "NULL"
        /\ \A k \in Links : k > links'[c] => chan'[c][k] = <<>> /\ tr'[c][k].task = NoTask
    BY <1>0, <1>1, <2>0 DEF SideInv
  <2> QED BY <1>0, <2>0, <2>2, <2>3, <2>4 DEF SideInv
<1>7. ASSUME ~Late(c)' PROVE QueueInv(c)'
  <2>0. QueueInv(c)
    BY <1>0, <1>7 DEF TransferInv, Late
  <2>1. \A e \in Ends : chan'[c][e] # <<>> => OwnTask(Head(chan'[c][e]), tr[c][e])
    BY <1>1, <2>0, StatusFits, EndTypes DEF QueueInv
  <2> QED BY <1>0, <1>1, <1>2, <2>0, <2>1 DEF QueueInv
<1>8. DiskInv'
  <2>1. \A d \in Calls, e \in Receivers : tr'[d][e].task \in {tr[d][e].task, NoTask}
    BY <1>0
  <2> QED BY <1>0, <1>5, <2>1, DiskKeeps
<1> QED BY <1>0, <1>3, <1>4, <1>5, <1>6, <1>7, <1>8, StepKeeps

\* A new connection ends at the server in an object that has no task yet.
LEMMA ConnectedKeeps == ASSUME TransferInv, NEW c \in Calls, Connected(c) PROVE TransferInv'
<1> DEFINE n == links[c] + 1
<1>0. /\ TypeOK /\ UNCHANGED <<way, total, telling, disk, report, marks, overlap>>
      /\ Receivers' = Receivers /\ SideInv(c) /\ links[c] \in Nat /\ n \in Links /\ n \in Ends
      /\ n # Client /\ total \in Nat
  <2>1. TypeOK /\ UNCHANGED <<way, total, telling, disk, report, marks, overlap>> /\ SideInv(c)
        /\ Receivers' = Receivers
    BY DEF TransferInv, Connected, Receivers
  <2>2. links[c] \in 0 .. MaxDrops + 1 /\ links[c] < MaxDrops + 1 /\ total \in Nat
    BY <2>1 DEF TypeOK, Connected
  <2>3. n \in Links
    BY <2>2, TransferAssumption DEF Links
  <2> QED BY <2>1, <2>2, <2>3, EndTypes
<1>1. /\ chan' \in [Calls -> [Ends -> Seq(Message)]]
      /\ \A d \in Calls \ {c} : chan'[d] = chan[d]
      /\ \A k \in Links : chan'[c][k] = chan[c][k]
      /\ chan'[c][Client] # <<>> /\ DOMAIN chan'[c][Client] = 1 .. Len(chan[c][Client]) + 1
      /\ \A i \in DOMAIN chan'[c][Client] :
            \/ chan'[c][Client][i].t = "status"
            \/ i \in DOMAIN chan[c][Client] /\ chan'[c][Client][i] = chan[c][Client][i]
      /\ \/ Head(chan'[c][Client]).t = "status"
         \/ /\ chan[c][Client] # <<>> /\ Head(chan'[c][Client]) = Head(chan[c][Client])
            /\ Len(chan'[c][Client]) # 1
  BY <1>0, StatusGives DEF Connected
<1>2. /\ conn' \in [Calls -> {"none", "connecting", "up", "down"}]
      /\ \A d \in Calls \ {c} : conn'[d] = conn[d]
  BY <1>0 DEF Connected, TypeOK
<1>3. /\ links' \in [Calls -> 0 .. MaxDrops + 1] /\ links'[c] = n
      /\ \A d \in Calls \ {c} : links'[d] = links[d]
  <2>1. n \in 0 .. MaxDrops + 1
    BY <1>0 DEF Links
  <2> QED BY <1>0, <2>1 DEF Connected, TypeOK
<1>4. /\ open' \subseteq Calls \X Links
      /\ \A d \in Calls, k \in Links : <<d, k>> \in open' <=> <<d, k>> \in open \/ (d = c /\ k = n)
  BY <1>0 DEF Connected, TypeOK
<1>5. /\ tr' \in [Calls -> [Ends -> Transfer]] /\ tr'[c][n] = NoTransfer
      /\ \A d \in Calls \ {c} : tr'[d] = tr[d]
      /\ \A e \in Ends \ {n} : tr'[c][e] = tr[c][e]
  <2>1. PICK t \in Transfer : t = NoTransfer
    BY NewTransfers
  <2>2. tr' = [tr EXCEPT ![c][n] = t] /\ tr \in [Calls -> [Ends -> Transfer]]
    BY <1>0, <2>1 DEF Connected, TypeOK
  <2> HIDE DEF n
  <2> QED BY <1>0, <2>1, <2>2
<1>6. TypeOK'
  BY <1>0, <1>1, <1>2, <1>3, <1>4, <1>5 DEF TypeOK
<1>7. \A d \in Calls \ {c} : Undisturbed(d)
  BY <1>1, <1>2, <1>3, <1>4, <1>5 DEF Undisturbed
<1>8. \A d \in Calls : Late(d) => Late(d)'
  BY <1>0 DEF Late
<1>9. chan[c][n] = <<>> /\ tr[c][n].task = NoTask /\ tr'[c][n].task = NoTask
      /\ tr'[c][n].duty # "NULL"
  BY <1>0, <1>5, NewTransfers DEF SideInv
<1>10. SideInv(c)'
  <2>1. ASSUME NEW e \in Ends, NEW i \in DOMAIN chan'[c][e] PROVE MessageInv(e, chan'[c][e][i])
    BY <1>0, <1>1, <2>1, StatusFits, EndTypes DEF SideInv
  <2>2. \A e \in Ends : \A i \in DOMAIN chan'[c][e] : MessageInv(e, chan[c][e][i])'
    BY <1>0, <2>1 DEF MessageInv, Senders, Receivers
  <2>3. \A k \in Links : <<c, k>> \in open' => k <= links'[c]
    <3>1. \A k \in Links : k \in Int /\ (k <= links[c] \/ k = n => k <= n)
      BY <1>0, EndTypes
    <3> QED BY <1>0, <1>3, <1>4, <3>1 DEF SideInv
  <2>4. \A k \in Links : k > links'[c] => chan'[c][k] = <<>> /\ tr'[c][k].task = NoTask
    <3>1. \A k \in Links : k > n => k > links[c] /\ k # n
      BY <1>0, EndTypes
    <3>2. \A k \in Links : k > links[c] /\ k # n => tr'[c][k] = tr[c][k]
      BY <1>5, EndTypes
    <3>3. \A k \in Links : k > links[c] => chan'[c][k] = <<>> /\ tr[c][k].task = NoTask
      BY <1>0, <1>1 DEF SideInv
    <3> QED BY <1>3, <3>1, <3>2, <3>3
  <2>5. \A k \in Links : chan'[c][k] # <<>> \/ <<c, k>> \in open' => tr'[c][k].duty # "NULL"
    BY <1>0, <1>1, <1>4, <1>5, <1>9, EndTypes DEF SideInv
  <2>6. \A e \in Ends : tr'[c][e].task \in -1 .. total
    BY <1>0, <1>5, <1>9 DEF SideInv, NoTask
  <2>7. tr'[c][Client] = tr[c][Client]
    BY <1>0, <1>5, EndTypes
  <2>8. tr[c][Client].duty = "NULL" =>
            /\ \A k \in Links : chan'[c][k] = <<>>
            /\ \A i \in DOMAIN chan'[c][Client] : chan'[c][Client][i].t = "status"
    BY <1>0, <1>1 DEF SideInv
  <2> QED BY <1>0, <2>2, <2>3, <2>4, <2>5, <2>6, <2>7, <2>8 DEF SideInv
<1>11. ASSUME ~Late(c)' PROVE QueueInv(c)'
  <2>0. QueueInv(c)
    BY <1>0, <1>11 DEF TransferInv, Late
  <2>1. \A e \in Ends : chan'[c][e] # <<>> => OwnTask(Head(chan'[c][e]), tr'[c][e])
    BY <1>0, <1>1, <1>5, <1>9, <2>0, StatusFits, EndTypes DEF QueueInv
  <2>2. \A k \in Links : Current(c, k)' => k = n
    BY <1>3 DEF Current
  <2>3. /\ chan'[c][n] = <<>>
        /\ Len(chan'[c][Client]) = 1 => PeerTask(Head(chan'[c][Client]), tr'[c][n])
    BY <1>0, <1>1, <1>9, StatusFits
  <2> HIDE DEF n
  <2> QED BY <1>0, <1>1, <2>0, <2>1, <2>2, <2>3 DEF QueueInv
<1>12. DiskInv'
  <2>1. \A d \in Calls, e \in Receivers : tr'[d][e].task \in {tr[d][e].task, NoTask}
    BY <1>0, <1>5, <1>9, SendersReceivers
  <2> QED BY <1>0, <1>8, <2>1, DiskKeeps
<1> QED BY <1>0, <1>6, <1>7, <1>8, <1>10, <1>11, <1>12, StepKeeps

LEMMA ClosesGives ==
    ASSUME TypeOK, NEW c \in Calls, NEW e \in Ends, Closes(c, e)
    PROVE  /\ chan' \in [Calls -> [Ends -> Seq(Message)]]
           /\ \A d \in Calls \ {c} : chan'[d] = chan[d]
           /\ \A x \in Ends \ {e} : chan'[c][x] = chan[c][x]
           /\ \A i \in DOMAIN chan'[c][e] :
                 i \in DOMAIN chan[c][e] /\ chan'[c][e][i] = chan[c][e][i]
           /\ Len(chan[c][e]) <= 1 => Len(chan'[c][e]) <= 1
           /\ chan'[c][e] # <<>> => chan[c][e] # <<>> /\ Head(chan'[c][e]) = Head(chan[c][e])
<1>1. PICK q \in Seq(Message) : q = chan[c][e]
  BY DEF TypeOK
<1>2. PICK n \in 0 .. Len(q) : chan' = [chan EXCEPT ![c][e] = SubSeq(q, 1, n)]
  BY <1>1 DEF Closes
<1>3. PICK r \in Seq(Message) : /\ r = SubSeq(q, 1, n) /\ Len(r) = n
                               /\ \A i \in DOMAIN r : i \in DOMAIN q /\ r[i] = q[i]
  BY PrefixGives
<1>4. chan' = [chan EXCEPT ![c][e] = r]
  BY <1>2, <1>3
<1>5. /\ chan' \in [Calls -> [Ends -> Seq(Message)]] /\ chan'[c][e] = r
      /\ \A d \in Calls \ {c} : chan'[d] = chan[d]
      /\ \A x \in Ends \ {e} : chan'[c][x] = chan[c][x]
  BY <1>3, <1>4 DEF TypeOK
<1>6. r # <<>> => q # <<>> /\ Head(r) = Head(q)
  <2>1. ASSUME r # <<>> PROVE q # <<>> /\ Head(r) = Head(q)
    <3>1. 1 \in DOMAIN r /\ Head(r) = r[1]
      BY <2>1, NonEmpty
    <3>2. 1 \in DOMAIN q /\ r[1] = q[1]
      BY <1>3, <3>1
    <3>3. q # <<>>
      BY <3>2
    <3> QED BY <3>1, <3>2, <3>3, NonEmpty
  <2> QED BY <2>1
<1>7. Len(q) <= 1 => Len(r) <= 1
  <2>1. Len(q) \in Nat /\ n \in Nat /\ n <= Len(q) /\ Len(r) = n
    BY <1>3
  <2> QED BY <2>1
<1> QED BY <1>1, <1>3, <1>5, <1>6, <1>7

\* An end that closes takes messages away from the call, not the tasks.
LEMMA ClosingKeeps ==
    ASSUME TransferInv, NEW c \in Calls, NEW e \in Ends, Closes(c, e),
           UNCHANGED <<way, total, telling, disk, links, tr, report, marks, overlap>>,
           conn' \in [Calls -> {"none", "connecting", "up", "down"}],
           \A d \in Calls \ {c} : conn'[d] = conn[d], open' \subseteq open,
           \A d \in Calls \ {c}, k \in Links : <<d, k>> \in open' <=> <<d, k>> \in open,
           \A k \in Links : Current(c, k)' => Current(c, k),
           \A k \in Links : Current(c, k)' /\ <<c, k>> \in open' => e # k /\ e # Client
    PROVE  TransferInv'
<1>0. TypeOK /\ Receivers' = Receivers /\ SideInv(c)
  BY DEF TransferInv, Receivers
<1>1. /\ chan' \in [Calls -> [Ends -> Seq(Message)]]
      /\ \A d \in Calls \ {c} : chan'[d] = chan[d]
      /\ \A x \in Ends \ {e} : chan'[c][x] = chan[c][x]
      /\ \A i \in DOMAIN chan'[c][e] :
            i \in DOMAIN chan[c][e] /\ chan'[c][e][i] = chan[c][e][i]
      /\ Len(chan[c][e]) <= 1 => Len(chan'[c][e]) <= 1
      /\ chan'[c][e] # <<>> => chan[c][e] # <<>> /\ Head(chan'[c][e]) = Head(chan[c][e])
  BY <1>0, ClosesGives
<1>2. TypeOK'
  BY <1>0, <1>1 DEF TypeOK
<1>3. \A d \in Calls \ {c} : Undisturbed(d)
  BY <1>1 DEF Undisturbed
<1>4. \A d \in Calls : Late(d) => Late(d)'
  BY DEF Late
<1>5. ASSUME NEW x \in Ends
      PROVE  /\ \A i \in DOMAIN chan'[c][x] :
                    i \in DOMAIN chan[c][x] /\ chan'[c][x][i] = chan[c][x][i]
             /\ chan'[c][x] # <<>> => chan[c][x] # <<>> /\ Head(chan'[c][x]) = Head(chan[c][x])
             /\ Len(chan[c][x]) <= 1 => Len(chan'[c][x]) <= 1
  BY <1>1
<1>6. SideInv(c)'
  <2>1. ASSUME NEW x \in Ends, NEW i \in DOMAIN chan'[c][x] PROVE MessageInv(x, chan'[c][x][i])
    BY <1>0, <1>5, <2>1 DEF SideInv
  <2>2. \A x \in Ends : \A i \in DOMAIN chan'[c][x] : MessageInv(x, chan[c][x][i])'
    BY <2>1 DEF MessageInv, Senders, Receivers
  <2>3. \A k \in Links : <<c, k>> \in open' => k <= links[c]
    BY <1>0 DEF SideInv
  <2>4. \A k \in Links : k > links[c] => chan'[c][k] = <<>> /\ tr[c][k].task = NoTask
    BY <1>0, <1>5, EndTypes DEF SideInv
  <2>5. \A k \in Links : chan'[c][k] # <<>> \/ <<c, k>> \in open' => tr[c][k].duty # "NULL"
    BY <1>0, <1>5, EndTypes DEF SideInv
  <2>6. tr[c][Client].duty = "NULL" =>
            /\ \A k \in Links : chan'[c][k] = <<>>
            /\ \A i \in DOMAIN chan'[c][Client] : chan'[c][Client][i].t = "status"
    BY <1>0, <1>5, EndTypes DEF SideInv
  <2> QED BY <1>0, <2>2, <2>3, <2>4, <2>5, <2>6 DEF SideInv
<1>7. ASSUME ~Late(c)' PROVE QueueInv(c)'
  <2>0. QueueInv(c)
    BY <1>7 DEF TransferInv, Late
  <2>1. \A k \in Links : Len(chan'[c][k]) <= 1
    BY <1>5, <2>0, EndTypes DEF QueueInv
  <2>2. \A i \in DOMAIN chan'[c][Client] : i > 1 => chan'[c][Client][i].t = "status"
    BY <1>5, <2>0, EndTypes DEF QueueInv
  <2>3. \A k \in Links : Current(c, k)' /\ chan'[c][k] # <<>> => chan'[c][Client] = <<>>
    BY <1>5, <2>0, EndTypes DEF QueueInv
  <2>4. \A x \in Ends : chan'[c][x] # <<>> => OwnTask(Head(chan'[c][x]), tr[c][x])
    BY <1>5, <2>0 DEF QueueInv
  <2>5. ASSUME NEW k \in Links, Current(c, k)', <<c, k>> \in open'
        PROVE  /\ chan'[c][k] # <<>> => PeerTask(Head(chan'[c][k]), tr[c][Client])
               /\ Len(chan'[c][Client]) = 1 => PeerTask(Head(chan'[c][Client]), tr[c][k])
    <3>1. chan'[c][k] = chan[c][k] /\ chan'[c][Client] = chan[c][Client]
      BY <1>1, <2>5, EndTypes
    <3>2. Current(c, k) /\ <<c, k>> \in open
      BY <2>5
    <3> QED BY <2>0, <3>1, <3>2 DEF QueueInv
  <2> QED BY <2>1, <2>2, <2>3, <2>4, <2>5 DEF QueueInv
<1>8. DiskInv'
  <2>1. \A d \in Calls, x \in Receivers : tr'[d][x].task \in {tr[d][x].task, NoTask}
    OBVIOUS
  <2> QED BY <1>4, <2>1, DiskKeeps
<1> QED BY <1>2, <1>3, <1>4, <1>6, <1>7, <1>8, StepKeeps

LEMMA BreakKeeps == ASSUME TransferInv, NEW c \in Calls, Break(c) PROVE TransferInv'
<1>1. /\ UNCHANGED <<way, total, telling, disk, links, open, tr, report, marks, overlap>>
      /\ conn' = [conn EXCEPT ![c] = "down"] /\ Closes(c, Client)
  BY DEF Break
<1>2. conn \in [Calls -> {"none", "connecting", "up", "down"}]
  BY DEF TransferInv, TypeOK
<1>3. /\ conn' \in [Calls -> {"none", "connecting", "up", "down"}] /\ conn'[c] = "down"
      /\ \A d \in Calls \ {c} : conn'[d] = conn[d]
  BY <1>1, <1>2
<1>4. \A k \in Links : ~Current(c, k)'
  BY <1>3 DEF Current
<1> QED BY <1>1, <1>3, <1>4, EndTypes, ClosingKeeps

LEMMA BreakAtServerKeeps ==
    ASSUME TransferInv, NEW c \in Calls, NEW k \in Links, BreakAtServer(c, k)
    PROVE  TransferInv'
<1>1. /\ UNCHANGED <<way, total, telling, disk, conn, links, tr, report, marks, overlap>>
      /\ open' = open \ {<<c, k>>} /\ Closes(c, k)
  BY DEF BreakAtServer
<1>2. conn' \in [Calls -> {"none", "connecting", "up", "down"}]
  BY <1>1 DEF TransferInv, TypeOK
<1>3. \A d \in Calls \ {c}, n \in Links : <<d, n>> \in open' <=> <<d, n>> \in open
  BY <1>1
<1>4. \A n \in Links : Current(c, n)' <=> Current(c, n)
  BY <1>1 DEF Current
<1>5. \A n \in Links : <<c, n>> \in open' => k # n /\ k # Client
  BY <1>1, EndTypes
<1>6. open' \subseteq open /\ k \in Ends /\ conn' = conn
  BY <1>1, EndTypes
<1> QED BY <1>1, <1>2, <1>3, <1>4, <1>5, <1>6, ClosingKeeps

\* A server's object that goes leaves its file, less what it had not written.
LEMMA EraseKeeps ==
    ASSUME TransferInv, NEW c \in Calls, NEW k \in Links, Erase(c, k) PROVE TransferInv'
<1>0. /\ TypeOK /\ Receivers' = Receivers /\ SideInv(c) /\ k \in Ends /\ k # Client
      /\ UNCHANGED <<way, total, telling, conn, links, open, chan, report, marks, overlap>>
      /\ <<c, k>> \notin open /\ chan[c][k] = <<>>
  BY EndTypes DEF TransferInv, Erase, Receivers
<1>1. /\ tr' \in [Calls -> [Ends -> Transfer]] /\ tr'[c][k] = Unmade
      /\ \A d \in Calls \ {c} : tr'[d] = tr[d]
      /\ \A e \in Ends \ {k} : tr'[c][e] = tr[c][e]
  <2>1. PICK t \in Transfer : t = Unmade
    BY NewTransfers
  <2>2. tr' = [tr EXCEPT ![c][k] = t] /\ tr \in [Calls -> [Ends -> Transfer]]
    BY <1>0, <2>1 DEF Erase, TypeOK
  <2> QED BY <1>0, <2>1, <2>2
<1>2. PICK lost \in Unflushed({<<c, k>>} \cap (Calls \X Receivers)) :
          disk' = SubSeq(disk, 1, Len(disk) - lost)
  BY DEF Erase
<1>3. lost = 0 \/ (lost = 1 /\ Len(disk) > 0 /\ k \in Receivers /\ tr[c][k].task > 0)
  <2>1. \A x \in {<<c, k>>} \cap (Calls \X Receivers) : x[1] = c /\ x[2] = k /\ k \in Receivers
    OBVIOUS
  <2> QED BY <2>1 DEF Unflushed
<1>4. disk' \in Seq(Int) /\ (lost = 0 => disk' = disk)
  <2>1. disk \in Seq(Int) /\ Len(disk) \in Nat
    BY <1>0 DEF TypeOK
  <2>2. Len(disk) - lost \in 0 .. Len(disk)
    BY <1>3, <2>1
  <2>3. \A n \in 0 .. Len(disk) : SubSeq(disk, 1, n) \in Seq(Int)
    BY <2>1
  <2>4. SubSeq(disk, 1, Len(disk)) = disk
    BY <2>1
  <2>5. lost = 0 => Len(disk) - lost = Len(disk)
    BY <2>1
  <2> QED BY <1>2, <2>2, <2>3, <2>4, <2>5
<1>5. TypeOK'
  BY <1>0, <1>1, <1>4 DEF TypeOK
<1>6. \A d \in Calls \ {c} : Undisturbed(d)
  BY <1>0, <1>1 DEF Undisturbed
<1>7. \A d \in Calls : Late(d) => Late(d)'
  BY <1>0 DEF Late
<1>8. tr'[c][k].task = NoTask /\ NoTask \in -1 .. total
  BY <1>0, <1>1, NewTransfers DEF TypeOK, NoTask
<1>9. SideInv(c)'
  <2>1. \A e \in Ends : \A i \in DOMAIN chan[c][e] : MessageInv(e, chan[c][e][i])'
    BY <1>0 DEF SideInv, MessageInv, Senders, Receivers
  <2>2. \A n \in Links : n > links[c] => tr'[c][n].task = NoTask
    BY <1>0, <1>1, <1>8, EndTypes DEF SideInv
  <2>3. \A n \in Links : chan[c][n] # <<>> \/ <<c, n>> \in open => tr'[c][n].duty # "NULL"
    BY <1>0, <1>1, EndTypes DEF SideInv
  <2>4. \A e \in Ends : tr'[c][e].task \in -1 .. total
    BY <1>0, <1>1, <1>8 DEF SideInv
  <2>5. tr'[c][Client] = tr[c][Client]
    BY <1>0, <1>1, EndTypes
  <2> QED BY <1>0, <2>1, <2>2, <2>3, <2>4, <2>5 DEF SideInv
<1>10. ASSUME ~Late(c)' PROVE QueueInv(c)'
  <2>0. QueueInv(c) /\ tr'[c][Client] = tr[c][Client]
    BY <1>0, <1>1, <1>10, EndTypes DEF TransferInv, Late
  <2>1. \A e \in Ends : chan[c][e] # <<>> => OwnTask(Head(chan[c][e]), tr'[c][e])
    BY <1>0, <1>1, <2>0 DEF QueueInv
  <2>2. \A n \in Links : <<c, n>> \in open => tr'[c][n] = tr[c][n]
    BY <1>0, <1>1, EndTypes
  <2>3. \A n \in Links : Current(c, n)' <=> Current(c, n)
    BY <1>0 DEF Current
  <2> QED BY <1>0, <2>0, <2>1, <2>2, <2>3 DEF QueueInv
<1>11. \A d \in Calls, e \in Receivers : tr'[d][e].task \in {tr[d][e].task, NoTask}
  BY <1>0, <1>1, <1>8, SendersReceivers
<1>12. DiskInv'
  <2>1. CASE lost = 0
    BY <1>0, <1>4, <1>7, <1>11, <2>1, DiskKeeps
  <2>2. CASE lost # 0
    <3> SUFFICES ASSUME ~overlap' PROVE DiskInv'
      BY DEF DiskInv
    <3>1. DiskInv /\ ~overlap /\ k \in Receivers /\ Live(c, k)
      BY <1>0, <1>3, <2>2 DEF TransferInv, Live, NoTask
    <3>2. ASSUME NEW d \in Calls, NEW e \in Receivers PROVE ~Live(d, e)'
      <4>1. CASE d = c /\ e = k
        BY <1>8, <4>1 DEF Live
      <4>2. CASE ~(d = c /\ e = k)
        <5>1. <<d, e>> \in Calls \X Receivers /\ <<c, k>> \in Calls \X Receivers
          BY <3>1
        <5>2. <<d, e>> # <<c, k>>
          BY <4>2
        <5>3. ~Live(d, e)
          BY <3>1, <5>1, <5>2 DEF DiskInv
        <5> QED BY <1>11, <5>3 DEF Live
      <4> QED BY <4>1, <4>2
    <3>3. \A x \in Calls \X Receivers : ~Live(x[1], x[2])'
      BY <3>2 DEF Live
    <3> QED BY <1>0, <3>2, <3>3 DEF DiskInv
  <2> QED BY <2>1, <2>2
<1> QED BY <1>0, <1>5, <1>6, <1>7, <1>9, <1>10, <1>12, StepKeeps

-----------------------------------------------------------------------------
(* The theorems                                                            *)

LEMMA Step == TransferInv /\ [Next]_vars => TransferInv'
<1> SUFFICES ASSUME TransferInv, [Next]_vars PROVE TransferInv'
  OBVIOUS
<1>0. conn \in [Calls -> {"none", "connecting", "up", "down"}] /\ Client \in Ends /\ Links \subseteq Ends
  BY EndTypes DEF TransferInv, TypeOK
<1>1. CASE UNCHANGED <<way, total, telling, disk, conn, links, open, tr, chan, report, marks,
                      overlap>>
  <2>1. \A d \in Calls, k \in Links : Current(d, k)' => Current(d, k)
    BY <1>1 DEF Current
  <2> QED BY <1>0, <1>1, <2>1, QuietKeeps
<1>2. CASE UNCHANGED vars
  BY <1>1, <1>2 DEF vars
<1>3. ASSUME NEW c \in Calls, NEW e \in Ends, Input(c, e) PROVE TransferInv'
  <2>1. CASE Crash(c, e)
    BY <1>1, <2>1 DEF Crash
  <2> QED BY <1>3, <2>1, OnDownloadKeeps, OnPostFileKeeps, OnPostFileResultKeeps, OnSlicesKeeps,
             OnSlicesResultKeeps, OnCheckKeeps DEF Input
<1>4. CASE ClientFrame
  BY <1>0, <1>3, <1>4, OnConnectKeeps DEF ClientFrame
<1>5. CASE ServerFrame
  BY <1>0, <1>3, <1>5, EraseKeeps DEF ServerFrame
<1>6. ASSUME NEW c \in Calls, NEW k \in Links, BreakAtServer(c, k) PROVE TransferInv'
  BY <1>6, BreakAtServerKeeps
<1>7. ASSUME NEW c \in Calls, Request(c) \/ Connected(c) \/ ConnectFailed(c) \/ Break(c)
      PROVE  TransferInv'
  BY <1>7, RequestKeeps, ConnectedKeeps, ConnectFailedKeeps, BreakKeeps
<1> QED BY <1>2, <1>4, <1>5, <1>6, <1>7 DEF Next

\* TransferInv holds in every state, however often connections broke, whatever
\* fopen failed and however late the applications are: what a message says of
\* the tasks at both ends is true as long as the client of its call was not
\* late, what is left of a connection cannot reach an object that was not made,
\* and the receiver that has the file wrote what is on the disk unless two
\* receivers had it open.
THEOREM Safety == Spec => []TransferInv
<1>1. TransferInv /\ [Next]_vars => TransferInv'
  BY Step
<1> QED BY Initial, <1>1, PTL DEF Spec

\* TaskForMessage: input() dereferences an m_task that is not there
\* (FSTransfer.cpp:395, 428, 500) only when the client answered over a
\* connection that came up behind the message it answers; the assertion at
\* FSTransfer.cpp:431 holds even then.
THEOREM TaskIsThere == Spec => []TaskForMessage
<1>1. TransferInv => TaskForMessage
  <2> SUFFICES ASSUME TransferInv, NEW c \in Calls, NEW e \in Ends, NEW i \in DOMAIN chan[c][e]
               PROVE  LET m == chan[c][e][i] IN
                      /\ m.t \in {"slice", "ack", "check"} => HasTask(c, e) \/ Late(c)
                      /\ m.t \in {"ack", "result"} => m.at <= total
                      /\ m.t # "status" => tr[c][e].duty # "NULL"
    BY DEF TaskForMessage, Late
  <2> DEFINE m == chan[c][e][i]
  <2>0. TypeOK /\ SideInv(c) /\ total \in Nat /\ chan[c][e] \in Seq(Message) /\ chan[c][e] # <<>>
    <3>1. \A q \in Seq(Message) : DOMAIN q # {} => q # <<>>
      OBVIOUS
    <3> QED BY <3>1 DEF TransferInv, TypeOK
  <2>1. MessageInv(e, m)
    BY <2>0 DEF SideInv
  <2>2. m.t # "status" => tr[c][e].duty # "NULL"
    BY <2>0, EndTypes DEF SideInv
  <2>3. ASSUME m.t \in {"slice", "ack", "check"}, ~Late(c) PROVE HasTask(c, e)
    <3>0. QueueInv(c)
      BY <2>3 DEF TransferInv
    <3>1. i = 1
      <4>1. CASE e = Client
        <5>1. ~(i > 1) /\ i \in Nat \ {0}
          BY <2>0, <2>3, <3>0, <4>1 DEF QueueInv
        <5> QED BY <5>1
      <4>2. CASE e # Client
        <5>1. Len(chan[c][e]) <= 1
          BY <3>0, <4>2, EndTypes DEF QueueInv
        <5>2. i \in 1 .. Len(chan[c][e]) /\ Len(chan[c][e]) \in Nat
          BY <2>0
        <5> QED BY <5>1, <5>2
      <4> QED BY <4>1, <4>2
    <3>2. m = Head(chan[c][e])
      BY <2>0, <3>1, NonEmpty
    <3>3. OwnTask(m, tr[c][e])
      BY <2>0, <3>0, <3>2 DEF QueueInv
    <3> QED BY <2>0, <2>1, <2>3, <3>3 DEF MessageInv, OwnTask, HasTask, NoTask
  <2>4. m.t \in {"ack", "result"} => m.at <= total
    BY <2>0, <2>1 DEF MessageInv
  <2> QED BY <2>2, <2>3, <2>4
<1> QED BY <1>1, Safety, PTL

\* SuccessIntact: a passed check means the file is the sender's, slice by
\* slice, whatever the receiver had before, however often the connections broke
\* and whatever could not be opened - unless two receivers had the file open,
\* the client of the call was late, or the check cannot tell a hole at the
\* start from the file's first slice.
THEOREM SuccessMeansIntact == Spec => SuccessIntact
<1>1. TransferInv /\ [Next]_vars
         => \A c \in Calls : report'[c] = "suc" /\ report[c] # "suc"
              => Intact' \/ overlap \/ "late" \in marks[c] \/ (total > 0 /\ 1 \notin telling)
  <2> SUFFICES ASSUME TransferInv, [Next]_vars, NEW c \in Calls,
                      report'[c] = "suc", report[c] # "suc", ~overlap, ~Late(c),
                      total = 0 \/ 1 \in telling
               PROVE  Intact'
    <3>1. TransferInv => total \in Nat
      BY DEF TransferInv, TypeOK
    <3> QED BY <3>1 DEF Late
  <2>0. TypeOK
    BY DEF TransferInv
  <2>1. PICK d \in Calls, e \in Ends : OnCheck(d, e) \/ OnPostFileResult(d, e)
    <3>1. report' # report
      OBVIOUS
    <3>2. ASSUME NEW d \in Calls, Request(d) \/ Connected(d) \/ ConnectFailed(d) \/ Break(d)
          PROVE  FALSE
      BY <3>1, <3>2 DEF Request, Connected, ConnectFailed, Break
    <3>3. ASSUME NEW d \in Calls, NEW k \in Links, BreakAtServer(d, k) \/ Erase(d, k) PROVE FALSE
      BY <3>1, <3>3 DEF BreakAtServer, Erase
    <3>4. ASSUME NEW d \in Calls, OnConnect(d) PROVE FALSE
      BY <3>1, <3>4 DEF OnConnect
    <3>5. ASSUME NEW d \in Calls, NEW e \in Ends,
                 OnDownload(d, e) \/ OnSlices(d, e) \/ OnSlicesResult(d, e) \/ Crash(d, e)
          PROVE  FALSE
      BY <3>1, <3>5 DEF OnDownload, OnSlices, OnSlicesResult, Crash
    <3>6. ASSUME NEW d \in Calls, NEW e \in Ends, OnPostFile(d, e) PROVE FALSE
      BY <3>1, <3>6 DEF OnPostFile
    <3>7. Next
      BY <3>1 DEF vars
    <3>8. \E d \in Calls, e \in Ends : Input(d, e)
      BY <3>2, <3>3, <3>4, <3>7, EndTypes DEF Next, ClientFrame, ServerFrame
    <3> QED BY <3>5, <3>6, <3>8 DEF Input
  <2>2. ~OnPostFileResult(d, e)
    BY <2>0 DEF OnPostFileResult, TypeOK
  <2>3. OnCheck(d, e) /\ CheckPasses /\ c = d
    BY <2>0, <2>1, <2>2 DEF OnCheck, TypeOK
  <2>4. /\ Got(c, e).t = "check" /\ MessageInv(e, Got(c, e)) /\ OwnTask(Got(c, e), tr[c][e])
    BY <2>3, TheMessage DEF OnCheck
  <2>5. e \in Receivers /\ tr[c][e].task = total /\ total \in Nat
    BY <2>0, <2>4 DEF MessageInv, OwnTask, TypeOK
  <2>6. Written(disk, total)
    BY <2>5 DEF TransferInv, DiskInv, Live, NoTask
  <2>7. Intact
    BY <2>0, <2>3, <2>6, CheckSeesHole
  <2> QED BY <2>3, <2>7 DEF OnCheck, Fixed, Intact
<1> QED BY <1>1, Safety, PTL DEF Spec, SuccessIntact
=============================================================================
