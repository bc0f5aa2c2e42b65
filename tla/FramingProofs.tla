---------------------------- MODULE FramingProofs ----------------------------
(***************************************************************************)
(* The safety of Framing, for any number and any length of messages, any   *)
(* limits and any ratio of the timers: FramingInv is inductive.            *)
(*                                                                         *)
(* What an end has not parsed yet is one stream: its buffer, the wire to   *)
(* it, the other's queue and the rest of the other's call.  A batch moves  *)
(* cells along it and a packet is taken from its front; only heartbeats    *)
(* are written into the middle of it.  The invariant says what the stream  *)
(* is like: the messages begin in it in order and without a gap; there is  *)
(* room for each packet to end; and, unless a heartbeat was written into a *)
(* message or a message is too long, it is packet after packet.  The loop  *)
(* over the buffer is proved about by induction over its rounds.           *)
(***************************************************************************)
EXTENDS Framing, Streams

(***************************************************************************)
(* Types                                                                   *)

\* The packets of either end, and their cells
PacketSet == [kind : {"data", "probe", "answer"}, n : Nat, len : Nat]
Cell == PacketSet \X Nat

\* The values of the variables
TypeOK ==
    /\ sent \in [Ends -> Seq(Nat)] /\ got \in [Ends -> Seq(Nat)]
    /\ pushing \in [Ends -> Seq(Cell)] /\ que \in [Ends -> Seq(Cell)]
    /\ wire \in [Ends -> Seq(Cell)] /\ buf \in [Ends -> Seq(Cell)]
    /\ online \in [Ends -> BOOLEAN]
    /\ why \in [Ends -> {"none", "data", "zero", "closed", "heart"}]
    /\ heart \in [Ends -> [time : 0 .. TicksPerCheck - 1, count : Int]]
    /\ net \in {"prompt", "slow", "dead"} /\ drift \in Int
    /\ part \in [Ends -> Nat] /\ split \in [Ends -> SUBSET Nat]

-----------------------------------------------------------------------------
(* What a stream of cells is like.  The stream to an end is what it has    *)
(* not parsed yet: its buffer, what was written and, as long as the other  *)
(* end is on line, what the other is still to write.                       *)

Stream(e) == buf[e] \o wire[Peer(e)]
AllOf(e) == (Stream(e) \o que[Peer(e)]) \o pushing[Peer(e)]

(* The first cells of messages come in the order of the messages, after    *)
(* the k that were parsed, without a gap, ...                              *)
IsFirst(c) == c[1].kind = "data" /\ c[2] = 1
Ordered(U, k, m) ==
    \A i \in 1 .. Len(U) : IsFirst(U[i]) =>
        /\ U[i][1].n \in k + 1 .. m
        /\ \A j \in 1 .. i - 1 : IsFirst(U[j]) => U[j][1].n < U[i][1].n
        /\ \A x \in k + 1 .. U[i][1].n - 1 : \E j \in 1 .. i - 1 : IsFirst(U[j]) /\ U[j][1].n = x
(* ... up to the m that were sent.                                         *)
Complete(U, k, m) ==
    \A x \in k + 1 .. m : \E j \in 1 .. Len(U) : IsFirst(U[j]) /\ U[j][1].n = x

(* There is room for the rest of each packet.                              *)
Room(n, c) == c[2] \in 1 .. Total(c[1]) /\ n >= Total(c[1]) - c[2]
Backed(U) == \A i \in 1 .. Len(U) : Room(Len(U) - i, U[i])

(* A sequence of packets of a length allowed, the last perhaps cut short   *)
Follows(c, d) == IF c[2] < Total(c[1]) THEN d = <<c[1], c[2] + 1>> ELSE d[2] = 1
Framed(U) ==
    /\ U # <<>> => U[1][2] = 1
    /\ \A i \in 1 .. Len(U) : U[i][2] \in 1 .. Total(U[i][1]) /\ U[i][1].len <= MaxLen
    /\ \A i \in 1 .. Len(U) - 1 : Follows(U[i], U[i + 1])
Closed(U) == U # <<>> => U[Len(U)][2] = Total(U[Len(U)][1])

(* A buffer that the loop left waits for more.                             *)
Waiting(b) == Len(b) < HeadLen \/ (IsHead(b) /\ ~Whole(b))

(* Whoever reads all of U finds a probe in it, or gives up.                *)
Owing(U) ==
    \/ Len(U) >= Total(Heartbeat("probe"))
       /\ \A i \in 1 .. Total(Heartbeat("probe")) : U[i] = <<Heartbeat("probe"), i>>
    \/ Len(U) >= HeadLen /\ U[1][2] # 1

-----------------------------------------------------------------------------
(* The inductive invariant                                                 *)

(* The operations of an end are cells of messages.                         *)
OfMessages(q) == \A i \in 1 .. Len(q) : q[i][1].kind = "data" /\ q[i][1].n >= 1
QueInv(e) ==
    /\ OfMessages(que[e]) /\ OfMessages(pushing[e])
    /\ sent[e] = <<>> => que[e] = <<>> /\ pushing[e] = <<>>

(* Messages reach end e in order ...                                       *)
FlowInv(e) ==
    LET k == Len(got[e])
        m == Len(sent[Peer(e)])
    IN  /\ got[e] = [n \in 1 .. k |-> n] /\ k <= m
        /\ online[e] /\ net # "dead" => Waiting(buf[e]) /\ Ordered(Stream(e), k, m)
        /\ online[e] /\ net # "dead" /\ online[Peer(e)] =>
              Ordered(AllOf(e), k, m) /\ Complete(AllOf(e), k, m) /\ Backed(AllOf(e))

(* ... and packet by packet, unless one was split or is too long.          *)
FrameInv(e) ==
    \/ split[Peer(e)] # {} \/ TooLong(Peer(e))
    \/ /\ why[e] # "data"
       /\ online[e] /\ net # "dead" => Framed(Stream(e))
       /\ online[e] /\ net # "dead" /\ online[Peer(e)] =>
             Framed(AllOf(e)) /\ (part[Peer(e)] = 0 => Closed(Stream(e)))

(* A probe of end e was answered before its next tick.                     *)
ProbeInv(e) ==
    net = "prompt" =>
        /\ why[e] # "heart"
        /\ online[e] /\ online[Peer(e)] /\ heart[e].count >= 1 /\ wire[Peer(e)] = <<>> =>
              Owing(Stream(Peer(e)))

(* Without messages: the ticks since each end last read, and what is on    *)
(* its way: nothing, the client's probe, or the answer to it.              *)
ServerTicks(h) ==
    h.time + (IF h.count = -2 THEN 0 ELSE IF h.count = -1 THEN TicksPerCheck
              ELSE TicksPerCheck + TicksPerCheck)
ClientTicks(h) == h.time + (IF h.count = -1 THEN 0 ELSE TicksPerCheck)
IdleInv ==
    /\ wire["client"] = <<>> /\ wire["server"] = <<>>
    /\ buf["client"] = <<>> /\ buf["server"] = <<>>
    /\ heart["client"].count \in -1 .. 0
    /\ ServerTicks(heart["server"]) - ClientTicks(heart["client"]) + drift \in -MaxDrift .. MaxDrift
ProbedInv ==
    /\ wire["client"] # <<>> /\ wire["server"] = <<>> /\ buf["client"] = <<>>
    /\ Stream("server") = Cells(Heartbeat("probe")) /\ heart["client"].count = 1
AnsweredInv ==
    /\ wire["server"] # <<>> /\ wire["client"] = <<>> /\ buf["server"] = <<>>
    /\ Stream("client") = Cells(Heartbeat("answer"))
    /\ heart["server"] = Fresh("server") /\ heart["client"].count \in -1 .. 1
QuietInv ==
    net = "prompt" /\ (\A e \in Ends : sent[e] = <<>>) =>
        /\ heart["server"].count \in -2 .. 0 /\ heart["client"].count \in -1 .. 1
        /\ drift \in -MaxDrift .. MaxDrift
        /\ (\A e \in Ends : online[e]) => IdleInv \/ ProbedInv \/ AnsweredInv

FramingInv ==
    /\ TypeOK
    /\ \A e \in Ends : QueInv(e) /\ FlowInv(e) /\ FrameInv(e) /\ ProbeInv(e)
    /\ QuietInv

-----------------------------------------------------------------------------
(* Ends, packets and cells                                                 *)

\* There are two ends, each the other's peer.
LEMMA PeerFacts ==
    \A e \in Ends : /\ Peer(e) \in Ends /\ Peer(e) # e /\ Peer(Peer(e)) = e
                    /\ \A f \in Ends : f = e \/ f = Peer(e)
<1>1. Peer("client") = "server" /\ Peer("server") = "client"
  BY DEF Peer, Ends
<1> QED BY <1>1 DEF Ends

\* The cells of a packet are numbered, as many as it is long.
LEMMA CellsOf ==
    ASSUME NEW p \in PacketSet
    PROVE  /\ Total(p) \in Nat /\ Total(p) >= HeadLen /\ Total(p) = p.len + 2
           /\ Cells(p) \in Seq(Cell) /\ Len(Cells(p)) = Total(p)
           /\ \A i \in 1 .. Total(p) : Cells(p)[i] = <<p, i>>
<1>1. Total(p) \in Nat /\ Total(p) >= HeadLen /\ Total(p) = p.len + 2
  BY DEF PacketSet, Total, HeadLen
<1>2. Cells(p) \in [1 .. Total(p) -> Cell]
  BY <1>1 DEF Cells, Cell
<1>3. Cells(p) \in Seq(Cell) /\ Len(Cells(p)) = Total(p)
  BY <1>1, <1>2, SeqDef
<1> QED BY <1>1, <1>3 DEF Cells

\* A cell is a packet and a position in it.
LEMMA CellFacts ==
    ASSUME NEW c \in Cell
    PROVE  /\ c = <<c[1], c[2]>> /\ c[1] \in PacketSet /\ c[2] \in Nat
           /\ c[1].kind \in {"data", "probe", "answer"} /\ c[1].n \in Nat /\ c[1].len \in Nat
           /\ Total(c[1]) \in Nat /\ Total(c[1]) >= 2 /\ Total(c[1]) = c[1].len + 2
BY DEF Cell, PacketSet, Total, HeadLen

(* A message and a heartbeat are packets. *)
LEMMA PacketsAre ==
    /\ \A n, size \in Nat : /\ Message(n, size) \in PacketSet
                            /\ Message(n, size).kind = "data" /\ Message(n, size).n = n
                            /\ Message(n, size).len = size + HashLen
    /\ \A kind \in {"probe", "answer"} :
          /\ Heartbeat(kind) \in PacketSet /\ Heartbeat(kind).kind = kind
          /\ Heartbeat(kind).len = 2 /\ Heartbeat(kind).n = 0 /\ Heartbeat(kind).len <= MaxLen
          /\ Total(Heartbeat(kind)) = 4
BY FramingAssumption DEF Message, Heartbeat, PacketSet, HashLen, HeartLen, Total, HeadLen

(* The two parts of a sequence cut after its first n elements *)
LEMMA CutAt ==
    ASSUME NEW S, NEW q \in Seq(S), NEW n \in 0 .. Len(q)
    PROVE  /\ SubSeq(q, 1, n) \in Seq(S) /\ Len(SubSeq(q, 1, n)) = n
           /\ SubSeq(q, n + 1, Len(q)) \in Seq(S) /\ Len(SubSeq(q, n + 1, Len(q))) = Len(q) - n
           /\ \A i \in 1 .. n : SubSeq(q, 1, n)[i] = q[i]
           /\ \A i \in 1 .. Len(q) - n : SubSeq(q, n + 1, Len(q))[i] = q[n + i]
           /\ SubSeq(q, 1, n) \o SubSeq(q, n + 1, Len(q)) = q
<1>1. Len(q) \in Nat /\ n \in Nat /\ \A i \in 1 .. Len(q) : q[i] \in S
  BY LenProperties, ElementOfSeq
<1>2. /\ SubSeq(q, 1, n) \in Seq(S) /\ Len(SubSeq(q, 1, n)) = n
      /\ \A i \in 1 .. n : SubSeq(q, 1, n)[i] = q[i]
  <2>1. \A i \in 1 .. n : q[i] \in S
    BY <1>1
  <2>2. /\ SubSeq(q, 1, n) \in Seq(S) /\ Len(SubSeq(q, 1, n)) = IF 1 <= n THEN n - 1 + 1 ELSE 0
        /\ \A i \in 1 .. n - 1 + 1 : SubSeq(q, 1, n)[i] = q[1 + i - 1]
    BY <1>1, <2>1, SubSeqProperties
  <2> QED BY <1>1, <2>2
<1>3. /\ SubSeq(q, n + 1, Len(q)) \in Seq(S) /\ Len(SubSeq(q, n + 1, Len(q))) = Len(q) - n
      /\ \A i \in 1 .. Len(q) - n : SubSeq(q, n + 1, Len(q))[i] = q[n + i]
  <2>1. n + 1 \in Int /\ Len(q) \in Int /\ \A i \in n + 1 .. Len(q) : q[i] \in S
    BY <1>1
  <2>2. /\ SubSeq(q, n + 1, Len(q)) \in Seq(S)
        /\ Len(SubSeq(q, n + 1, Len(q))) =
              IF n + 1 <= Len(q) THEN Len(q) - (n + 1) + 1 ELSE 0
        /\ \A i \in 1 .. Len(q) - (n + 1) + 1 : SubSeq(q, n + 1, Len(q))[i] = q[n + 1 + i - 1]
    BY <2>1, SubSeqProperties
  <2> QED BY <1>1, <2>2
<1>4. SubSeq(q, 1, n) \o SubSeq(q, n + 1, Len(q)) = q
  <2> DEFINE a == SubSeq(q, 1, n)
             b == SubSeq(q, n + 1, Len(q))
  <2> HIDE DEF a, b
  <2>1. /\ a \in Seq(S) /\ b \in Seq(S) /\ Len(a) = n /\ Len(b) = Len(q) - n
        /\ \A i \in 1 .. n : a[i] = q[i]
        /\ \A i \in 1 .. Len(q) - n : b[i] = q[n + i]
    BY <1>2, <1>3 DEF a, b
  <2>2. /\ a \o b \in Seq(S) /\ Len(a \o b) = Len(q)
        /\ \A i \in 1 .. Len(q) : (a \o b)[i] = IF i <= n THEN a[i] ELSE b[i - n]
    <3>1. /\ a \o b \in Seq(S) /\ Len(a \o b) = Len(a) + Len(b)
          /\ \A i \in 1 .. Len(a) + Len(b) :
                (a \o b)[i] = IF i <= Len(a) THEN a[i] ELSE b[i - Len(a)]
      BY <2>1, ConcatProperties
    <3>2. Len(a) + Len(b) = Len(q) /\ Len(a) = n
      BY <1>1, <2>1
    <3> QED BY <3>1, <3>2
  <2>3. \A i \in 1 .. Len(q) : (a \o b)[i] = q[i]
    <3> SUFFICES ASSUME NEW i \in 1 .. Len(q) PROVE (a \o b)[i] = q[i]
      OBVIOUS
    <3>1. CASE i <= n
      BY <1>1, <2>1, <2>2, <3>1
    <3>2. CASE ~(i <= n)
      <4>1. i - n \in 1 .. Len(q) - n /\ n + (i - n) = i
        BY <1>1, <3>2
      <4> QED BY <2>1, <2>2, <3>2, <4>1
    <3> QED BY <3>1, <3>2
  <2>4. a \o b = q
    BY <2>2, <2>3, SeqEqual
  <2> QED BY <2>4 DEF a, b
<1> QED BY <1>2, <1>3, <1>4

(* The cells of a stream whose first packet is p *)
LEMMA FrontIndex ==
    ASSUME NEW p \in PacketSet, NEW V \in Seq(Cell)
    PROVE  /\ Total(p) \in Nat /\ Total(p) >= 2 /\ Len(V) \in Nat
           /\ Cells(p) \o V \in Seq(Cell) /\ Len(Cells(p) \o V) = Total(p) + Len(V)
           /\ \A i \in 1 .. Total(p) : (Cells(p) \o V)[i] = <<p, i>>
           /\ \A i \in 1 .. Len(V) : (Cells(p) \o V)[i + Total(p)] = V[i]
<1>1. /\ Total(p) \in Nat /\ Total(p) >= 2 /\ Cells(p) \in Seq(Cell) /\ Len(Cells(p)) = Total(p)
      /\ \A i \in 1 .. Total(p) : Cells(p)[i] = <<p, i>>
  BY CellsOf DEF HeadLen
<1>2. Len(V) \in Nat
  BY LenProperties
<1>3. /\ Cells(p) \o V \in Seq(Cell) /\ Len(Cells(p) \o V) = Total(p) + Len(V)
      /\ \A i \in 1 .. Total(p) + Len(V) : (Cells(p) \o V)[i] =
            IF i <= Total(p) THEN Cells(p)[i] ELSE V[i - Total(p)]
  <2>1. /\ Cells(p) \o V \in Seq(Cell) /\ Len(Cells(p) \o V) = Len(Cells(p)) + Len(V)
        /\ \A i \in 1 .. Len(Cells(p)) + Len(V) : (Cells(p) \o V)[i] =
              IF i <= Len(Cells(p)) THEN Cells(p)[i] ELSE V[i - Len(Cells(p))]
    BY <1>1, ConcatProperties
  <2> QED BY <1>1, <2>1
<1>4. ASSUME NEW i \in 1 .. Total(p) PROVE (Cells(p) \o V)[i] = <<p, i>>
  <2>1. i \in 1 .. Total(p) + Len(V) /\ i <= Total(p)
    BY <1>1, <1>2
  <2> QED BY <1>1, <1>3, <2>1
<1>5. ASSUME NEW i \in 1 .. Len(V) PROVE (Cells(p) \o V)[i + Total(p)] = V[i]
  <2>1. i + Total(p) \in 1 .. Total(p) + Len(V) /\ ~(i + Total(p) <= Total(p))
          /\ (i + Total(p)) - Total(p) = i
    BY <1>1, <1>2
  <2> QED BY <1>3, <2>1
<1> QED BY <1>1, <1>2, <1>3, <1>4, <1>5

(* The cells of a stream and of one that goes on *)
LEMMA JoinIndex ==
    ASSUME NEW U \in Seq(Cell), NEW V \in Seq(Cell)
    PROVE  /\ Len(U) \in Nat /\ Len(V) \in Nat
           /\ U \o V \in Seq(Cell) /\ Len(U \o V) = Len(U) + Len(V)
           /\ \A i \in 1 .. Len(U) : (U \o V)[i] = U[i]
           /\ \A i \in 1 .. Len(V) : (U \o V)[Len(U) + i] = V[i]
<1>1. Len(U) \in Nat /\ Len(V) \in Nat
  BY LenProperties
<1>2. /\ U \o V \in Seq(Cell) /\ Len(U \o V) = Len(U) + Len(V)
      /\ \A i \in 1 .. Len(U) + Len(V) : (U \o V)[i] = IF i <= Len(U) THEN U[i] ELSE V[i - Len(U)]
  BY ConcatProperties
<1>3. ASSUME NEW i \in 1 .. Len(U) PROVE (U \o V)[i] = U[i]
  BY <1>1, <1>2
<1>4. ASSUME NEW i \in 1 .. Len(V) PROVE (U \o V)[Len(U) + i] = V[i]
  <2>1. Len(U) + i \in 1 .. Len(U) + Len(V) /\ ~(Len(U) + i <= Len(U)) /\ (Len(U) + i) - Len(U) = i
    BY <1>1
  <2> QED BY <1>2, <2>1
<1> QED BY <1>1, <1>2, <1>3, <1>4

-----------------------------------------------------------------------------
(* Taking the packet at the front of a stream                              *)

\* How many messages were parsed after packet p
After(p, k) == IF p.kind = "data" THEN k + 1 ELSE k

(* The packet at the front has one first cell at most, its own.            *)
LEMMA FrontFirst ==
    ASSUME NEW p \in PacketSet, NEW V \in Seq(Cell)
    PROVE  /\ \A j \in 1 .. Total(p) :
                 IsFirst((Cells(p) \o V)[j]) <=> p.kind = "data" /\ j = 1
           /\ (Cells(p) \o V)[1][1] = p
<1>1. Total(p) >= 2 /\ Total(p) \in Nat /\ \A i \in 1 .. Total(p) : (Cells(p) \o V)[i] = <<p, i>>
  BY FrontIndex
<1> DEFINE U == Cells(p) \o V
<1>2. \A i \in 1 .. Total(p) : U[i] = <<p, i>>
  BY <1>1
<1> HIDE DEF U
<1>3. ASSUME NEW i \in 1 .. Total(p) PROVE U[i][1] = p /\ U[i][2] = i
  BY <1>2
<1>4. \A j \in 1 .. Total(p) : IsFirst(U[j]) <=> p.kind = "data" /\ j = 1
  BY <1>3 DEF IsFirst
<1>5. U[1][1] = p
  BY <1>1, <1>3
<1> QED BY <1>4, <1>5 DEF U

\* A whole message at the front is the next one; what follows a packet is in
\* order after it.
LEMMA OrderedFront ==
    ASSUME NEW p \in PacketSet, NEW V \in Seq(Cell), NEW k \in Nat, NEW m \in Nat,
           Ordered(Cells(p) \o V, k, m)
    PROVE  /\ p.kind = "data" => p.n = k + 1 /\ k + 1 <= m
           /\ Ordered(V, After(p, k), m)
<1> DEFINE U == Cells(p) \o V
           T == Total(p)
           K == After(p, k)
<1>1. /\ T \in Nat /\ T >= 2 /\ Len(V) \in Nat /\ Len(U) = T + Len(V)
      /\ \A i \in 1 .. Len(V) : U[i + T] = V[i]
      /\ \A j \in 1 .. T : IsFirst(U[j]) <=> p.kind = "data" /\ j = 1
      /\ U[1][1] = p
  <2>1. /\ T \in Nat /\ T >= 2 /\ Len(V) \in Nat /\ Len(U) = T + Len(V)
        /\ \A i \in 1 .. Len(V) : U[i + T] = V[i]
    BY FrontIndex
  <2>2. /\ \A j \in 1 .. T : IsFirst(U[j]) <=> p.kind = "data" /\ j = 1
        /\ U[1][1] = p
    BY FrontFirst
  <2> QED BY <2>1, <2>2
<1>2. Ordered(U, k, m)
  OBVIOUS
<1> HIDE DEF U, T, K
<1>3. ASSUME NEW i \in 1 .. Len(V) PROVE i + T \in 1 .. Len(U) /\ U[i + T] = V[i]
  BY <1>1
<1>4. \A i \in 1 .. Len(V) : V[i][1].n \in Nat
  <2>1. \A i \in 1 .. Len(V) : V[i] \in Cell
    BY ElementOfSeq
  <2> QED BY <2>1, CellFacts
<1>5. p.n \in Nat
  BY DEF PacketSet
<1>6. CASE p.kind = "data"
  <2>1. 1 \in 1 .. Len(U) /\ IsFirst(U[1])
    BY <1>1, <1>6
  <2>2. /\ p.n \in k + 1 .. m
        /\ \A x \in k + 1 .. p.n - 1 : \E j \in 1 .. 1 - 1 : IsFirst(U[j]) /\ U[j][1].n = x
    BY <1>1, <1>2, <2>1 DEF Ordered
  <2>3. p.n = k + 1 /\ k + 1 <= m
    <3>1. CASE p.n = k + 1
      BY <2>2, <3>1, <1>5
    <3>2. CASE p.n # k + 1
      <4>1. k + 1 \in k + 1 .. p.n - 1
        BY <2>2, <3>2, <1>5
      <4>2. \E j \in 1 .. 1 - 1 : TRUE
        BY <2>2, <4>1
      <4> QED BY <4>2
    <3> QED BY <3>1, <3>2
  <2>4. K = k + 1
    BY <1>6 DEF K, After
  <2>5. ASSUME NEW i \in 1 .. Len(V), IsFirst(V[i])
        PROVE  /\ V[i][1].n \in K + 1 .. m
               /\ \A j \in 1 .. i - 1 : IsFirst(V[j]) => V[j][1].n < V[i][1].n
               /\ \A x \in K + 1 .. V[i][1].n - 1 :
                     \E j \in 1 .. i - 1 : IsFirst(V[j]) /\ V[j][1].n = x
    <3> DEFINE n == V[i][1].n
    <3>1. n \in Nat
      BY <1>4
    <3>2. i + T \in 1 .. Len(U) /\ U[i + T] = V[i]
      BY <1>3
    <3>3. /\ n \in k + 1 .. m
          /\ \A j \in 1 .. (i + T) - 1 : IsFirst(U[j]) => U[j][1].n < n
          /\ \A x \in k + 1 .. n - 1 :
                \E j \in 1 .. (i + T) - 1 : IsFirst(U[j]) /\ U[j][1].n = x
      BY <1>2, <2>5, <3>2 DEF Ordered
    <3> HIDE DEF n
    <3>4. n \in K + 1 .. m
      <4>1. 1 \in 1 .. (i + T) - 1
        BY <1>1
      <4>2. k + 1 < n
        BY <1>1, <2>1, <2>3, <3>3, <4>1
      <4> QED BY <2>4, <3>1, <3>3, <4>2
    <3>5. ASSUME NEW j \in 1 .. i - 1, IsFirst(V[j]) PROVE V[j][1].n < n
      <4>1. j \in 1 .. Len(V) /\ j + T \in 1 .. (i + T) - 1
        BY <1>1
      <4>2. U[j + T] = V[j]
        BY <1>3, <4>1
      <4> QED BY <3>3, <3>5, <4>1, <4>2
    <3>6. ASSUME NEW x \in K + 1 .. n - 1
          PROVE  \E j \in 1 .. i - 1 : IsFirst(V[j]) /\ V[j][1].n = x
      <4>1. x \in k + 1 .. n - 1 /\ x # k + 1
        BY <2>4, <3>1
      <4>2. PICK j \in 1 .. (i + T) - 1 : IsFirst(U[j]) /\ U[j][1].n = x
        BY <3>3, <4>1
      <4>3. ~(j \in 1 .. T)
        BY <1>1, <2>3, <4>1, <4>2
      <4>4. j - T \in 1 .. i - 1 /\ j - T \in 1 .. Len(V) /\ (j - T) + T = j
        BY <1>1, <4>3
      <4>5. U[j] = V[j - T]
        BY <1>3, <4>4
      <4> QED BY <4>2, <4>4, <4>5
    <3> QED BY <3>4, <3>5, <3>6 DEF n
  <2>6. Ordered(V, K, m)
    BY <2>5 DEF Ordered
  <2> QED BY <2>3, <2>6 DEF K
<1>7. CASE p.kind # "data"
  <2>1. K = k /\ \A j \in 1 .. T : ~IsFirst(U[j])
    BY <1>1, <1>7 DEF K, After
  <2>2. ASSUME NEW i \in 1 .. Len(V), IsFirst(V[i])
        PROVE  /\ V[i][1].n \in k + 1 .. m
               /\ \A j \in 1 .. i - 1 : IsFirst(V[j]) => V[j][1].n < V[i][1].n
               /\ \A x \in k + 1 .. V[i][1].n - 1 :
                     \E j \in 1 .. i - 1 : IsFirst(V[j]) /\ V[j][1].n = x
    <3> DEFINE n == V[i][1].n
    <3>1. i + T \in 1 .. Len(U) /\ U[i + T] = V[i]
      BY <1>3
    <3>2. /\ n \in k + 1 .. m
          /\ \A j \in 1 .. (i + T) - 1 : IsFirst(U[j]) => U[j][1].n < n
          /\ \A x \in k + 1 .. n - 1 :
                \E j \in 1 .. (i + T) - 1 : IsFirst(U[j]) /\ U[j][1].n = x
      BY <1>2, <2>2, <3>1 DEF Ordered
    <3> HIDE DEF n
    <3>3. ASSUME NEW j \in 1 .. i - 1, IsFirst(V[j]) PROVE V[j][1].n < n
      <4>1. j \in 1 .. Len(V) /\ j + T \in 1 .. (i + T) - 1
        BY <1>1
      <4>2. U[j + T] = V[j]
        BY <1>3, <4>1
      <4> QED BY <3>2, <3>3, <4>1, <4>2
    <3>4. ASSUME NEW x \in k + 1 .. n - 1
          PROVE  \E j \in 1 .. i - 1 : IsFirst(V[j]) /\ V[j][1].n = x
      <4>1. PICK j \in 1 .. (i + T) - 1 : IsFirst(U[j]) /\ U[j][1].n = x
        BY <3>2
      <4>2. ~(j \in 1 .. T)
        BY <2>1, <4>1
      <4>3. j - T \in 1 .. i - 1 /\ j - T \in 1 .. Len(V) /\ (j - T) + T = j
        BY <1>1, <4>2
      <4>4. U[j] = V[j - T]
        BY <1>3, <4>3
      <4> QED BY <4>1, <4>3, <4>4
    <3> QED BY <3>2, <3>3, <3>4 DEF n
  <2>3. Ordered(V, K, m)
    BY <2>1, <2>2 DEF Ordered
  <2> QED BY <1>7, <2>3 DEF K
<1> QED BY <1>6, <1>7

\* What follows a packet has all the messages after it.
LEMMA CompleteFront ==
    ASSUME NEW p \in PacketSet, NEW V \in Seq(Cell), NEW k \in Nat, NEW m \in Nat,
           Complete(Cells(p) \o V, k, m), p.kind = "data" => p.n = k + 1
    PROVE  Complete(V, After(p, k), m)
<1> DEFINE U == Cells(p) \o V
           T == Total(p)
           K == After(p, k)
<1>1. /\ T \in Nat /\ T >= 2 /\ Len(V) \in Nat /\ Len(U) = T + Len(V)
      /\ \A i \in 1 .. Len(V) : U[i + T] = V[i]
      /\ \A j \in 1 .. T : IsFirst(U[j]) <=> p.kind = "data" /\ j = 1
      /\ U[1][1] = p
  <2>1. /\ T \in Nat /\ T >= 2 /\ Len(V) \in Nat /\ Len(U) = T + Len(V)
        /\ \A i \in 1 .. Len(V) : U[i + T] = V[i]
    BY FrontIndex
  <2>2. /\ \A j \in 1 .. T : IsFirst(U[j]) <=> p.kind = "data" /\ j = 1
        /\ U[1][1] = p
    BY FrontFirst
  <2> QED BY <2>1, <2>2
<1>2. Complete(U, k, m)
  OBVIOUS
<1> HIDE DEF U, T
<1>3. K \in Nat /\ K >= k /\ (p.kind = "data" => K = p.n)
  BY DEF After
<1> SUFFICES ASSUME NEW x \in K + 1 .. m
             PROVE  \E j \in 1 .. Len(V) : IsFirst(V[j]) /\ V[j][1].n = x
  BY DEF Complete
<1> HIDE DEF K
<1>4. x \in k + 1 .. m /\ (p.kind = "data" => x # p.n)
  BY <1>3
<1>5. PICK j \in 1 .. Len(U) : IsFirst(U[j]) /\ U[j][1].n = x
  BY <1>2, <1>4 DEF Complete
<1>6. ~(j \in 1 .. T)
  BY <1>1, <1>4, <1>5
<1>7. j - T \in 1 .. Len(V) /\ (j - T) + T = j
  BY <1>1, <1>6
<1>8. U[j] = V[j - T]
  BY <1>1, <1>7
<1> QED BY <1>5, <1>7, <1>8

\* What follows a packet has room for its packets.
LEMMA BackedFront ==
    ASSUME NEW p \in PacketSet, NEW V \in Seq(Cell), Backed(Cells(p) \o V)
    PROVE  Backed(V)
<1> DEFINE U == Cells(p) \o V
           T == Total(p)
<1>1. /\ T \in Nat /\ Len(V) \in Nat /\ Len(U) = T + Len(V)
      /\ \A i \in 1 .. Len(V) : U[i + T] = V[i]
  BY FrontIndex
<1>2. Backed(U)
  OBVIOUS
<1> HIDE DEF U, T
<1> SUFFICES ASSUME NEW i \in 1 .. Len(V) PROVE Room(Len(V) - i, V[i])
  BY DEF Backed
<1>3. i + T \in 1 .. Len(U) /\ U[i + T] = V[i] /\ Len(U) - (i + T) = Len(V) - i
  BY <1>1
<1>4. Room(Len(U) - (i + T), U[i + T])
  BY <1>2, <1>3 DEF Backed
<1> QED BY <1>3, <1>4

\* What follows a packet is packet by packet.
LEMMA FramedFront ==
    ASSUME NEW p \in PacketSet, NEW V \in Seq(Cell), Framed(Cells(p) \o V)
    PROVE  Framed(V) /\ (Closed(Cells(p) \o V) => Closed(V))
<1> DEFINE U == Cells(p) \o V
           T == Total(p)
<1>1. /\ T \in Nat /\ T >= 2 /\ Len(V) \in Nat /\ Len(U) = T + Len(V) /\ U \in Seq(Cell)
      /\ \A i \in 1 .. Len(V) : U[i + T] = V[i]
      /\ \A i \in 1 .. T : U[i] = <<p, i>>
  BY FrontIndex
<1>2. Framed(U) /\ T = Total(p)
  OBVIOUS
<1> HIDE DEF U, T
<1>3. \A i \in 1 .. Len(V) : i + T \in 1 .. Len(U)
  BY <1>1
<1>4. \A i \in 1 .. Len(V) : V[i][2] \in 1 .. Total(V[i][1]) /\ V[i][1].len <= MaxLen
  BY <1>1, <1>2, <1>3 DEF Framed
<1>5. ASSUME NEW i \in 1 .. Len(V) - 1
      PROVE  Follows(V[i], V[i + 1])
  <2>1. i + T \in 1 .. Len(U) - 1 /\ (i + T) + 1 = (i + 1) + T /\ i \in 1 .. Len(V) /\ i + 1 \in 1 .. Len(V)
    BY <1>1
  <2>2. U[i + T] = V[i] /\ U[(i + 1) + T] = V[i + 1]
    BY <1>1, <2>1
  <2>3. Follows(U[i + T], U[(i + T) + 1])
    BY <1>2, <2>1 DEF Framed
  <2> QED BY <2>1, <2>2, <2>3
<1>6. ASSUME V # <<>> PROVE V[1][2] = 1
  <2>1. Len(V) >= 1
    BY <1>1, <1>6, EmptySeq
  <2>2. T \in 1 .. Len(U) - 1 /\ T \in 1 .. T /\ 1 \in 1 .. Len(V)
    BY <1>1, <2>1
  <2>3. U[T] = <<p, T>> /\ U[T + 1] = V[1]
    BY <1>1, <2>2
  <2>4. U[T][2] = T /\ Total(U[T][1]) = T
    BY <1>2, <2>3
  <2>5. Follows(U[T], U[T + 1])
    BY <1>2, <2>2 DEF Framed
  <2>6. U[T + 1][2] = 1
    BY <1>1, <2>4, <2>5 DEF Follows
  <2> QED BY <2>3, <2>6
<1>7. ASSUME Closed(U), V # <<>> PROVE V[Len(V)][2] = Total(V[Len(V)][1])
  <2>1. Len(V) >= 1
    BY <1>1, <1>7, EmptySeq
  <2>2. Len(V) \in 1 .. Len(V) /\ Len(V) + T = Len(U) /\ Len(U) > 0
    BY <1>1, <2>1
  <2>3. U[Len(U)] = V[Len(V)] /\ U # <<>>
    BY <1>1, <2>2, EmptySeq
  <2> QED BY <1>7, <2>3 DEF Closed
<1>8. Framed(V)
  BY <1>4, <1>5, <1>6 DEF Framed
<1>9. Closed(U) => Closed(V)
  BY <1>7 DEF Closed
<1> QED BY <1>8, <1>9 DEF U

(* The front of a stream that goes packet by packet is no malformed packet *)
LEMMA FramedAdjacent ==
    ASSUME NEW U \in Seq(Cell), Framed(U), U # <<>>
    PROVE  \A i \in Nat : i \in 1 .. Len(U) /\ i <= Total(U[1][1]) => U[i] = <<U[1][1], i>>
<1>1. Len(U) \in Nat \ {0}
  BY EmptySeq
<1>2. U[1] \in Cell /\ U[1][2] = 1
  BY <1>1, ElementOfSeq DEF Framed
<1> DEFINE p == U[1][1]
<1>3. U[1] = <<p, 1>> /\ Total(p) \in Nat
  BY <1>2, CellFacts
<1> DEFINE S == {i \in Nat : i \in 1 .. Len(U) /\ i <= Total(p) => U[i] = <<p, i>>}
<1> HIDE DEF p
<1>4. 0 \in S
  OBVIOUS
<1>5. ASSUME NEW i \in Nat, i \in S PROVE i + 1 \in S
  <2> SUFFICES ASSUME i + 1 \in 1 .. Len(U), i + 1 <= Total(p) PROVE U[i + 1] = <<p, i + 1>>
    OBVIOUS
  <2>1. CASE i = 0
    BY <1>3, <2>1
  <2>2. CASE i # 0
    <3>1. i \in 1 .. Len(U) - 1 /\ i \in 1 .. Len(U) /\ i <= Total(p) /\ i < Total(p)
      BY <1>1, <1>3, <2>2
    <3>2. U[i] = <<p, i>>
      BY <1>5, <3>1
    <3>3. U[i][1] = p /\ U[i][2] = i
      BY <3>2
    <3>4. Follows(U[i], U[i + 1])
      BY <3>1 DEF Framed
    <3>5. U[i + 1] = <<U[i][1], U[i][2] + 1>>
      BY <3>1, <3>3, <3>4 DEF Follows
    <3> QED BY <3>3, <3>5
  <2> QED BY <2>1, <2>2
<1> HIDE DEF S
<1>6. Nat \subseteq S
  BY <1>4, <1>5, NatSetInduction
<1> QED BY <1>6 DEF S, p

-----------------------------------------------------------------------------
(* A stream cut short                                                      *)

\* The part of an ordered stream that is written is ordered.
LEMMA OrderedPrefix ==
    ASSUME NEW U \in Seq(Cell), NEW V \in Seq(Cell), NEW k \in Nat, NEW m \in Nat,
           Ordered(U \o V, k, m)
    PROVE  Ordered(U, k, m)
<1> DEFINE W == U \o V
<1>1. /\ Len(U) \in Nat /\ Len(V) \in Nat /\ Len(W) = Len(U) + Len(V)
      /\ \A i \in 1 .. Len(U) : W[i] = U[i]
  BY JoinIndex
<1>2. Ordered(W, k, m)
  OBVIOUS
<1> HIDE DEF W
<1> SUFFICES ASSUME NEW i \in 1 .. Len(U), IsFirst(U[i])
             PROVE  /\ U[i][1].n \in k + 1 .. m
                    /\ \A j \in 1 .. i - 1 : IsFirst(U[j]) => U[j][1].n < U[i][1].n
                    /\ \A x \in k + 1 .. U[i][1].n - 1 :
                          \E j \in 1 .. i - 1 : IsFirst(U[j]) /\ U[j][1].n = x
  BY DEF Ordered
<1>3. i \in 1 .. Len(W) /\ W[i] = U[i] /\ \A j \in 1 .. i - 1 : W[j] = U[j]
  BY <1>1
<1>4. /\ W[i][1].n \in k + 1 .. m
      /\ \A j \in 1 .. i - 1 : IsFirst(W[j]) => W[j][1].n < W[i][1].n
      /\ \A x \in k + 1 .. W[i][1].n - 1 : \E j \in 1 .. i - 1 : IsFirst(W[j]) /\ W[j][1].n = x
  BY <1>2, <1>3 DEF Ordered
<1> QED BY <1>3, <1>4

\* A stream cut anywhere is packet by packet, the last one cut short.
LEMMA FramedPrefix ==
    ASSUME NEW U \in Seq(Cell), NEW V \in Seq(Cell), Framed(U \o V)
    PROVE  Framed(U)
<1> DEFINE W == U \o V
<1>1. /\ Len(U) \in Nat /\ Len(V) \in Nat /\ Len(W) = Len(U) + Len(V) /\ W \in Seq(Cell)
      /\ \A i \in 1 .. Len(U) : W[i] = U[i]
  BY JoinIndex
<1>2. Framed(W)
  OBVIOUS
<1> HIDE DEF W
<1>3. ASSUME U # <<>> PROVE U[1][2] = 1
  <2>1. Len(U) >= 1
    BY <1>1, <1>3, EmptySeq
  <2>2. W # <<>> /\ W[1] = U[1]
    BY <1>1, <2>1, EmptySeq
  <2> QED BY <1>2, <2>2 DEF Framed
<1>4. \A i \in 1 .. Len(U) : U[i][2] \in 1 .. Total(U[i][1]) /\ U[i][1].len <= MaxLen
  <2>1. \A i \in 1 .. Len(U) : i \in 1 .. Len(W)
    BY <1>1
  <2> QED BY <1>1, <1>2, <2>1 DEF Framed
<1>5. ASSUME NEW i \in 1 .. Len(U) - 1 PROVE Follows(U[i], U[i + 1])
  <2>1. i \in 1 .. Len(W) - 1 /\ i \in 1 .. Len(U) /\ i + 1 \in 1 .. Len(U)
    BY <1>1
  <2>2. Follows(W[i], W[i + 1]) /\ W[i] = U[i] /\ W[i + 1] = U[i + 1]
    BY <1>1, <1>2, <2>1 DEF Framed
  <2> QED BY <2>2
<1> QED BY <1>3, <1>4, <1>5 DEF Framed

-----------------------------------------------------------------------------
(* Heartbeats written into a stream                                        *)

(* What is in order stays so when cells that begin no message are put in.  *)
LEMMA OrderedEmbeds ==
    ASSUME NEW U \in Seq(Cell), NEW W \in Seq(Cell), NEW k \in Nat, NEW m \in Nat,
           NEW at \in [1 .. Len(U) -> 1 .. Len(W)],
           \A i \in 1 .. Len(U) : W[at[i]] = U[i],
           \A i \in 1 .. Len(U) : \A j \in 1 .. Len(U) : j < i <=> at[j] < at[i],
           \A i \in 1 .. Len(W) : IsFirst(W[i]) => \E j \in 1 .. Len(U) : at[j] = i
    PROVE  /\ Ordered(U, k, m) => Ordered(W, k, m)
           /\ Complete(U, k, m) => Complete(W, k, m)
<1>0. Len(U) \in Nat /\ Len(W) \in Nat
  BY LenProperties
<1>1. ASSUME Ordered(U, k, m) PROVE Ordered(W, k, m)
  <2> SUFFICES ASSUME NEW i \in 1 .. Len(W), IsFirst(W[i])
               PROVE  /\ W[i][1].n \in k + 1 .. m
                      /\ \A j \in 1 .. i - 1 : IsFirst(W[j]) => W[j][1].n < W[i][1].n
                      /\ \A x \in k + 1 .. W[i][1].n - 1 :
                            \E j \in 1 .. i - 1 : IsFirst(W[j]) /\ W[j][1].n = x
    BY DEF Ordered
  <2>1. PICK h \in 1 .. Len(U) : at[h] = i
    OBVIOUS
  <2>2. U[h] = W[i] /\ IsFirst(U[h])
    BY <2>1
  <2>3. /\ U[h][1].n \in k + 1 .. m
        /\ \A j \in 1 .. h - 1 : IsFirst(U[j]) => U[j][1].n < U[h][1].n
        /\ \A x \in k + 1 .. U[h][1].n - 1 :
              \E j \in 1 .. h - 1 : IsFirst(U[j]) /\ U[j][1].n = x
    BY <1>1, <2>2 DEF Ordered
  <2>4. ASSUME NEW j \in 1 .. i - 1, IsFirst(W[j]) PROVE W[j][1].n < W[i][1].n
    <3>1. j \in 1 .. Len(W)
      BY <1>0
    <3>2. PICK g \in 1 .. Len(U) : at[g] = j
      BY <2>4, <3>1
    <3>3. g < h
      BY <2>1, <3>2
    <3>4. g \in 1 .. h - 1 /\ U[g] = W[j]
      BY <1>0, <3>2, <3>3
    <3> QED BY <2>2, <2>3, <2>4, <3>4
  <2>5. ASSUME NEW x \in k + 1 .. W[i][1].n - 1
        PROVE  \E j \in 1 .. i - 1 : IsFirst(W[j]) /\ W[j][1].n = x
    <3>1. PICK g \in 1 .. h - 1 : IsFirst(U[g]) /\ U[g][1].n = x
      BY <2>2, <2>3
    <3>2. g \in 1 .. Len(U) /\ g < h
      BY <1>0
    <3>3. at[g] < i /\ at[g] \in 1 .. Len(W)
      BY <2>1, <3>2
    <3>4. at[g] \in 1 .. i - 1 /\ W[at[g]] = U[g]
      BY <1>0, <3>2, <3>3
    <3> QED BY <3>1, <3>4
  <2> QED BY <2>2, <2>3, <2>4, <2>5
<1>2. ASSUME Complete(U, k, m) PROVE Complete(W, k, m)
  <2> SUFFICES ASSUME NEW x \in k + 1 .. m
               PROVE  \E j \in 1 .. Len(W) : IsFirst(W[j]) /\ W[j][1].n = x
    BY DEF Complete
  <2>1. PICK j \in 1 .. Len(U) : IsFirst(U[j]) /\ U[j][1].n = x
    BY <1>2 DEF Complete
  <2>2. at[j] \in 1 .. Len(W) /\ W[at[j]] = U[j]
    OBVIOUS
  <2> QED BY <2>1, <2>2
<1> QED BY <1>1, <1>2

(* Where the cells are when A is written between X and Y *)
LEMMA InsertIndex ==
    ASSUME NEW X \in Seq(Cell), NEW A \in Seq(Cell), NEW Y \in Seq(Cell)
    PROVE  /\ Len(X) \in Nat /\ Len(A) \in Nat /\ Len(Y) \in Nat
           /\ X \o Y \in Seq(Cell) /\ Len(X \o Y) = Len(X) + Len(Y)
           /\ (X \o A) \o Y \in Seq(Cell)
           /\ Len((X \o A) \o Y) = Len(X) + Len(A) + Len(Y)
           /\ \A i \in 1 .. Len(X) : (X \o Y)[i] = X[i] /\ ((X \o A) \o Y)[i] = X[i]
           /\ \A i \in 1 .. Len(A) : ((X \o A) \o Y)[Len(X) + i] = A[i]
           /\ \A i \in 1 .. Len(Y) : /\ (X \o Y)[Len(X) + i] = Y[i]
                                     /\ ((X \o A) \o Y)[(Len(X) + Len(A)) + i] = Y[i]
<1>1. /\ Len(X) \in Nat /\ Len(A) \in Nat /\ Len(Y) \in Nat
      /\ X \o Y \in Seq(Cell) /\ Len(X \o Y) = Len(X) + Len(Y)
      /\ \A i \in 1 .. Len(X) : (X \o Y)[i] = X[i]
      /\ \A i \in 1 .. Len(Y) : (X \o Y)[Len(X) + i] = Y[i]
  BY JoinIndex
<1>2. /\ X \o A \in Seq(Cell) /\ Len(X \o A) = Len(X) + Len(A)
      /\ \A i \in 1 .. Len(X) : (X \o A)[i] = X[i]
      /\ \A i \in 1 .. Len(A) : (X \o A)[Len(X) + i] = A[i]
  BY JoinIndex
<1> DEFINE Z == X \o A
<1>3. /\ Z \o Y \in Seq(Cell) /\ Len(Z \o Y) = Len(Z) + Len(Y)
      /\ \A i \in 1 .. Len(Z) : (Z \o Y)[i] = Z[i]
      /\ \A i \in 1 .. Len(Y) : (Z \o Y)[Len(Z) + i] = Y[i]
  BY <1>2, JoinIndex
<1>4. Len(Z) = Len(X) + Len(A)
  BY <1>2
<1>5. /\ \A i \in 1 .. Len(X) : Z[i] = X[i] /\ i \in 1 .. Len(Z)
      /\ \A i \in 1 .. Len(A) : Z[Len(X) + i] = A[i] /\ Len(X) + i \in 1 .. Len(Z)
  BY <1>1, <1>2
<1> HIDE DEF Z
<1>6. /\ \A i \in 1 .. Len(X) : (Z \o Y)[i] = X[i]
      /\ \A i \in 1 .. Len(A) : (Z \o Y)[Len(X) + i] = A[i]
  BY <1>3, <1>5
<1>7. /\ Z \o Y \in Seq(Cell) /\ Len(Z \o Y) = Len(X) + Len(A) + Len(Y)
      /\ \A i \in 1 .. Len(Y) : (Z \o Y)[(Len(X) + Len(A)) + i] = Y[i]
  BY <1>1, <1>3, <1>4
<1> QED BY <1>1, <1>6, <1>7 DEF Z

\* A stream of heartbeats
Hearts(A) ==
    /\ A \in Seq(Cell) /\ \A i \in 1 .. Len(A) : A[i][1].kind # "data"
    /\ Backed(A) /\ Framed(A)

\* Heartbeats in the middle leave the messages in order and complete.
LEMMA OrderedInsert ==
    ASSUME NEW X \in Seq(Cell), NEW A \in Seq(Cell), NEW Y \in Seq(Cell),
           NEW k \in Nat, NEW m \in Nat, \A i \in 1 .. Len(A) : A[i][1].kind # "data"
    PROVE  /\ Ordered(X \o Y, k, m) => Ordered((X \o A) \o Y, k, m)
           /\ Complete(X \o Y, k, m) => Complete((X \o A) \o Y, k, m)
<1> DEFINE U == X \o Y
           W == (X \o A) \o Y
           a == Len(X)
           b == Len(A)
           at == [i \in 1 .. Len(U) |-> IF i <= a THEN i ELSE b + i]
<1>1. /\ a \in Nat /\ b \in Nat /\ Len(Y) \in Nat
      /\ U \in Seq(Cell) /\ Len(U) = a + Len(Y) /\ W \in Seq(Cell) /\ Len(W) = a + b + Len(Y)
      /\ \A i \in 1 .. a : U[i] = X[i] /\ W[i] = X[i]
      /\ \A i \in 1 .. b : W[a + i] = A[i]
      /\ \A i \in 1 .. Len(Y) : U[a + i] = Y[i] /\ W[(a + b) + i] = Y[i]
  BY InsertIndex
<1>2. \A i \in 1 .. b : A[i][1].kind # "data"
  OBVIOUS
<1> HIDE DEF U, W, a, b
<1>3. \A i \in 1 .. Len(U) : at[i] = IF i <= a THEN i ELSE b + i
  OBVIOUS
<1>4. at \in [1 .. Len(U) -> 1 .. Len(W)]
  <2>1. \A i \in 1 .. Len(U) : (IF i <= a THEN i ELSE b + i) \in 1 .. Len(W)
    BY <1>1
  <2> QED BY <2>1
<1> HIDE DEF at
<1>5. ASSUME NEW i \in 1 .. Len(U) PROVE W[at[i]] = U[i]
  <2>1. CASE i <= a
    BY <1>1, <1>3, <2>1
  <2>2. CASE ~(i <= a)
    <3>1. i - a \in 1 .. Len(Y) /\ a + (i - a) = i /\ (a + b) + (i - a) = b + i
      BY <1>1, <2>2
    <3>2. U[a + (i - a)] = Y[i - a] /\ W[(a + b) + (i - a)] = Y[i - a]
      BY <1>1, <3>1
    <3>3. at[i] = b + i
      BY <1>3, <2>2
    <3> QED BY <3>1, <3>2, <3>3
  <2> QED BY <2>1, <2>2
<1>6. ASSUME NEW i \in 1 .. Len(U), NEW j \in 1 .. Len(U) PROVE j < i <=> at[j] < at[i]
  <2>1. /\ at[i] = IF i <= a THEN i ELSE b + i
        /\ at[j] = IF j <= a THEN j ELSE b + j
    BY <1>3
  <2>2. i \in Int /\ j \in Int
    OBVIOUS
  <2>3. CASE i <= a
    BY <1>1, <2>1, <2>2, <2>3
  <2>4. CASE ~(i <= a)
    BY <1>1, <2>1, <2>2, <2>4
  <2> QED BY <2>3, <2>4
<1>7. ASSUME NEW i \in 1 .. Len(W), IsFirst(W[i]) PROVE \E j \in 1 .. Len(U) : at[j] = i
  <2>1. CASE i <= a
    <3>1. i \in 1 .. Len(U) /\ at[i] = i
      BY <1>1, <1>3, <2>1
    <3> QED BY <3>1
  <2>2. CASE ~(i <= a) /\ i <= a + b
    <3>1. i - a \in 1 .. b /\ a + (i - a) = i
      BY <1>1, <2>2
    <3>2. W[i] = A[i - a] /\ A[i - a][1].kind # "data"
      BY <1>1, <1>2, <3>1
    <3> QED BY <1>7, <3>2 DEF IsFirst
  <2>3. CASE ~(i <= a + b)
    <3>1. i - b \in 1 .. Len(U) /\ ~(i - b <= a) /\ b + (i - b) = i
      BY <1>1, <2>3
    <3>2. at[i - b] = i
      BY <1>3, <3>1
    <3> QED BY <3>1, <3>2
  <2> QED BY <2>1, <2>2, <2>3
<1>8. /\ Ordered(U, k, m) => Ordered(W, k, m)
      /\ Complete(U, k, m) => Complete(W, k, m)
  BY <1>1, <1>4, <1>5, <1>6, <1>7, OrderedEmbeds
<1> QED BY <1>8 DEF U, W

\* A longer rest is room enough as well.
LEMMA RoomMore ==
    ASSUME NEW c \in Cell, NEW n \in Int, NEW m \in Int, m >= n, Room(n, c)
    PROVE  Room(m, c)
<1>1. Total(c[1]) \in Int /\ c[2] \in Int
  BY CellFacts
<1> QED BY <1>1 DEF Room

\* Heartbeats in the middle leave room for every packet to end.
LEMMA BackedInsert ==
    ASSUME NEW X \in Seq(Cell), NEW A \in Seq(Cell), NEW Y \in Seq(Cell),
           Backed(A), Backed(X \o Y)
    PROVE  Backed((X \o A) \o Y)
<1> DEFINE U == X \o Y
           W == (X \o A) \o Y
           a == Len(X)
           b == Len(A)
<1>1. /\ a \in Nat /\ b \in Nat /\ Len(Y) \in Nat
      /\ U \in Seq(Cell) /\ Len(U) = a + Len(Y) /\ W \in Seq(Cell) /\ Len(W) = a + b + Len(Y)
      /\ \A i \in 1 .. a : U[i] = X[i] /\ W[i] = X[i]
      /\ \A i \in 1 .. b : W[a + i] = A[i]
      /\ \A i \in 1 .. Len(Y) : U[a + i] = Y[i] /\ W[(a + b) + i] = Y[i]
  BY InsertIndex
<1>2. Backed(U) /\ Backed(A) /\ b = Len(A)
  OBVIOUS
<1> HIDE DEF U, W, a, b
<1> SUFFICES ASSUME NEW i \in 1 .. Len(W) PROVE Room(Len(W) - i, W[i])
  BY DEF Backed, W
<1>4. CASE i <= a
  <2>1. /\ i \in 1 .. Len(U) /\ U[i] = W[i] /\ Len(W) - i >= Len(U) - i
        /\ Len(W) - i \in Int /\ Len(U) - i \in Int
    BY <1>1, <1>4
  <2>2. Room(Len(U) - i, U[i]) /\ U[i] \in Cell
    BY <1>1, <1>2, <2>1, ElementOfSeq DEF Backed
  <2> QED BY <2>1, <2>2, RoomMore
<1>5. CASE ~(i <= a) /\ i <= a + b
  <2>1. i - a \in 1 .. b /\ a + (i - a) = i
    BY <1>1, <1>5
  <2>2. W[i] = A[i - a]
    BY <1>1, <2>1
  <2>3. Room(b - (i - a), A[i - a]) /\ A[i - a] \in Cell
    BY <1>2, <2>1, ElementOfSeq DEF Backed
  <2>4. Len(W) - i >= b - (i - a) /\ Len(W) - i \in Int /\ b - (i - a) \in Int
    BY <1>1
  <2> QED BY <2>2, <2>3, <2>4, RoomMore
<1>6. CASE ~(i <= a + b)
  <2>1. i - b \in 1 .. Len(U) /\ Len(W) - i = Len(U) - (i - b)
    BY <1>1, <1>6
  <2>2. i - (a + b) \in 1 .. Len(Y) /\ a + (i - (a + b)) = i - b /\ (a + b) + (i - (a + b)) = i
    BY <1>1, <1>6
  <2>3. U[a + (i - (a + b))] = Y[i - (a + b)] /\ W[(a + b) + (i - (a + b))] = Y[i - (a + b)]
    BY <1>1, <2>2
  <2>4. Room(Len(U) - (i - b), U[i - b])
    BY <1>2, <2>1 DEF Backed
  <2> QED BY <2>1, <2>2, <2>3, <2>4
<1> QED BY <1>1, <1>4, <1>5, <1>6

(* A stream with room for its packets ends with one. *)
LEMMA BackedClosed ==
    ASSUME NEW U \in Seq(Cell), Backed(U)
    PROVE  Closed(U)
<1> SUFFICES ASSUME U # <<>> PROVE U[Len(U)][2] = Total(U[Len(U)][1])
  BY DEF Closed
<1>1. Len(U) \in 1 .. Len(U) /\ Len(U) \in Nat
  BY EmptySeq
<1>2. U[Len(U)] \in Cell
  BY <1>1, ElementOfSeq
<1>3. Total(U[Len(U)][1]) \in Nat /\ U[Len(U)][2] \in Nat
  BY <1>2, CellFacts
<1>4. Room(Len(U) - Len(U), U[Len(U)])
  BY <1>1 DEF Backed
<1> QED BY <1>1, <1>3, <1>4 DEF Room

(* Framed heartbeats between two packets leave a stream of packets.        *)
LEMMA FramedInsert ==
    ASSUME NEW X \in Seq(Cell), NEW A \in Seq(Cell), NEW Y \in Seq(Cell),
           Framed(A), Closed(A), Framed(X \o Y), Closed(X)
    PROVE  Framed((X \o A) \o Y)
<1> DEFINE U == X \o Y
           W == (X \o A) \o Y
           a == Len(X)
           b == Len(A)
           c == Len(Y)
<1>1. /\ a \in Nat /\ b \in Nat /\ c \in Nat
      /\ U \in Seq(Cell) /\ Len(U) = a + c /\ W \in Seq(Cell) /\ Len(W) = a + b + c
      /\ \A i \in 1 .. a : U[i] = X[i] /\ W[i] = X[i]
      /\ \A i \in 1 .. b : W[a + i] = A[i]
      /\ \A i \in 1 .. c : U[a + i] = Y[i] /\ W[(a + b) + i] = Y[i]
  BY InsertIndex
<1>2. Framed(U) /\ Framed(A) /\ Closed(A) /\ Closed(X)
  OBVIOUS
<1>3. /\ a # 0 => X # <<>> /\ X[a][2] = Total(X[a][1])
      /\ b # 0 => A # <<>> /\ A[b][2] = Total(A[b][1])
  BY <1>2, EmptySeq DEF Closed
<1>4. b = Len(A) /\ (a + c # 0 => U # <<>>)
  BY <1>1, EmptySeq
<1>0. a \in Nat /\ b \in Nat /\ c \in Nat /\ Len(U) = a + c /\ Len(W) = a + b + c
  BY <1>1
<1> HIDE DEF U, W, a, b, c
\* Where a packet begins
<1>5. b # 0 => A[1][2] = 1
  BY <1>2, <1>3 DEF Framed
<1>6. ASSUME a = 0, c # 0 PROVE Y[1][2] = 1
  <2>1. 1 \in 1 .. c /\ a + 1 = 1 /\ a + c # 0
    BY <1>1, <1>6
  <2>2. U[a + 1] = Y[1]
    BY <1>1, <2>1
  <2>3. U[1][2] = 1
    BY <1>2, <1>4, <2>1 DEF Framed
  <2> QED BY <2>1, <2>2, <2>3
<1>7. ASSUME a # 0, c # 0 PROVE Y[1][2] = 1
  <2>1. 1 \in 1 .. c /\ a \in 1 .. a /\ a \in 1 .. Len(U) - 1
    BY <1>1, <1>7
  <2>2. U[a] = X[a] /\ U[a + 1] = Y[1]
    BY <1>1, <2>1
  <2>3. Follows(U[a], U[a + 1])
    BY <1>2, <2>1 DEF Framed
  <2>4. U[a] \in Cell
    BY <1>1, <2>1, ElementOfSeq
  <2>5. U[a][2] \in Nat /\ Total(U[a][1]) \in Nat /\ U[a][2] = Total(U[a][1])
    BY <1>3, <1>7, <2>2, <2>4, CellFacts
  <2> QED BY <2>2, <2>3, <2>5 DEF Follows
<1>8. c # 0 => Y[1][2] = 1
  BY <1>6, <1>7
<1>9. ASSUME a # 0 PROVE W[1] = U[1] /\ U[1][2] = 1
  <2>1. 1 \in 1 .. a /\ a + c # 0
    BY <1>1, <1>9
  <2> QED BY <1>1, <1>2, <1>4, <2>1 DEF Framed
<1>10. ASSUME W # <<>> PROVE W[1][2] = 1
  <2>1. Len(W) # 0
    BY <1>1, <1>10, EmptySeq
  <2>2. CASE a # 0
    BY <1>9, <2>2
  <2>3. CASE a = 0 /\ b # 0
    <3>1. 1 \in 1 .. b /\ a + 1 = 1
      BY <1>1, <2>3
    <3> QED BY <1>1, <1>5, <2>3, <3>1
  <2>4. CASE a = 0 /\ b = 0
    <3>1. 1 \in 1 .. c /\ (a + b) + 1 = 1 /\ c # 0
      BY <1>1, <2>1, <2>4
    <3>2. W[(a + b) + 1] = Y[1]
      BY <1>1, <3>1
    <3> QED BY <1>8, <3>1, <3>2
  <2> QED BY <2>2, <2>3, <2>4
<1>11. ASSUME NEW i \in 1 .. Len(W)
       PROVE  W[i][2] \in 1 .. Total(W[i][1]) /\ W[i][1].len <= MaxLen
  <2>1. CASE i <= a
    <3>1. i \in 1 .. a /\ i \in 1 .. Len(U)
      BY <1>1, <2>1
    <3>2. W[i] = U[i]
      BY <1>1, <3>1
    <3> QED BY <1>2, <3>1, <3>2 DEF Framed
  <2>2. CASE ~(i <= a) /\ i <= a + b
    <3>1. i - a \in 1 .. b /\ a + (i - a) = i
      BY <1>0, <2>2
    <3>2. W[a + (i - a)] = A[i - a]
      BY <1>1, <3>1
    <3>3. A[i - a][2] \in 1 .. Total(A[i - a][1]) /\ A[i - a][1].len <= MaxLen
      BY <1>2, <1>4, <3>1 DEF Framed
    <3> QED BY <3>1, <3>2, <3>3
  <2>3. CASE ~(i <= a + b)
    <3>1. /\ i - (a + b) \in 1 .. c /\ (a + b) + (i - (a + b)) = i
          /\ a + (i - (a + b)) \in 1 .. Len(U)
      BY <1>0, <2>3
    <3>2. W[(a + b) + (i - (a + b))] = Y[i - (a + b)] /\ U[a + (i - (a + b))] = Y[i - (a + b)]
      BY <1>1, <3>1
    <3>3. LET d == U[a + (i - (a + b))] IN d[2] \in 1 .. Total(d[1]) /\ d[1].len <= MaxLen
      BY <1>2, <3>1 DEF Framed
    <3> QED BY <3>1, <3>2, <3>3
  <2> QED BY <1>0, <2>1, <2>2, <2>3
<1>12. ASSUME NEW i \in 1 .. Len(W) - 1 PROVE Follows(W[i], W[i + 1])
  <2>1. CASE i < a
    <3>1. i \in 1 .. a /\ i + 1 \in 1 .. a /\ i \in 1 .. Len(U) - 1
      BY <1>1, <2>1
    <3>2. W[i] = U[i] /\ W[i + 1] = U[i + 1]
      BY <1>1, <3>1
    <3> QED BY <1>2, <3>1, <3>2 DEF Framed
  <2>2. CASE i = a
    <3>1. a # 0 /\ a \in 1 .. a
      BY <1>1, <2>2
    <3>2. W[i] = X[a] /\ X[a][2] = Total(X[a][1])
      BY <1>1, <1>3, <2>2, <3>1
    <3>3. W[i] \in Cell
      <4>1. i \in 1 .. Len(W)
        BY <1>1, <2>2, <3>1
      <4> QED BY <1>1, <4>1, ElementOfSeq
    <3>4. ~(W[i][2] < Total(W[i][1]))
      BY <3>2, <3>3, CellFacts
    <3>5. W[i + 1][2] = 1
      <4>1. CASE b # 0
        <5>1. 1 \in 1 .. b /\ a + 1 = i + 1
          BY <1>1, <2>2, <4>1
        <5> QED BY <1>1, <1>5, <4>1, <5>1
      <4>2. CASE b = 0
        <5>1. 1 \in 1 .. c /\ (a + b) + 1 = i + 1 /\ c # 0
          BY <1>1, <2>2, <4>2
        <5>2. W[(a + b) + 1] = Y[1]
          BY <1>1, <5>1
        <5> QED BY <1>8, <5>1, <5>2
      <4> QED BY <4>1, <4>2
    <3> QED BY <3>4, <3>5 DEF Follows
  <2>3. CASE i > a /\ i < a + b
    <3>1. /\ i - a \in 1 .. b - 1 /\ i - a \in 1 .. b /\ (i - a) + 1 \in 1 .. b
          /\ a + (i - a) = i /\ a + ((i - a) + 1) = i + 1
      BY <1>0, <2>3
    <3>2. W[a + (i - a)] = A[i - a] /\ W[a + ((i - a) + 1)] = A[(i - a) + 1]
      BY <1>1, <3>1
    <3>3. Follows(A[i - a], A[(i - a) + 1])
      BY <1>2, <1>4, <3>1 DEF Framed
    <3> QED BY <3>1, <3>2, <3>3
  <2>4. CASE i > a /\ i = a + b
    <3>1. b # 0 /\ b \in 1 .. b /\ c # 0 /\ 1 \in 1 .. c /\ (a + b) + 1 = i + 1
      BY <1>0, <2>4
    <3>2. W[a + b] = A[b] /\ A[b][2] = Total(A[b][1]) /\ W[(a + b) + 1] = Y[1] /\ Y[1][2] = 1
      BY <1>1, <1>3, <1>8, <3>1
    <3>3. W[i] \in Cell
      <4>1. i \in 1 .. Len(W)
        BY <1>1
      <4> QED BY <1>1, <4>1, ElementOfSeq
    <3>4. ~(W[i][2] < Total(W[i][1])) /\ W[i + 1][2] = 1
      BY <2>4, <3>1, <3>2, <3>3, CellFacts
    <3> QED BY <3>4 DEF Follows
  <2>5. CASE i > a + b
    <3> DEFINE h == i - (a + b)
    <3>1. /\ h \in 1 .. c /\ h + 1 \in 1 .. c /\ a + h \in 1 .. Len(U) - 1
          /\ (a + b) + h = i /\ (a + b) + (h + 1) = i + 1 /\ a + (h + 1) = (a + h) + 1
      BY <1>0, <2>5
    <3> HIDE DEF h
    <3>2. W[(a + b) + h] = Y[h] /\ W[(a + b) + (h + 1)] = Y[h + 1]
            /\ U[a + h] = Y[h] /\ U[a + (h + 1)] = Y[h + 1]
      BY <1>1, <3>1
    <3>3. Follows(U[a + h], U[(a + h) + 1])
      BY <1>2, <3>1 DEF Framed
    <3> QED BY <3>1, <3>2, <3>3
  <2> QED BY <1>0, <2>1, <2>2, <2>3, <2>4, <2>5
<1>13. Framed(W)
  BY <1>10, <1>11, <1>12 DEF Framed
<1> QED BY <1>13 DEF W

\* Two streams that end with a packet, put together
LEMMA ClosedJoin ==
    ASSUME NEW X \in Seq(Cell), NEW A \in Seq(Cell), Closed(A), Closed(X)
    PROVE  Closed(X \o A)
<1>1. /\ Len(X) \in Nat /\ Len(A) \in Nat /\ X \o A \in Seq(Cell)
      /\ Len(X \o A) = Len(X) + Len(A)
      /\ \A i \in 1 .. Len(X) : (X \o A)[i] = X[i]
      /\ \A i \in 1 .. Len(A) : (X \o A)[Len(X) + i] = A[i]
  BY JoinIndex
<1>2. CASE A = <<>>
  <2>1. X \o A = X
    BY <1>2, ConcatEmptySeq
  <2> QED BY <2>1
<1>3. CASE A # <<>>
  <2>1. Len(A) \in 1 .. Len(A)
    BY <1>3, EmptySeq
  <2>2. (X \o A)[Len(X) + Len(A)] = A[Len(A)]
    BY <1>1, <2>1
  <2> QED BY <1>1, <1>3, <2>2 DEF Closed
<1> QED BY <1>2, <1>3

-----------------------------------------------------------------------------
(* A packet at the end of a stream                                         *)

\* The cells of one packet
LEMMA PacketFramed ==
    ASSUME NEW p \in PacketSet, p.len <= MaxLen
    PROVE  Framed(Cells(p)) /\ Backed(Cells(p)) /\ Closed(Cells(p))
<1> DEFINE C == Cells(p)
           T == Total(p)
<1>1. /\ C \in Seq(Cell) /\ Len(C) = T /\ T \in Nat /\ T >= 2 /\ T = Total(p)
      /\ \A i \in 1 .. T : C[i] = <<p, i>>
  BY CellsOf DEF HeadLen
<1> HIDE DEF C, T
<1>2. ASSUME NEW i \in 1 .. T PROVE C[i][1] = p /\ C[i][2] = i
  BY <1>1
<1>3. C[1][2] = 1
  BY <1>1, <1>2
<1>4. \A i \in 1 .. Len(C) : C[i][2] \in 1 .. Total(C[i][1]) /\ C[i][1].len <= MaxLen
  BY <1>1, <1>2
<1>5. ASSUME NEW i \in 1 .. Len(C) - 1 PROVE Follows(C[i], C[i + 1])
  <2>1. i \in 1 .. T /\ i + 1 \in 1 .. T /\ i < T
    BY <1>1
  <2>2. C[i][1] = p /\ C[i][2] = i /\ C[i + 1] = <<p, i + 1>>
    BY <1>1, <1>2, <2>1
  <2> QED BY <1>1, <2>1, <2>2 DEF Follows
<1>6. Framed(C)
  BY <1>3, <1>4, <1>5 DEF Framed
<1>7. Backed(C)
  <2> SUFFICES ASSUME NEW i \in 1 .. Len(C) PROVE Room(Len(C) - i, C[i])
    BY DEF Backed
  <2>1. C[i][1] = p /\ C[i][2] = i
    BY <1>1, <1>2
  <2> QED BY <1>1, <2>1 DEF Room
<1>8. Closed(C)
  BY <1>1, <1>7, BackedClosed
<1> QED BY <1>6, <1>7, <1>8 DEF C

\* A packet written after a whole packet
LEMMA FramedGrows ==
    ASSUME NEW U \in Seq(Cell), NEW p \in PacketSet, p.len <= MaxLen, Framed(U), Closed(U)
    PROVE  Framed(U \o Cells(p))
<1> DEFINE C == Cells(p)
<1>1. C \in Seq(Cell) /\ Framed(C) /\ Closed(C)
  BY CellsOf, PacketFramed
<1>2. <<>> \in Seq(Cell) /\ U \o <<>> = U /\ U \o C \in Seq(Cell)
  BY <1>1, EmptySeq, ConcatEmptySeq, ConcatProperties
<1> HIDE DEF C
<1>3. Framed(U \o <<>>)
  BY <1>2
<1>4. Framed((U \o C) \o <<>>)
  BY <1>1, <1>2, <1>3, FramedInsert
<1>5. (U \o C) \o <<>> = U \o C
  BY <1>2, ConcatEmptySeq
<1> QED BY <1>4, <1>5 DEF C

\* Two streams with room for their packets, put together
LEMMA BackedGrows ==
    ASSUME NEW U \in Seq(Cell), NEW A \in Seq(Cell), Backed(U), Backed(A)
    PROVE  Backed(U \o A)
<1>1. <<>> \in Seq(Cell) /\ U \o <<>> = U /\ U \o A \in Seq(Cell)
  BY EmptySeq, ConcatEmptySeq, ConcatProperties
<1>2. Backed(U \o <<>>)
  BY <1>1
<1>3. Backed((U \o A) \o <<>>)
  BY <1>1, <1>2, BackedInsert
<1>4. (U \o A) \o <<>> = U \o A
  BY <1>1, ConcatEmptySeq
<1> QED BY <1>3, <1>4

(* The next message keeps the order.                                       *)
LEMMA OrderedGrows ==
    ASSUME NEW U \in Seq(Cell), NEW k \in Nat, NEW m \in Nat, k <= m,
           NEW p \in PacketSet, p.kind = "data", p.n = m + 1,
           Ordered(U, k, m), Complete(U, k, m)
    PROVE  Ordered(U \o Cells(p), k, m + 1) /\ Complete(U \o Cells(p), k, m + 1)
<1> DEFINE W == U \o Cells(p)
           T == Total(p)
           a == Len(U)
<1>1. T \in Nat /\ T >= 2 /\ Cells(p) \in Seq(Cell) /\ Len(Cells(p)) = T
        /\ \A i \in 1 .. T : Cells(p)[i] = <<p, i>>
  BY CellsOf DEF HeadLen
<1>2. /\ a \in Nat /\ Len(W) = a + T
      /\ \A i \in 1 .. a : W[i] = U[i]
      /\ \A i \in 1 .. T : W[a + i] = Cells(p)[i]
  <2> DEFINE C == Cells(p)
  <2>1. C \in Seq(Cell) /\ Len(C) = T
    BY <1>1
  <2>0. C = Cells(p)
    OBVIOUS
  <2> HIDE DEF C, T
  <2>2. /\ Len(U) \in Nat /\ Len(U \o C) = Len(U) + Len(C)
        /\ \A i \in 1 .. Len(U) : (U \o C)[i] = U[i]
        /\ \A i \in 1 .. Len(C) : (U \o C)[Len(U) + i] = C[i]
    BY <2>1, JoinIndex
  <2>3. W = U \o C /\ a = Len(U)
    BY DEF C
  <2> HIDE DEF W, a
  <2> QED BY <2>0, <2>1, <2>2, <2>3
<1>3. \A i \in 1 .. T : W[a + i] = <<p, i>>
  BY <1>1, <1>2
<1>4. a = Len(U)
  OBVIOUS
<1> HIDE DEF W, T, a
<1>5. /\ IsFirst(W[a + 1]) /\ W[a + 1][1].n = m + 1
      /\ \A i \in 2 .. T : ~IsFirst(W[a + i])
  <2>1. ASSUME NEW i \in 1 .. T PROVE W[a + i][1] = p /\ W[a + i][2] = i
    BY <1>3
  <2>2. 1 \in 1 .. T /\ \A i \in 2 .. T : i \in 1 .. T /\ i # 1
    BY <1>1
  <2> QED BY <2>1, <2>2 DEF IsFirst
<1>6. ASSUME NEW i \in 1 .. Len(W), IsFirst(W[i]) PROVE i \in 1 .. a \/ i = a + 1
  <2> SUFFICES ASSUME i > a + 1 PROVE FALSE
    BY <1>1, <1>2
  <2>1. i - a \in 2 .. T /\ a + (i - a) = i
    BY <1>1, <1>2
  <2>2. ~IsFirst(W[a + (i - a)])
    BY <1>5, <2>1
  <2> QED BY <1>6, <2>1, <2>2
<1>7. ASSUME NEW i \in 1 .. Len(W), IsFirst(W[i])
      PROVE  /\ W[i][1].n \in k + 1 .. m + 1
             /\ \A j \in 1 .. i - 1 : IsFirst(W[j]) => W[j][1].n < W[i][1].n
             /\ \A x \in k + 1 .. W[i][1].n - 1 :
                   \E j \in 1 .. i - 1 : IsFirst(W[j]) /\ W[j][1].n = x
  <2>1. CASE i \in 1 .. a
    <3>1. W[i] = U[i] /\ \A j \in 1 .. i - 1 : W[j] = U[j]
      BY <1>2, <2>1
    <3>2. i \in 1 .. Len(U) /\ IsFirst(U[i])
      BY <1>4, <1>7, <2>1, <3>1
    <3>3. /\ U[i][1].n \in k + 1 .. m
          /\ \A j \in 1 .. i - 1 : IsFirst(U[j]) => U[j][1].n < U[i][1].n
          /\ \A x \in k + 1 .. U[i][1].n - 1 :
                \E j \in 1 .. i - 1 : IsFirst(U[j]) /\ U[j][1].n = x
      BY <3>2 DEF Ordered
    <3>4. U[i][1].n \in k + 1 .. m + 1
      BY <3>3
    <3> QED BY <3>1, <3>3, <3>4
  <2>2. CASE i = a + 1
    <3>1. W[i][1].n = m + 1 /\ i - 1 = a
      BY <1>2, <1>5, <2>2
    <3>2. ASSUME NEW j \in 1 .. a, IsFirst(W[j]) PROVE W[j][1].n < m + 1
      <4>1. W[j] = U[j]
        BY <1>2
      <4>2. U[j][1].n \in k + 1 .. m
        BY <1>4, <3>2, <4>1 DEF Ordered
      <4> QED BY <4>1, <4>2
    <3>3. ASSUME NEW x \in k + 1 .. m PROVE \E j \in 1 .. a : IsFirst(W[j]) /\ W[j][1].n = x
      <4>1. PICK j \in 1 .. a : IsFirst(U[j]) /\ U[j][1].n = x
        BY <1>4 DEF Complete
      <4>2. W[j] = U[j]
        BY <1>2
      <4> QED BY <4>1, <4>2
    <3>4. m + 1 \in k + 1 .. m + 1 /\ (m + 1) - 1 = m
      OBVIOUS
    <3> QED BY <3>1, <3>2, <3>3, <3>4
  <2> QED BY <1>6, <1>7, <2>1, <2>2
<1>8. Ordered(W, k, m + 1)
  BY <1>7 DEF Ordered
<1>9. ASSUME NEW x \in k + 1 .. m + 1 PROVE \E j \in 1 .. Len(W) : IsFirst(W[j]) /\ W[j][1].n = x
  <2>1. CASE x = m + 1
    <3>1. a + 1 \in 1 .. Len(W)
      BY <1>1, <1>2
    <3> QED BY <1>5, <2>1, <3>1
  <2>2. CASE x # m + 1
    <3>1. x \in k + 1 .. m
      BY <2>2
    <3>2. PICK j \in 1 .. a : IsFirst(U[j]) /\ U[j][1].n = x
      BY <1>4, <3>1 DEF Complete
    <3>3. W[j] = U[j] /\ j \in 1 .. Len(W)
      BY <1>1, <1>2
    <3> QED BY <3>2, <3>3
  <2> QED BY <2>1, <2>2
<1>10. Complete(W, k, m + 1)
  BY <1>9 DEF Complete
<1> QED BY <1>8, <1>10 DEF W

(* What an end writes between two batches *)
LEMMA HeartsGrow ==
    /\ Hearts(<<>>)
    /\ \A A \in Seq(Cell) : \A kind \in {"probe", "answer"} :
          Hearts(A) => Hearts(A \o Cells(Heartbeat(kind)))
<1>1. Hearts(<<>>)
  <2>1. <<>> \in Seq(Cell) /\ Len(<<>>) = 0
    BY EmptySeq
  <2> QED BY <2>1 DEF Hearts, Backed, Framed
<1>2. ASSUME NEW A \in Seq(Cell), NEW kind \in {"probe", "answer"}, Hearts(A)
      PROVE  Hearts(A \o Cells(Heartbeat(kind)))
  <2> DEFINE p == Heartbeat(kind)
  <2>1. p \in PacketSet /\ p.kind = kind /\ p.len <= MaxLen
    BY PacketsAre
  <2> HIDE DEF p
  <2>2. /\ Cells(p) \in Seq(Cell) /\ Len(Cells(p)) = Total(p) /\ Framed(Cells(p)) /\ Backed(Cells(p))
        /\ \A i \in 1 .. Total(p) : Cells(p)[i] = <<p, i>>
    BY <2>1, CellsOf, PacketFramed
  <2> DEFINE C == Cells(p)
  <2>9. C \in Seq(Cell)
    BY <2>2
  <2> HIDE DEF C
  <2>3. /\ Len(A) \in Nat /\ Len(C) \in Nat
        /\ A \o C \in Seq(Cell) /\ Len(A \o C) = Len(A) + Len(C)
        /\ \A i \in 1 .. Len(A) : (A \o C)[i] = A[i]
        /\ \A i \in 1 .. Len(C) : (A \o C)[Len(A) + i] = C[i]
    BY <2>9, JoinIndex
  <2>8. C = Cells(p)
    BY DEF C
  <2>4. Backed(A) /\ Framed(A) /\ \A i \in 1 .. Len(A) : A[i][1].kind # "data"
    BY <1>2 DEF Hearts
  <2>5. Backed(A \o C) /\ Framed(A \o C)
    BY <2>1, <2>2, <2>4, <2>8, BackedClosed, BackedGrows, FramedGrows
  <2>6. ASSUME NEW i \in 1 .. Len(A \o C) PROVE (A \o C)[i][1].kind # "data"
    <3>1. CASE i <= Len(A)
      <4>1. i \in 1 .. Len(A)
        BY <2>3, <3>1
      <4> QED BY <2>3, <2>4, <4>1
    <3>2. CASE ~(i <= Len(A))
      <4>1. i - Len(A) \in 1 .. Len(C) /\ i - Len(A) \in 1 .. Total(p) /\ Len(A) + (i - Len(A)) = i
        BY <2>2, <2>3, <2>8, <3>2
      <4>2. (A \o C)[Len(A) + (i - Len(A))] = C[i - Len(A)]
        BY <2>3, <4>1
      <4>3. C[i - Len(A)] = <<p, i - Len(A)>>
        BY <2>2, <2>8, <4>1
      <4>4. (A \o C)[i][1] = p
        BY <4>1, <4>2, <4>3
      <4> QED BY <2>1, <4>4
    <3> QED BY <3>1, <3>2
  <2> QED BY <2>3, <2>5, <2>6, <2>8 DEF Hearts, p
<1> QED BY <1>1, <1>2

-----------------------------------------------------------------------------
(* The loop of a read                                                      *)

\* The states the loop can be in
LoopStates == [buf : Seq(Cell), got : Seq(Nat), written : Seq(Cell), bad : BOOLEAN]

\* The loop after a packet p at the front of its buffer, v being what follows
Took(s, p, v) == [Handed(s, p) EXCEPT !.buf = v]

\* A set of states that no round leaves
Steady(S) ==
    \A s \in S \cap LoopStates : ~s.bad =>
        /\ Len(s.buf) >= HeadLen /\ Malformed(s.buf) => Invalid(s) \in S
        /\ \A p \in PacketSet : \A v \in Seq(Cell) :
              p.len <= MaxLen /\ s.buf = Cells(p) \o v => Took(s, p, v) \in S

\* The end of the buffer is the end of the read, and a packet at its front
\* that is whole ends in the read.
Fits(u, data) ==
    /\ \A i \in 1 .. Len(u) :
          i > Len(u) - Len(data) => u[i] = data[i + (Len(data) - Len(u))]
    /\ Len(u) >= HeadLen => Len(u) - Total(u[1][1]) <= Len(data)

\* The rounds of the loop, which exist and are what RecvLoop computes
Rounds(b, data, g, n) ==
    g = [i \in 0 .. n |-> IF i = 0 THEN Loop0(b) ELSE RecvRound(g[i - 1], data)]

\* The recursive function that RecvLoop defines exists.
LEMMA RoundsExist ==
    ASSUME NEW b, NEW data, NEW n \in Nat
    PROVE  \E g : Rounds(b, data, g, n)
<1> DEFINE S == {m \in Nat : \E g : Rounds(b, data, g, m)}
<1>1. 0 \in S
  <2> DEFINE g == [i \in 0 .. 0 |-> Loop0(b)]
  <2>1. g = [i \in 0 .. 0 |-> IF i = 0 THEN Loop0(b) ELSE RecvRound(g[i - 1], data)]
    OBVIOUS
  <2> QED BY <2>1 DEF Rounds
<1>2. ASSUME NEW m \in Nat, m \in S PROVE m + 1 \in S
  <2>1. PICK g : Rounds(b, data, g, m)
    BY <1>2
  <2>2. g = [i \in 0 .. m |-> IF i = 0 THEN Loop0(b) ELSE RecvRound(g[i - 1], data)]
    BY <2>1 DEF Rounds
  <2> DEFINE h == [i \in 0 .. m + 1 |-> IF i <= m THEN g[i] ELSE RecvRound(g[m], data)]
             d == [i \in 0 .. m + 1 |-> IF i = 0 THEN Loop0(b) ELSE RecvRound(h[i - 1], data)]
  <2>3. ASSUME NEW i \in 0 .. m + 1 PROVE h[i] = d[i]
    <3>1. CASE i = 0
      <4>1. h[i] = g[0] /\ d[i] = Loop0(b) /\ 0 \in 0 .. m
        BY <3>1
      <4> HIDE DEF h, d
      <4> QED BY <2>2, <4>1
    <3>2. CASE i # 0 /\ i <= m
      <4>1. h[i] = g[i] /\ d[i] = RecvRound(h[i - 1], data) /\ h[i - 1] = g[i - 1] /\ i \in 0 .. m
        BY <3>2
      <4> HIDE DEF h, d
      <4> QED BY <2>2, <3>2, <4>1
    <3>3. CASE i = m + 1
      <4>1. h[i] = RecvRound(g[m], data) /\ h[m] = g[m]
              /\ d[i] = RecvRound(h[i - 1], data) /\ i - 1 = m
        BY <3>3
      <4> HIDE DEF h, d
      <4> QED BY <3>3, <4>1
    <3> QED BY <3>1, <3>2, <3>3
  <2>4. h = d
    <3>1. h = [i \in 0 .. m + 1 |-> h[i]] /\ d = [i \in 0 .. m + 1 |-> d[i]]
      OBVIOUS
    <3> HIDE DEF h, d
    <3> QED BY <2>3, <3>1
  <2>5. Rounds(b, data, h, m + 1)
    BY <2>4 DEF Rounds
  <2> HIDE DEF h, d
  <2> QED BY <2>5
<1> HIDE DEF S
<1>3. Nat \subseteq S
  BY <1>1, <1>2, NatSetInduction
<1> QED BY <1>3 DEF S

\* RecvLoop is the last of its rounds.
LEMMA LoopIs ==
    ASSUME NEW b, Len(b) \in Nat, NEW data
    PROVE  \E g : Rounds(b, data, g, Len(b)) /\ RecvLoop(b, data) = g[Len(b)]
<1> DEFINE g == CHOOSE f : Rounds(b, data, f, Len(b))
<1>1. Rounds(b, data, g, Len(b))
  BY RoundsExist
<1>2. RecvLoop(b, data) = g[Len(b)]
  BY DEF RecvLoop, Rounds
<1> HIDE DEF g
<1> QED BY <1>1, <1>2

(* What taking a packet changes *)
LEMMA TookIs ==
    ASSUME NEW s \in LoopStates, NEW p \in PacketSet, NEW v \in Seq(Cell)
    PROVE  /\ Took(s, p, v) \in LoopStates
           /\ Took(s, p, v).buf = v /\ Took(s, p, v).bad = s.bad
           /\ Took(s, p, v).got = IF p.kind = "data" THEN Append(s.got, p.n) ELSE s.got
           /\ Took(s, p, v).written =
                 IF p.kind = "probe" THEN s.written \o Cells(Heartbeat("answer")) ELSE s.written
<1>1. p.kind \in {"data", "probe", "answer"} /\ p.n \in Nat
  BY DEF PacketSet
<1>2. s.written \o Cells(Heartbeat("answer")) \in Seq(Cell) /\ Append(s.got, p.n) \in Seq(Nat)
  <2>1. s.written \in Seq(Cell) /\ s.got \in Seq(Nat)
    BY DEF LoopStates
  <2>2. Cells(Heartbeat("answer")) \in Seq(Cell)
    BY PacketsAre, CellsOf
  <2> QED BY <1>1, <2>1, <2>2, ConcatProperties, AppendProperties
<1>3. CASE p.kind = "probe"
  <2>1. Handed(s, p) = [s EXCEPT !.written = @ \o Cells(Heartbeat("answer"))]
    BY <1>3 DEF Handed
  <2> QED BY <1>2, <1>3, <2>1 DEF Took, LoopStates
<1>4. CASE p.kind = "data"
  <2>1. Handed(s, p) = [s EXCEPT !.got = Append(@, p.n)]
    BY <1>4 DEF Handed
  <2> QED BY <1>2, <1>4, <2>1 DEF Took, LoopStates
<1>5. CASE p.kind = "answer"
  <2>1. Handed(s, p) = s
    BY <1>5 DEF Handed
  <2> QED BY <1>5, <2>1 DEF Took, LoopStates
<1> QED BY <1>1, <1>3, <1>4, <1>5

\* The loop after data it cannot parse
LEMMA InvalidIs ==
    ASSUME NEW s \in LoopStates
    PROVE  /\ Invalid(s) \in LoopStates /\ Invalid(s).buf = <<>> /\ Invalid(s).bad
           /\ Invalid(s).got = s.got /\ Invalid(s).written = s.written
BY EmptySeq DEF Invalid, LoopStates

(* A buffer with a whole packet at its front that is well formed           *)
LEMMA WholeFront ==
    ASSUME NEW b \in Seq(Cell), Len(b) >= HeadLen, ~Malformed(b), Whole(b)
    PROVE  /\ b[1][1] \in PacketSet /\ b[1][1].len <= MaxLen /\ Total(b[1][1]) \in 2 .. Len(b)
           /\ FirstPacket(b) = b[1][1]
           /\ SubSeq(b, Total(b[1][1]) + 1, Len(b)) \in Seq(Cell)
           /\ Len(SubSeq(b, Total(b[1][1]) + 1, Len(b))) = Len(b) - Total(b[1][1])
           /\ b = Cells(b[1][1]) \o SubSeq(b, Total(b[1][1]) + 1, Len(b))
<1> DEFINE p == b[1][1]
           T == Total(p)
<1>1. Len(b) \in Nat /\ 1 \in 1 .. Len(b) /\ \A i \in 1 .. Len(b) : b[i] \in Cell
  BY LenProperties, ElementOfSeq DEF HeadLen
<1>2. p \in PacketSet /\ T \in Nat /\ T >= 2 /\ Len(b) >= T /\ p.len \in Nat
  BY <1>1, CellFacts DEF Whole
<1>3. /\ Cells(p) \in Seq(Cell) /\ Len(Cells(p)) = T
      /\ \A i \in 1 .. T : Cells(p)[i] = <<p, i>>
  BY <1>2, CellsOf
<1>4. /\ \A i \in 1 .. HeadLen : b[i] = <<p, i>>
      /\ p.len <= MaxLen
      /\ SubSeq(b, HeadLen + 1, T) = Body(p)
  <2>1. IsHead(b) /\ ~(p.len > MaxLen) /\ HashAgrees(SubSeq(b, HeadLen + 1, T), p)
    BY DEF Malformed
  <2>2. MaxLen \in Int
    BY FramingAssumption
  <2> QED BY <1>2, <2>1, <2>2 DEF IsHead, HashAgrees
<1>5. FirstPacket(b) = p
  BY <1>4 DEF FirstPacket, Decoded
<1> HIDE DEF p, T
<1>6. ASSUME NEW i \in 3 .. T PROVE b[i] = <<p, i>>
  <2>1. \A j \in 3 .. T : b[j] \in Cell /\ Cells(p)[j] \in Cell
    <3>1. \A j \in 3 .. T : j \in 1 .. Len(b) /\ j \in 1 .. T
      BY <1>1, <1>2
    <3>2. \A j \in 1 .. T : Cells(p)[j] \in Cell
      BY <1>3, ElementOfSeq
    <3> QED BY <1>1, <3>1, <3>2
  <2>2. \A j \in 1 .. T - 3 + 1 : SubSeq(b, 3, T)[j] = b[3 + j - 1]
    BY <1>2, <2>1, SubSeqProperties
  <2>3. \A j \in 1 .. T - 3 + 1 : SubSeq(Cells(p), 3, T)[j] = Cells(p)[3 + j - 1]
    BY <1>2, <2>1, SubSeqProperties
  <2>4. SubSeq(b, 3, T) = SubSeq(Cells(p), 3, T)
    <3>1. HeadLen + 1 = 3
      BY DEF HeadLen
    <3>2. Body(p) = SubSeq(Cells(p), HeadLen + 1, T)
      BY DEF Body, T
    <3> QED BY <1>4, <3>1, <3>2
  <2>5. i - 2 \in 1 .. T - 3 + 1 /\ 3 + (i - 2) - 1 = i /\ i \in 1 .. T
    BY <1>2
  <2>6. SubSeq(b, 3, T)[i - 2] = b[i] /\ SubSeq(Cells(p), 3, T)[i - 2] = Cells(p)[i]
    BY <2>2, <2>3, <2>5
  <2> QED BY <1>3, <2>4, <2>5, <2>6
<1>7. ASSUME NEW i \in 1 .. T PROVE b[i] = Cells(p)[i]
  <2>1. CASE i \in 1 .. 2
    BY <1>3, <1>4, <2>1 DEF HeadLen
  <2>2. CASE i \in 3 .. T
    BY <1>3, <1>6, <2>2
  <2> QED BY <1>2, <2>1, <2>2
<1>8. T \in 0 .. Len(b)
  BY <1>1, <1>2
<1>9. /\ SubSeq(b, 1, T) \in Seq(Cell) /\ Len(SubSeq(b, 1, T)) = T
      /\ SubSeq(b, T + 1, Len(b)) \in Seq(Cell) /\ Len(SubSeq(b, T + 1, Len(b))) = Len(b) - T
      /\ \A i \in 1 .. T : SubSeq(b, 1, T)[i] = b[i]
      /\ SubSeq(b, 1, T) \o SubSeq(b, T + 1, Len(b)) = b
  BY <1>8, CutAt
<1>10. SubSeq(b, 1, T) = Cells(p)
  <2> DEFINE a == SubSeq(b, 1, T)
  <2>1. a \in Seq(Cell) /\ Len(a) = T /\ \A i \in 1 .. T : a[i] = b[i]
    BY <1>9
  <2> HIDE DEF a
  <2>2. \A i \in 1 .. Len(a) : a[i] = Cells(p)[i]
    BY <1>7, <2>1
  <2>3. a = Cells(p)
    BY <1>3, <2>1, <2>2, SeqEqual
  <2> QED BY <2>3 DEF a
<1>11. T \in 2 .. Len(b)
  BY <1>1, <1>2
<1> QED BY <1>2, <1>4, <1>5, <1>9, <1>10, <1>11 DEF p, T

(* A round of the loop: it is over, it finds the data invalid, or it takes *)
(* the packet at the front.                                                *)
LEMMA RoundCases ==
    ASSUME NEW s \in LoopStates, NEW data \in Seq(Cell), Fits(s.buf, data)
    PROVE  \/ RecvRound(s, data) = s /\ Waiting(s.buf)
           \/ Len(s.buf) >= HeadLen /\ Malformed(s.buf) /\ RecvRound(s, data) = Invalid(s)
           \/ \E p \in PacketSet, v \in Seq(Cell) :
                 /\ p.len <= MaxLen /\ s.buf = Cells(p) \o v
                 /\ Len(v) <= Len(s.buf) - 1 /\ Fits(v, data)
                 /\ RecvRound(s, data) = Took(s, p, v)
<1> DEFINE b == s.buf
<1>1. b \in Seq(Cell) /\ Len(b) \in Nat /\ Len(data) \in Nat
  BY LenProperties DEF LoopStates
<1>2. CASE Len(b) < HeadLen
  BY <1>2 DEF RecvRound, Waiting
<1>3. CASE ~(Len(b) < HeadLen) /\ Malformed(b)
  <2>1. Len(b) >= HeadLen
    BY <1>1, <1>3 DEF HeadLen
  <2> QED BY <1>3, <2>1 DEF RecvRound
<1>4. CASE ~(Len(b) < HeadLen) /\ ~Malformed(b) /\ ~Whole(b)
  <2>1. RecvRound(s, data) = s
    BY <1>4 DEF RecvRound
  <2>2. IsHead(b)
    BY <1>4 DEF Malformed
  <2> QED BY <1>4, <2>1, <2>2 DEF Waiting
<1>5. CASE ~(Len(b) < HeadLen) /\ ~Malformed(b) /\ Whole(b)
  <2> DEFINE p == b[1][1]
             T == Total(p)
             v == SubSeq(b, T + 1, Len(b))
             m == Len(data) - (Len(b) - T)
  <2>1. Len(b) >= HeadLen
    BY <1>1, <1>5 DEF HeadLen
  <2>2. /\ p \in PacketSet /\ p.len <= MaxLen /\ T \in 2 .. Len(b)
        /\ FirstPacket(b) = p
        /\ v \in Seq(Cell) /\ Len(v) = Len(b) - T /\ b = Cells(p) \o v
    BY <1>1, <1>5, <2>1, WholeFront
  <2>3. \A i \in 1 .. Len(b) - T : v[i] = b[T + i]
    <3>1. T \in 0 .. Len(b)
      BY <2>2
    <3> QED BY <1>1, <3>1, CutAt
  <2>4. m \in 0 .. Len(data) /\ m = Len(data) - (Len(b) - T)
    <3>1. Fits(b, data)
      OBVIOUS
    <3> HIDE DEF b, p, v, T
    <3>2. Len(b) - T <= Len(data)
      BY <2>1, <3>1 DEF Fits, p, T
    <3> QED BY <1>1, <2>2, <3>2
  <2>5. /\ SubSeq(data, m + 1, Len(data)) \in Seq(Cell)
        /\ Len(SubSeq(data, m + 1, Len(data))) = Len(data) - m
        /\ \A i \in 1 .. Len(data) - m : SubSeq(data, m + 1, Len(data))[i] = data[m + i]
    BY <2>4, CutAt
  <2>6. ASSUME NEW i \in 1 .. Len(b) - T PROVE v[i] = data[m + i]
    <3>0. Fits(b, data)
      OBVIOUS
    <3> HIDE DEF b, p, v, T, m
    <3>1. /\ T + i \in 1 .. Len(b) /\ T + i > Len(b) - Len(data)
          /\ (T + i) + (Len(data) - Len(b)) = m + i
      BY <1>1, <2>2, <2>4
    <3>2. b[T + i] = data[(T + i) + (Len(data) - Len(b))]
      BY <3>0, <3>1 DEF Fits
    <3> QED BY <2>3, <3>1, <3>2
  <2>7. Rest(data, Len(b) - T) = SubSeq(data, m + 1, Len(data))
    BY DEF Rest
  <2>8. RecvRound(s, data) = [Handed(s, p) EXCEPT !.buf = Rest(data, Len(b) - T)]
    BY <1>5, <2>2 DEF RecvRound
  <2> HIDE DEF b, p, T, v, m
  <2>9. Rest(data, Len(b) - T) = v
    <3> DEFINE r == SubSeq(data, m + 1, Len(data))
    <3>1. Len(data) - m = Len(b) - T
      BY <1>1, <2>2 DEF m
    <3>2. r \in Seq(Cell) /\ Len(r) = Len(v) /\ \A i \in 1 .. Len(r) : r[i] = v[i]
      BY <2>2, <2>5, <2>6, <3>1
    <3> HIDE DEF r
    <3>3. r = v
      BY <2>2, <3>2, SeqEqual
    <3> QED BY <2>7, <3>3 DEF r
  <2>10. RecvRound(s, data) = Took(s, p, v)
    BY <2>8, <2>9 DEF Took
  <2>11. Fits(v, data)
    <3>1. Len(v) <= Len(data) /\ Len(v) \in Nat /\ Len(data) - Len(v) = m
      BY <1>1, <2>2, <2>4 DEF m
    <3>2. \A i \in 1 .. Len(v) : v[i] = data[i + (Len(data) - Len(v))]
      <4> SUFFICES ASSUME NEW i \in 1 .. Len(v) PROVE v[i] = data[i + m]
        BY <3>1
      <4>1. i \in 1 .. Len(b) - T /\ m + i = i + m
        BY <2>2, <2>4
      <4> QED BY <2>6, <4>1
    <3>3. ASSUME Len(v) >= HeadLen PROVE Len(v) - Total(v[1][1]) <= Len(data)
      <4>1. 1 \in 1 .. Len(v)
        BY <3>1, <3>3 DEF HeadLen
      <4>2. Total(v[1][1]) \in Nat
        BY <2>2, <4>1, ElementOfSeq, CellFacts
      <4> QED BY <1>1, <3>1, <4>2
    <3> QED BY <3>2, <3>3 DEF Fits
  <2>12. Len(v) <= Len(b) - 1
    BY <1>1, <2>2
  <2> QED BY <2>2, <2>10, <2>11, <2>12 DEF b
<1> QED BY <1>2, <1>3, <1>4, <1>5

(* Once over, the loop stays so.                                           *)
LEMMA RoundOver ==
    ASSUME NEW s \in LoopStates, NEW data, Waiting(s.buf)
    PROVE  \/ RecvRound(s, data) = s
           \/ Len(s.buf) >= HeadLen /\ Malformed(s.buf) /\ RecvRound(s, data) = Invalid(s)
<1>1. Len(s.buf) \in Nat
  BY LenProperties DEF LoopStates
<1>2. CASE Len(s.buf) < HeadLen
  BY <1>2 DEF RecvRound
<1>3. CASE ~(Len(s.buf) < HeadLen) /\ Malformed(s.buf)
  <2>1. Len(s.buf) >= HeadLen
    BY <1>1, <1>3 DEF HeadLen
  <2> QED BY <1>3, <2>1 DEF RecvRound
<1>4. CASE ~(Len(s.buf) < HeadLen) /\ ~Malformed(s.buf)
  <2>1. ~Whole(s.buf)
    BY <1>4 DEF Waiting
  <2> QED BY <1>4, <2>1 DEF RecvRound
<1> QED BY <1>2, <1>3, <1>4

(* A read after which the loop starts                                      *)
LEMMA FitsFirst ==
    ASSUME NEW c \in Seq(Cell), NEW data \in Seq(Cell), Waiting(c)
    PROVE  Fits(c \o data, data)
<1> DEFINE u == c \o data
<1>1. /\ Len(c) \in Nat /\ Len(data) \in Nat /\ u \in Seq(Cell) /\ Len(u) = Len(c) + Len(data)
      /\ \A i \in 1 .. Len(c) : u[i] = c[i]
      /\ \A i \in 1 .. Len(data) : u[Len(c) + i] = data[i]
  BY JoinIndex
<1> HIDE DEF u
<1>2. ASSUME NEW i \in 1 .. Len(u), i > Len(u) - Len(data)
      PROVE  u[i] = data[i + (Len(data) - Len(u))]
  <2>1. i - Len(c) \in 1 .. Len(data) /\ Len(c) + (i - Len(c)) = i
          /\ i + (Len(data) - Len(u)) = i - Len(c)
    BY <1>1, <1>2
  <2>2. u[Len(c) + (i - Len(c))] = data[i - Len(c)]
    BY <1>1, <2>1
  <2> QED BY <2>1, <2>2
<1>3. ASSUME Len(u) >= HeadLen PROVE Len(u) - Total(u[1][1]) <= Len(data)
  <2>1. 1 \in 1 .. Len(u)
    BY <1>1, <1>3 DEF HeadLen
  <2>2. Total(u[1][1]) \in Nat /\ Total(u[1][1]) >= 2
    BY <1>1, <2>1, ElementOfSeq, CellFacts
  <2>3. CASE Len(c) < HeadLen
    BY <1>1, <2>2, <2>3 DEF HeadLen
  <2>4. CASE ~(Len(c) < HeadLen)
    <3>1. 1 \in 1 .. Len(c) /\ ~Whole(c)
      BY <1>1, <2>4 DEF HeadLen, Waiting
    <3>2. u[1] = c[1] /\ ~(Len(c) >= Total(c[1][1]))
      BY <1>1, <3>1 DEF Whole
    <3> QED BY <1>1, <2>2, <3>2
  <2> QED BY <2>3, <2>4
<1> QED BY <1>2, <1>3 DEF Fits, u

(* The rule of the loop: what holds before it and in every round holds     *)
(* after it, and it leaves a buffer that waits for more.                   *)
LEMMA LoopRule ==
    ASSUME NEW c \in Seq(Cell), NEW data \in Seq(Cell), Waiting(c),
           NEW S, Loop0(c \o data) \in S, Steady(S)
    PROVE  /\ RecvLoop(c \o data, data).bad => RecvLoop(c \o data, data).buf = <<>>
           /\ RecvLoop(c \o data, data) \in S /\ RecvLoop(c \o data, data) \in LoopStates
           /\ Waiting(RecvLoop(c \o data, data).buf)
<1> DEFINE b == c \o data
<1>1. b \in Seq(Cell) /\ Len(b) \in Nat /\ Fits(b, data) /\ Loop0(b) \in S
  BY JoinIndex, FitsFirst
<1> HIDE DEF b
<1>2. PICK g : Rounds(b, data, g, Len(b)) /\ RecvLoop(b, data) = g[Len(b)]
  BY <1>1, LoopIs
<1>3. \A i \in 0 .. Len(b) : g[i] = IF i = 0 THEN Loop0(b) ELSE RecvRound(g[i - 1], data)
  BY <1>2, Zenon DEF Rounds
<1> DEFINE Going(s, i) == Fits(s.buf, data) /\ Len(s.buf) <= Len(b) - i
           R == {i \in Nat : i <= Len(b) =>
                    /\ g[i] \in S /\ g[i] \in LoopStates
                    /\ g[i].bad => g[i].buf = <<>>
                    /\ Waiting(g[i].buf) \/ Going(g[i], i)}
<1>4. Loop0(b) \in LoopStates /\ Loop0(b).buf = b /\ ~Loop0(b).bad
  BY <1>1, EmptySeq DEF Loop0, LoopStates
<1>5. 0 \in R
  <2>1. g[0] = Loop0(b)
    BY <1>1, <1>3
  <2>2. Going(g[0], 0)
    BY <1>1, <1>4, <2>1
  <2> HIDE DEF Going
  <2> QED BY <1>1, <1>4, <2>1, <2>2
<1>6. ASSUME NEW i \in Nat, i \in R PROVE i + 1 \in R
  <2> SUFFICES ASSUME i + 1 <= Len(b)
               PROVE  /\ g[i + 1] \in S /\ g[i + 1] \in LoopStates
                      /\ g[i + 1].bad => g[i + 1].buf = <<>>
                      /\ Waiting(g[i + 1].buf) \/ Going(g[i + 1], i + 1)
    <3> HIDE DEF Going
    <3> QED OBVIOUS
  <2>1. g[i + 1] = RecvRound(g[i], data)
    <3>1. i + 1 \in 0 .. Len(b) /\ i + 1 # 0 /\ (i + 1) - 1 = i
      BY <1>1
    <3> QED BY <1>3, <3>1
  <2>2. /\ g[i] \in S /\ g[i] \in LoopStates
        /\ g[i].bad => g[i].buf = <<>>
        /\ Waiting(g[i].buf) \/ Going(g[i], i)
    <3>1. i <= Len(b)
      BY <1>1
    <3> HIDE DEF Going
    <3> QED BY <1>6, <3>1
  <2> DEFINE s == g[i]
             t == g[i + 1]
  <2>3. Len(s.buf) \in Nat /\ s.buf \in Seq(Cell)
    BY <2>2, LenProperties DEF LoopStates
  <2>4. ASSUME Len(s.buf) >= HeadLen, Malformed(s.buf), t = Invalid(s)
        PROVE  t \in S /\ t \in LoopStates /\ (t.bad => t.buf = <<>>) /\ Waiting(t.buf)
    <3>0. ~s.bad
      BY <2>2, <2>4, EmptySeq DEF HeadLen
    <3>1. t \in S
      BY <2>2, <2>4, <3>0 DEF Steady
    <3>2. t \in LoopStates /\ t.buf = <<>>
      BY <2>2, <2>4, InvalidIs
    <3>3. Waiting(<<>>)
      BY EmptySeq DEF Waiting, HeadLen
    <3> QED BY <3>1, <3>2, <3>3
  <2>5. CASE Waiting(s.buf)
    <3>1. t = s \/ (Len(s.buf) >= HeadLen /\ Malformed(s.buf) /\ t = Invalid(s))
      BY <2>1, <2>2, <2>5, RoundOver
    <3>2. CASE t = s
      BY <2>2, <2>5, <3>2
    <3>3. CASE Len(s.buf) >= HeadLen /\ Malformed(s.buf) /\ t = Invalid(s)
      BY <2>4, <3>3
    <3> QED BY <3>1, <3>2, <3>3
  <2>6. CASE Going(s, i)
    <3>1. \/ t = s /\ Waiting(s.buf)
          \/ Len(s.buf) >= HeadLen /\ Malformed(s.buf) /\ t = Invalid(s)
          \/ \E p \in PacketSet, v \in Seq(Cell) :
                /\ p.len <= MaxLen /\ s.buf = Cells(p) \o v
                /\ Len(v) <= Len(s.buf) - 1 /\ Fits(v, data)
                /\ t = Took(s, p, v)
      <4>1. Fits(s.buf, data)
        BY <2>6
      <4>2. t = RecvRound(s, data) /\ s \in LoopStates
        BY <2>1, <2>2
      <4> HIDE DEF s, t, Going
      <4> QED BY <4>1, <4>2, RoundCases
    <3>2. CASE t = s /\ Waiting(s.buf)
      BY <2>2, <3>2
    <3>3. CASE Len(s.buf) >= HeadLen /\ Malformed(s.buf) /\ t = Invalid(s)
      BY <2>4, <3>3
    <3>4. CASE \E p \in PacketSet, v \in Seq(Cell) :
                  /\ p.len <= MaxLen /\ s.buf = Cells(p) \o v
                  /\ Len(v) <= Len(s.buf) - 1 /\ Fits(v, data)
                  /\ t = Took(s, p, v)
      <4>1. PICK p \in PacketSet, v \in Seq(Cell) :
               /\ p.len <= MaxLen /\ s.buf = Cells(p) \o v
               /\ Len(v) <= Len(s.buf) - 1 /\ Fits(v, data)
               /\ t = Took(s, p, v)
        BY <3>4
      <4>0. ~s.bad
        <5>1. Len(<<>>) = 0 /\ Len(v) \in Nat
          BY EmptySeq, LenProperties
        <5> QED BY <2>2, <2>3, <4>1, <5>1
      <4>2. t \in S
        BY <2>2, <4>0, <4>1 DEF Steady
      <4>3. t \in LoopStates /\ t.buf = v /\ ~t.bad
        BY <2>2, <4>0, <4>1, TookIs
      <4>4. Len(s.buf) <= Len(b) - i
        BY <2>6
      <4>5. Len(v) \in Nat
        BY LenProperties
      <4>6. Len(v) <= Len(b) - (i + 1)
        BY <1>1, <2>3, <4>1, <4>4, <4>5
      <4>7. Going(t, i + 1)
        BY <4>1, <4>3, <4>6
      <4> HIDE DEF Going
      <4> QED BY <4>2, <4>3, <4>7
    <3> QED BY <3>1, <3>2, <3>3, <3>4
  <2> HIDE DEF Going
  <2> QED BY <2>2, <2>5, <2>6
<1> HIDE DEF R
<1>7. Nat \subseteq R
  BY <1>5, <1>6, NatSetInduction
<1> DEFINE s == g[Len(b)]
<1>8. s \in S /\ s \in LoopStates /\ (s.bad => s.buf = <<>>) /\ (Waiting(s.buf) \/ Going(s, Len(b)))
  <2>1. Len(b) \in R
    BY <1>1, <1>7
  <2> HIDE DEF Going
  <2> QED BY <1>1, <2>1 DEF R
<1>9. CASE Going(s, Len(b))
  <2>1. Len(s.buf) <= 0 /\ Len(s.buf) \in Nat
    BY <1>1, <1>8, <1>9, LenProperties DEF LoopStates
  <2>2. Waiting(s.buf)
    BY <2>1 DEF Waiting, HeadLen
  <2> HIDE DEF s
  <2> QED BY <1>2, <1>8, <2>2 DEF b, s
<1> HIDE DEF Going
<1> QED BY <1>2, <1>8, <1>9 DEF b

-----------------------------------------------------------------------------
(* What the loop makes of the stream c \o data \o Z, of which it reads c   *)
(* and data                                                                *)

\* The messages got so far are those from the first on, in order.
Counting(q) == \A i \in 1 .. Len(q) : q[i] = i

\* The loop before its first round
LEMMA LoopStart ==
    ASSUME NEW b \in Seq(Cell)
    PROVE  /\ Loop0(b) \in LoopStates /\ Loop0(b).buf = b /\ Loop0(b).got = <<>>
           /\ Loop0(b).written = <<>> /\ ~Loop0(b).bad
BY EmptySeq DEF Loop0, LoopStates

\* A packet at the front of the buffer is at the front of the stream.
LEMMA FrontStream ==
    ASSUME NEW p \in PacketSet, NEW v \in Seq(Cell), NEW Z \in Seq(Cell),
           NEW b, b = Cells(p) \o v
    PROVE  b \o Z = Cells(p) \o (v \o Z) /\ v \o Z \in Seq(Cell)
<1>1. Cells(p) \in Seq(Cell)
  BY CellsOf
<1> QED BY <1>1, ConcatAssociative, ConcatProperties

\* A message more at the end of those handed on
LEMMA MessageAppend ==
    \A u, v \in Seq(Nat) : \A n \in Nat : u \o Append(v, n) = Append(u \o v, n)
BY ConcatAppend

\* The messages: they are handed on in order, and the rest still is in order.
LEMMA LoopFlow ==
    ASSUME NEW c \in Seq(Cell), NEW data \in Seq(Cell), NEW Z \in Seq(Cell), Waiting(c),
           NEW G \in Seq(Nat), NEW m \in Nat, Len(G) <= m, Counting(G),
           Ordered((c \o data) \o Z, Len(G), m),
           NEW r, r = RecvLoop(c \o data, data)
    PROVE  /\ G \o r.got \in Seq(Nat) /\ Counting(G \o r.got) /\ Len(G \o r.got) <= m
           /\ ~r.bad => Ordered(r.buf \o Z, Len(G \o r.got), m)
           /\ ~r.bad /\ Complete((c \o data) \o Z, Len(G), m) =>
                 Complete(r.buf \o Z, Len(G \o r.got), m)
<1> DEFINE b == c \o data
           Full == Complete(b \o Z, Len(G), m)
           Fine(s) == LET q == G \o s.got IN
               /\ Counting(q) /\ Len(q) <= m
               /\ ~s.bad => /\ Ordered(s.buf \o Z, Len(q), m)
                            /\ Full => Complete(s.buf \o Z, Len(q), m)
           S == {s \in LoopStates : Fine(s)}
<1>1. b \in Seq(Cell)
  BY ConcatProperties
<1>2. Ordered(b \o Z, Len(G), m) /\ (Full => Complete(b \o Z, Len(G), m))
  OBVIOUS
<1> HIDE DEF b, Full
<1>3. Loop0(b) \in S
  <2> DEFINE s == Loop0(b)
  <2>1. s \in LoopStates /\ s.buf = b /\ s.got = <<>>
    BY <1>1, LoopStart
  <2>2. G \o s.got = G
    BY <2>1, ConcatEmptySeq
  <2> HIDE DEF s
  <2>3. Fine(s)
    BY <1>2, <2>1, <2>2
  <2> QED BY <2>1, <2>3 DEF s
<1>4. Steady(S)
  <2> SUFFICES ASSUME NEW s \in LoopStates, Fine(s), ~s.bad
               PROVE  /\ Len(s.buf) >= HeadLen /\ Malformed(s.buf) => Invalid(s) \in S
                      /\ \A p \in PacketSet : \A v \in Seq(Cell) :
                            p.len <= MaxLen /\ s.buf = Cells(p) \o v => Took(s, p, v) \in S
    BY DEF Steady
  <2>1. Invalid(s) \in S
    <3>1. Invalid(s) \in LoopStates /\ Invalid(s).bad /\ Invalid(s).got = s.got
      BY InvalidIs
    <3>2. Fine(Invalid(s))
      BY <3>1
    <3> QED BY <3>1, <3>2
  <2>2. ASSUME NEW p \in PacketSet, NEW v \in Seq(Cell), s.buf = Cells(p) \o v
        PROVE  Took(s, p, v) \in S
    <3>4. s.buf \o Z = Cells(p) \o (v \o Z) /\ v \o Z \in Seq(Cell)
      <4> HIDE DEF S, Fine
      <4>1. \A u : u = Cells(p) \o v =>
               u \o Z = Cells(p) \o (v \o Z) /\ v \o Z \in Seq(Cell)
        BY FrontStream
      <4> QED BY <2>2, <4>1, Zenon
    <3> DEFINE t == Took(s, p, v)
               q == G \o s.got
               h == G \o t.got
               k == Len(q)
    <3>1. /\ t \in LoopStates /\ t.buf = v
          /\ t.got = IF p.kind = "data" THEN Append(s.got, p.n) ELSE s.got
      BY TookIs
    <3>2. s.got \in Seq(Nat) /\ q \in Seq(Nat) /\ k \in Nat /\ p.n \in Nat
      <4>1. s.got \in Seq(Nat) /\ p.n \in Nat
        BY DEF LoopStates, PacketSet
      <4>2. q \in Seq(Nat)
        BY <4>1, ConcatProperties
      <4> QED BY <4>1, <4>2, LenProperties
    <3>3. /\ Counting(q) /\ k <= m
          /\ Ordered(s.buf \o Z, k, m)
          /\ Full => Complete(s.buf \o Z, k, m)
      OBVIOUS
    <3> DEFINE V == v \o Z
    <3>5. V \in Seq(Cell) /\ Ordered(Cells(p) \o V, k, m)
            /\ (Full => Complete(Cells(p) \o V, k, m))
      BY <3>3, <3>4
    <3>6. V = t.buf \o Z
      BY <3>1
    <3> HIDE DEF t, q, k, V, h, Fine
    <3>7. /\ p.kind = "data" => p.n = k + 1 /\ k + 1 <= m
          /\ Ordered(V, After(p, k), m)
      BY <3>2, <3>5, OrderedFront
    <3>8. Full => Complete(V, After(p, k), m)
      BY <3>2, <3>5, <3>7, CompleteFront
    <3>9. Counting(h) /\ Len(h) = After(p, k) /\ Len(h) <= m
      <4>1. CASE p.kind = "data"
        <5>1. h = Append(q, p.n)
          <6>1. G \o Append(s.got, p.n) = Append(G \o s.got, p.n)
            BY <3>2, MessageAppend
          <6>2. t.got = Append(s.got, p.n)
            BY <3>1, <4>1
          <6> QED BY <6>1, <6>2 DEF h, q
        <5>2. /\ Len(h) = k + 1 /\ h[k + 1] = p.n
              /\ \A i \in 1 .. k : h[i] = q[i]
          BY <3>2, <5>1, AppendProperties DEF k
        <5>3. Counting(h)
          <6> SUFFICES ASSUME NEW i \in 1 .. k + 1 PROVE h[i] = i
            BY <5>2 DEF Counting
          <6>1. CASE i \in 1 .. k
            BY <3>3, <5>2, <6>1 DEF Counting, k
          <6>2. CASE i = k + 1
            BY <3>7, <4>1, <5>2, <6>2
          <6> QED BY <3>2, <6>1, <6>2
        <5> QED BY <3>7, <4>1, <5>2, <5>3 DEF After
      <4>2. CASE p.kind # "data"
        <5>1. h = q
          BY <3>1, <4>2 DEF h, q
        <5> QED BY <3>3, <4>2, <5>1 DEF After, k
      <4> QED BY <4>1, <4>2
    <3>10. Fine(t)
      BY <3>6, <3>7, <3>8, <3>9 DEF Fine, h
    <3> QED BY <3>1, <3>10 DEF t
  <2> QED BY <2>1, <2>2
<1> HIDE DEF S
<1>5. r \in S /\ r \in LoopStates
  BY <1>3, <1>4, LoopRule DEF b
<1>6. Fine(r)
  BY <1>5 DEF S
<1>7. G \o r.got \in Seq(Nat)
  <2>1. r.got \in Seq(Nat)
    BY <1>5 DEF LoopStates
  <2> QED BY <2>1, ConcatProperties
<1> QED BY <1>6, <1>7 DEF Full, b

\* There is still room for the rest of each packet.
LEMMA LoopBacked ==
    ASSUME NEW c \in Seq(Cell), NEW data \in Seq(Cell), NEW Z \in Seq(Cell), Waiting(c),
           Backed((c \o data) \o Z), NEW r, r = RecvLoop(c \o data, data)
    PROVE  ~r.bad => Backed(r.buf \o Z)
<1> DEFINE b == c \o data
           S == {s \in LoopStates : ~s.bad => Backed(s.buf \o Z)}
<1>1. b \in Seq(Cell)
  BY ConcatProperties
<1>2. Backed(b \o Z)
  OBVIOUS
<1> HIDE DEF b
<1>3. Loop0(b) \in S
  BY <1>1, <1>2, LoopStart
<1>4. Steady(S)
  <2> SUFFICES ASSUME NEW s \in LoopStates, Backed(s.buf \o Z), ~s.bad
               PROVE  /\ Len(s.buf) >= HeadLen /\ Malformed(s.buf) => Invalid(s) \in S
                      /\ \A p \in PacketSet : \A v \in Seq(Cell) :
                            p.len <= MaxLen /\ s.buf = Cells(p) \o v => Took(s, p, v) \in S
    BY DEF Steady
  <2>1. Invalid(s) \in S
    BY InvalidIs
  <2>2. ASSUME NEW p \in PacketSet, NEW v \in Seq(Cell), s.buf = Cells(p) \o v
        PROVE  Took(s, p, v) \in S
    <3>1. Took(s, p, v) \in LoopStates /\ Took(s, p, v).buf = v
      BY TookIs
    <3>2. s.buf \o Z = Cells(p) \o (v \o Z) /\ v \o Z \in Seq(Cell)
      BY <2>2, FrontStream
    <3> DEFINE V == v \o Z
    <3>3. V \in Seq(Cell) /\ Backed(Cells(p) \o V)
      BY <3>2
    <3> HIDE DEF V
    <3>4. Backed(V)
      BY <3>3, BackedFront
    <3> QED BY <3>1, <3>4 DEF V
  <2> QED BY <2>1, <2>2
<1> HIDE DEF S
<1>5. r \in S
  BY <1>3, <1>4, LoopRule DEF b
<1> QED BY <1>5 DEF S

\* A stream of packets is never found invalid.
LEMMA FramedWell ==
    ASSUME NEW b \in Seq(Cell), Framed(b), Len(b) >= HeadLen
    PROVE  ~Malformed(b)
<1> DEFINE p == b[1][1]
           T == Total(p)
<1>1. Len(b) \in Nat /\ 1 \in 1 .. Len(b) /\ b # <<>> /\ \A i \in 1 .. Len(b) : b[i] \in Cell
  BY LenProperties, ElementOfSeq, EmptySeq DEF HeadLen
<1>2. p \in PacketSet /\ T \in Nat /\ T >= 2 /\ p.len \in Nat /\ p.len <= MaxLen
  BY <1>1, CellFacts DEF Framed
<1>3. \A i \in Nat : i \in 1 .. Len(b) /\ i <= T => b[i] = <<p, i>>
  BY <1>1, FramedAdjacent
<1>4. /\ Cells(p) \in Seq(Cell) /\ Len(Cells(p)) = T
      /\ \A i \in 1 .. T : Cells(p)[i] = <<p, i>>
  BY <1>2, CellsOf
<1>5. IsHead(b)
  <2>1. \A i \in 1 .. HeadLen : i \in Nat /\ i \in 1 .. Len(b) /\ i <= T
    BY <1>1, <1>2 DEF HeadLen
  <2>2. \A i \in 1 .. HeadLen : b[i] = <<p, i>>
    BY <1>3, <2>1
  <2> QED BY <2>2 DEF IsHead
<1>6. ASSUME Whole(b) PROVE HashAgrees(SubSeq(b, HeadLen + 1, T), p)
  <2>1. T <= Len(b)
    BY <1>1, <1>2, <1>6 DEF Whole
  <2> HIDE DEF p, T
  <2>2. \A i \in 1 .. T : b[i] = <<p, i>>
    BY <1>2, <1>3, <2>1
  <2>3. \A j \in 3 .. T : b[j] \in Cell /\ Cells(p)[j] \in Cell
    <3>1. \A j \in 3 .. T : j \in 1 .. Len(b) /\ j \in 1 .. T
      BY <1>1, <1>2, <2>1
    <3>2. \A j \in 1 .. T : Cells(p)[j] \in Cell
      BY <1>4, ElementOfSeq
    <3> QED BY <1>1, <3>1, <3>2
  <2> DEFINE x == SubSeq(b, 3, T)
             y == SubSeq(Cells(p), 3, T)
  <2>4. /\ x \in Seq(Cell) /\ Len(x) = IF 3 <= T THEN T - 3 + 1 ELSE 0
        /\ \A j \in 1 .. T - 3 + 1 : x[j] = b[3 + j - 1]
    BY <1>2, <2>3, SubSeqProperties
  <2>5. /\ y \in Seq(Cell) /\ Len(y) = IF 3 <= T THEN T - 3 + 1 ELSE 0
        /\ \A j \in 1 .. T - 3 + 1 : y[j] = Cells(p)[3 + j - 1]
    BY <1>2, <2>3, SubSeqProperties
  <2> HIDE DEF x, y
  <2>6. ASSUME NEW j \in 1 .. Len(x) PROVE x[j] = y[j]
    <3>1. j \in 1 .. T - 3 + 1 /\ 3 + j - 1 \in 1 .. T
      BY <1>2, <2>4
    <3>2. b[3 + j - 1] = <<p, 3 + j - 1>> /\ Cells(p)[3 + j - 1] = <<p, 3 + j - 1>>
      BY <1>4, <2>2, <3>1
    <3> QED BY <2>4, <2>5, <3>1, <3>2
  <2>7. x = y
    BY <2>4, <2>5, <2>6, SeqEqual
  <2>8. HeadLen + 1 = 3
    BY DEF HeadLen
  <2> QED BY <2>7, <2>8 DEF x, y, HashAgrees, Body, T
<1>7. MaxLen \in Int
  BY FramingAssumption
<1> QED BY <1>2, <1>5, <1>6, <1>7 DEF Malformed

\* Packet by packet: nothing is found invalid, and the rest is so too.
LEMMA LoopFramed ==
    ASSUME NEW c \in Seq(Cell), NEW data \in Seq(Cell), NEW Z \in Seq(Cell), Waiting(c),
           Framed((c \o data) \o Z), NEW r, r = RecvLoop(c \o data, data)
    PROVE  /\ ~r.bad /\ Framed(r.buf \o Z)
           /\ Closed((c \o data) \o Z) => Closed(r.buf \o Z)
<1> DEFINE b == c \o data
           End == Closed(b \o Z)
           Fine(s) == /\ ~s.bad /\ Framed(s.buf \o Z)
                      /\ End => Closed(s.buf \o Z)
           S == {s \in LoopStates : Fine(s)}
<1>1. b \in Seq(Cell)
  BY ConcatProperties
<1>2. Framed(b \o Z) /\ (End => Closed(b \o Z))
  OBVIOUS
<1> HIDE DEF b, End
<1>3. Loop0(b) \in S
  BY <1>1, <1>2, LoopStart
<1>4. Steady(S)
  <2> SUFFICES ASSUME NEW s \in LoopStates, Fine(s)
               PROVE  /\ Len(s.buf) >= HeadLen /\ Malformed(s.buf) => Invalid(s) \in S
                      /\ \A p \in PacketSet : \A v \in Seq(Cell) :
                            p.len <= MaxLen /\ s.buf = Cells(p) \o v => Took(s, p, v) \in S
    BY DEF Steady
  <2>1. ASSUME Len(s.buf) >= HeadLen PROVE ~Malformed(s.buf)
    <3>1. s.buf \in Seq(Cell)
      BY DEF LoopStates
    <3>2. Framed(s.buf)
      BY <3>1, FramedPrefix
    <3> QED BY <2>1, <3>1, <3>2, FramedWell
  <2>2. ASSUME NEW p \in PacketSet, NEW v \in Seq(Cell), s.buf = Cells(p) \o v
        PROVE  Took(s, p, v) \in S
    <3>1. Took(s, p, v) \in LoopStates /\ Took(s, p, v).buf = v /\ ~Took(s, p, v).bad
      BY TookIs
    <3>2. s.buf \o Z = Cells(p) \o (v \o Z) /\ v \o Z \in Seq(Cell)
      BY <2>2, FrontStream
    <3> DEFINE V == v \o Z
    <3>3. V \in Seq(Cell) /\ Framed(Cells(p) \o V) /\ (End => Closed(Cells(p) \o V))
      BY <3>2
    <3> HIDE DEF V
    <3>4. Framed(V) /\ (End => Closed(V))
      BY <3>3, FramedFront
    <3> QED BY <3>1, <3>4 DEF V
  <2> QED BY <2>1, <2>2
<1> HIDE DEF S
<1>5. r \in S
  BY <1>3, <1>4, LoopRule DEF b
<1> QED BY <1>5 DEF S, End, b

\* What it writes are heartbeats.
LEMMA LoopHearts ==
    ASSUME NEW c \in Seq(Cell), NEW data \in Seq(Cell), Waiting(c),
           NEW r, r = RecvLoop(c \o data, data)
    PROVE  Hearts(r.written) /\ r \in LoopStates /\ Waiting(r.buf)
<1> DEFINE b == c \o data
           S == {s \in LoopStates : Hearts(s.written)}
<1>1. b \in Seq(Cell)
  BY ConcatProperties
<1> HIDE DEF b
<1>2. Loop0(b) \in S
  BY <1>1, LoopStart, HeartsGrow
<1>3. Steady(S)
  <2> SUFFICES ASSUME NEW s \in LoopStates, Hearts(s.written)
               PROVE  /\ Len(s.buf) >= HeadLen /\ Malformed(s.buf) => Invalid(s) \in S
                      /\ \A p \in PacketSet : \A v \in Seq(Cell) :
                            p.len <= MaxLen /\ s.buf = Cells(p) \o v => Took(s, p, v) \in S
    BY DEF Steady
  <2>1. Invalid(s) \in S
    BY InvalidIs
  <2>2. ASSUME NEW p \in PacketSet, NEW v \in Seq(Cell)
        PROVE  Took(s, p, v) \in S
    <3>1. /\ Took(s, p, v) \in LoopStates
          /\ Took(s, p, v).written =
                IF p.kind = "probe" THEN s.written \o Cells(Heartbeat("answer")) ELSE s.written
      BY TookIs
    <3>2. s.written \in Seq(Cell)
      BY DEF LoopStates
    <3>3. Hearts(s.written \o Cells(Heartbeat("answer")))
      BY <3>2, HeartsGrow
    <3> QED BY <3>1, <3>3
  <2> QED BY <2>1, <2>2
<1> HIDE DEF S
<1>4. r \in S /\ r \in LoopStates /\ Waiting(r.buf)
  BY <1>2, <1>3, LoopRule DEF b
<1> QED BY <1>4 DEF S

\* A packet that is all of a stream is its front, and nothing follows it.
LEMMA FrontAlone ==
    ASSUME NEW p \in PacketSet, NEW v \in Seq(Cell), NEW q \in PacketSet,
           Cells(p) \o v = Cells(q)
    PROVE  p = q /\ v = <<>>
<1>1. Cells(p) \in Seq(Cell) /\ Cells(q) \in Seq(Cell)
        /\ Total(q) >= 2 /\ Total(q) \in Nat /\ \A i \in 1 .. Total(q) : Cells(q)[i] = <<q, i>>
  BY CellsOf DEF HeadLen
<1>2. (Cells(p) \o v)[1][1] = p
  BY FrontFirst
<1>3. Cells(q)[1] = <<q, 1>>
  BY <1>1
<1>4. p = q
  BY <1>2, <1>3
<1>5. Cells(p) \o v = Cells(p)
  BY <1>4
<1>6. v = <<>>
  BY <1>1, <1>5, ConcatEqualIffEmpty
<1> QED BY <1>4, <1>6

\* No packet is empty.
LEMMA CellsSome ==
    ASSUME NEW p \in PacketSet
    PROVE  Cells(p) # <<>>
<1>1. Len(Cells(p)) # 0
  BY CellsOf DEF HeadLen
<1> QED BY <1>1, EmptySeq

\* An end that owes an answer writes one, or finds the data invalid, or still
\* owes it.
LEMMA LoopOwing ==
    ASSUME NEW c \in Seq(Cell), NEW data \in Seq(Cell), NEW Z \in Seq(Cell), Waiting(c),
           Owing((c \o data) \o Z), NEW r, r = RecvLoop(c \o data, data)
    PROVE  r.bad \/ r.written # <<>> \/ Owing(r.buf \o Z)
<1> DEFINE b == c \o data
           S == {s \in LoopStates : s.bad \/ s.written # <<>> \/ Owing(s.buf \o Z)}
<1>1. b \in Seq(Cell)
  BY ConcatProperties
<1>2. Owing(b \o Z)
  OBVIOUS
<1> HIDE DEF b
<1>3. Loop0(b) \in S
  BY <1>1, <1>2, LoopStart
<1>4. Steady(S)
  <2> SUFFICES ASSUME NEW s \in LoopStates, s.written # <<>> \/ Owing(s.buf \o Z)
               PROVE  /\ Len(s.buf) >= HeadLen /\ Malformed(s.buf) => Invalid(s) \in S
                      /\ \A p \in PacketSet : \A v \in Seq(Cell) :
                            p.len <= MaxLen /\ s.buf = Cells(p) \o v => Took(s, p, v) \in S
    BY DEF Steady
  <2>1. Invalid(s) \in S
    BY InvalidIs
  <2>2. ASSUME NEW p \in PacketSet, NEW v \in Seq(Cell), s.buf = Cells(p) \o v
        PROVE  Took(s, p, v) \in S
    <3>1. /\ Took(s, p, v) \in LoopStates
          /\ Took(s, p, v).written =
                IF p.kind = "probe" THEN s.written \o Cells(Heartbeat("answer")) ELSE s.written
      BY TookIs
    <3>2. s.written \in Seq(Cell)
      BY DEF LoopStates
    <3>3. s.written \o Cells(Heartbeat("answer")) # <<>>
      <4> DEFINE C == Cells(Heartbeat("answer"))
      <4>1. C \in Seq(Cell) /\ C # <<>>
        BY PacketsAre, CellsOf, CellsSome
      <4> HIDE DEF C
      <4>3. s.written \o C # <<>>
        BY <3>2, <4>1, ConcatEqualIffEmpty
      <4> QED BY <4>3 DEF C
    <3>4. CASE s.written # <<>>
      BY <3>1, <3>3, <3>4
    <3>5. CASE Owing(s.buf \o Z)
      <4> DEFINE V == v \o Z
                 U == Cells(p) \o V
      <4>1. s.buf \o Z = U /\ V \in Seq(Cell)
        BY <2>2, FrontStream
      <4>2. Owing(U)
        BY <3>5, <4>1
      <4>3. Total(p) >= 2 /\ Total(p) \in Nat /\ \A i \in 1 .. Total(p) : U[i] = <<p, i>>
        BY <4>1, FrontIndex
      <4> HIDE DEF V, U
      <4>4. U[1] = <<p, 1>>
        BY <4>3
      <4>5. U[1] = <<Heartbeat("probe"), 1>>
        <5>1. U[1][2] = 1
          BY <4>4
        <5>2. 1 \in 1 .. Total(Heartbeat("probe"))
          BY PacketsAre
        <5> QED BY <4>2, <5>1, <5>2 DEF Owing
      <4>6. p = Heartbeat("probe")
        BY <4>4, <4>5
      <4>7. p.kind = "probe"
        BY <4>6, PacketsAre
      <4> QED BY <3>1, <3>3, <4>7
    <3> QED BY <3>4, <3>5
  <2> QED BY <2>1, <2>2
<1> HIDE DEF S
<1>5. r \in S
  BY <1>3, <1>4, LoopRule DEF b
<1> QED BY <1>5 DEF S

\* A lone heartbeat: it is still to come, in part, or it was read.
Lone(r, b, Z, kind) ==
    /\ r.got = <<>> /\ ~r.bad
    /\ \/ Z # <<>> /\ r.buf = b /\ r.written = <<>>
       \/ /\ Z = <<>> /\ r.buf = <<>>
          /\ r.written = IF kind = "probe" THEN Cells(Heartbeat("answer")) ELSE <<>>

\* The loop over a lone heartbeat
LEMMA LoopQuiet ==
    ASSUME NEW c \in Seq(Cell), NEW data \in Seq(Cell), NEW Z \in Seq(Cell), Waiting(c),
           NEW kind \in {"probe", "answer"}, (c \o data) \o Z = Cells(Heartbeat(kind)),
           NEW r, r = RecvLoop(c \o data, data)
    PROVE  Lone(r, c \o data, Z, kind)
<1> DEFINE b == c \o data
           h == Heartbeat(kind)
           done == IF kind = "probe" THEN Cells(Heartbeat("answer")) ELSE <<>>
           Fine(s) == /\ s.got = <<>> /\ ~s.bad
                      /\ \/ s.buf = b /\ s.written = <<>>
                         \/ Z = <<>> /\ s.buf = <<>> /\ s.written = done
           S == {s \in LoopStates : Fine(s)}
<1>1. b \in Seq(Cell)
  BY ConcatProperties
<1>2. b \o Z = Cells(h) /\ h \in PacketSet /\ h.kind = kind /\ h.len <= MaxLen
  BY PacketsAre
<1>3. Cells(h) \in Seq(Cell) /\ Len(Cells(h)) = Total(h)
        /\ Total(h) \in Nat /\ Total(h) >= 2
        /\ \A i \in 1 .. Total(h) : Cells(h)[i] = <<h, i>>
  BY <1>2, CellsOf DEF HeadLen
<1>4. done = IF kind = "probe" THEN <<>> \o Cells(Heartbeat("answer")) ELSE <<>>
  BY PacketsAre, CellsOf, ConcatEmptySeq
<1> HIDE DEF b, h, done
<1>5. Framed(b)
  <2>1. Framed(b \o Z)
    BY <1>2, PacketFramed
  <2> QED BY <1>1, <2>1, FramedPrefix
<1>6. Loop0(b) \in S
  BY <1>1, LoopStart
<1>7. Steady(S)
  <2> SUFFICES ASSUME NEW s \in LoopStates, Fine(s)
               PROVE  /\ Len(s.buf) >= HeadLen /\ Malformed(s.buf) => Invalid(s) \in S
                      /\ \A p \in PacketSet : \A v \in Seq(Cell) :
                            p.len <= MaxLen /\ s.buf = Cells(p) \o v => Took(s, p, v) \in S
    BY DEF Steady
  <2>1. ASSUME Len(s.buf) >= HeadLen PROVE ~Malformed(s.buf)
    <3>1. CASE s.buf = b
      BY <1>1, <1>5, <2>1, <3>1, FramedWell
    <3>2. CASE s.buf = <<>>
      BY <2>1, <3>2, EmptySeq DEF HeadLen
    <3> QED BY <3>1, <3>2
  <2>2. ASSUME NEW p \in PacketSet, NEW v \in Seq(Cell), s.buf = Cells(p) \o v
        PROVE  Took(s, p, v) \in S
    <3> DEFINE t == Took(s, p, v)
    <3>1. /\ t \in LoopStates /\ t.buf = v /\ t.bad = s.bad
          /\ t.got = IF p.kind = "data" THEN Append(s.got, p.n) ELSE s.got
          /\ t.written =
                IF p.kind = "probe" THEN s.written \o Cells(Heartbeat("answer")) ELSE s.written
      BY TookIs
    <3> HIDE DEF t
    <3>2. s.buf # <<>>
      <4>1. Len(s.buf) # 0
        BY <2>2, FrontIndex
      <4> QED BY <4>1, EmptySeq
    <3>3. s.buf = b /\ s.written = <<>> /\ s.got = <<>> /\ ~s.bad
      BY <3>2
    <3>4. s.buf \o Z = Cells(p) \o (v \o Z) /\ v \o Z \in Seq(Cell)
      BY <2>2, FrontStream
    <3>6. p = h /\ v \o Z = <<>>
      <4> DEFINE V == v \o Z
      <4>1. Cells(p) \o V = Cells(h) /\ V \in Seq(Cell)
        BY <1>2, <3>3, <3>4
      <4> HIDE DEF V
      <4>2. p = h /\ V = <<>>
        BY <1>2, <4>1, FrontAlone
      <4> QED BY <4>2 DEF V
    <3>7. v = <<>> /\ Z = <<>>
      BY <3>6, ConcatEqualIffEmpty
    <3>8. t.got = <<>> /\ t.written = done
      BY <1>2, <1>4, <3>1, <3>3, <3>6
    <3> QED BY <3>1, <3>3, <3>7, <3>8 DEF t
  <2> QED BY <2>1, <2>2
<1> HIDE DEF S
<1>8. r \in S /\ Waiting(r.buf)
  BY <1>6, <1>7, LoopRule DEF b
<1>9. Fine(r)
  BY <1>8 DEF S
<1>10. ASSUME Z = <<>> PROVE ~Waiting(b)
  <2>1. b = Cells(h)
    BY <1>1, <1>2, <1>10, ConcatEmptySeq
  <2>2. 1 \in 1 .. Total(h)
    BY <1>3
  <2>3. b[1] = <<h, 1>>
    BY <1>3, <2>1, <2>2
  <2>4. b[1][1] = h /\ Len(b) = Total(h)
    BY <1>3, <2>1, <2>3
  <2> QED BY <1>3, <2>4 DEF Waiting, Whole, HeadLen
<1> QED BY <1>8, <1>9, <1>10 DEF b, done, Lone

-----------------------------------------------------------------------------
(* The streams of a state                                                  *)

\* The types of one end's variables
LEMMA TypesOf ==
    ASSUME TypeOK, NEW e \in Ends
    PROVE  /\ sent[e] \in Seq(Nat) /\ got[e] \in Seq(Nat) /\ Len(sent[e]) \in Nat /\ Len(got[e]) \in Nat
           /\ pushing[e] \in Seq(Cell) /\ que[e] \in Seq(Cell)
           /\ wire[e] \in Seq(Cell) /\ buf[e] \in Seq(Cell)
           /\ online[e] \in BOOLEAN /\ part[e] \in Nat /\ split[e] \in SUBSET Nat
           /\ heart[e].time \in 0 .. TicksPerCheck - 1 /\ heart[e].count \in Int
<1>1. /\ sent[e] \in Seq(Nat) /\ got[e] \in Seq(Nat)
      /\ pushing[e] \in Seq(Cell) /\ que[e] \in Seq(Cell)
      /\ wire[e] \in Seq(Cell) /\ buf[e] \in Seq(Cell)
      /\ online[e] \in BOOLEAN /\ part[e] \in Nat /\ split[e] \in SUBSET Nat
      /\ heart[e] \in [time : 0 .. TicksPerCheck - 1, count : Int]
  BY DEF TypeOK
<1> QED BY <1>1, LenProperties

\* It does not matter in which order streams are put together.
LEMMA CellsAssociative ==
    \A s, t, u \in Seq(Cell) : (s \o t) \o u = s \o (t \o u) /\ s \o t \in Seq(Cell)
BY ConcatAssociative, ConcatProperties

\* One more message
LEMMA MessageAdded ==
    ASSUME NEW s \in Seq(Nat), NEW n \in Nat
    PROVE  /\ Append(s, n) \in Seq(Nat) /\ Append(s, n) # <<>>
           /\ Len(s) \in Nat /\ Len(Append(s, n)) = Len(s) + 1
           /\ DOMAIN s = 1 .. Len(s) /\ DOMAIN Append(s, n) = 1 .. Len(s) + 1
           /\ \A i \in 1 .. Len(s) : Append(s, n)[i] = s[i]
           /\ Append(s, n)[Len(s) + 1] = n
<1>1. Append(s, n) \in Seq(Nat) /\ Append(s, n) # <<>> /\ Len(Append(s, n)) = Len(s) + 1
  BY AppendProperties
<1>2. /\ Len(s) \in Nat /\ DOMAIN s = 1 .. Len(s) /\ DOMAIN Append(s, n) = 1 .. Len(s) + 1
      /\ \A i \in DOMAIN s : Append(s, n)[i] = s[i]
      /\ Append(s, n)[Len(s) + 1] = n
  BY AppendIndex
<1> QED BY <1>1, <1>2

\* A stream that goes on is not empty.
LEMMA JoinSome ==
    ASSUME NEW U \in Seq(Cell), NEW V \in Seq(Cell)
    PROVE  U \o V = <<>> <=> U = <<>> /\ V = <<>>
<1>1. /\ Len(U) \in Nat /\ Len(V) \in Nat /\ Len(U \o V) = Len(U) + Len(V)
      /\ U \o V \in Seq(Cell)
  BY JoinIndex
<1>2. /\ U = <<>> <=> Len(U) = 0
      /\ V = <<>> <=> Len(V) = 0
      /\ U \o V = <<>> <=> Len(U \o V) = 0
  BY <1>1, EmptySeq
<1> QED BY <1>1, <1>2

\* The same without the type, which the provers would go on applying
LEMMA CellsJoin ==
    \A s, t, u \in Seq(Cell) : (s \o t) \o u = s \o (t \o u)
BY CellsAssociative

\* Streams put together, under names of their own: the provers look into
\* neither, and so for no other streams to put in than a step names.
Cellular == Seq(Cell)
Joined(s, t) == s \o t

\* Two streams put together are a stream.
LEMMA JoinedIn ==
    \A s, t \in Cellular : Joined(s, t) \in Cellular
BY ConcatProperties DEF Cellular, Joined

\* Three streams, in either order
LEMMA JoinedThree ==
    \A s, t, u \in Cellular : Joined(Joined(s, t), u) = Joined(s, Joined(t, u))
BY CellsJoin DEF Cellular, Joined

\* Four streams, one after the other or from the last
LEMMA JoinedFour ==
    ASSUME NEW s \in Cellular, NEW t \in Cellular, NEW u \in Cellular, NEW v \in Cellular
    PROVE  Joined(Joined(Joined(s, t), u), v) = Joined(s, Joined(t, Joined(u, v)))
<1> DEFINE a == Joined(s, t)
           b == Joined(u, v)
<1>1. a \in Cellular /\ b \in Cellular
  BY JoinedIn
<1> HIDE DEF a, b
<1>2. Joined(Joined(a, u), v) = Joined(a, Joined(u, v))
  BY <1>1, JoinedThree
<1>3. Joined(Joined(s, t), b) = Joined(s, Joined(t, b))
  BY <1>1, JoinedThree
<1> QED BY <1>2, <1>3 DEF a, b

\* The stream to an end before it parses `data', and after it
LEMMA JoinedAlong ==
    ASSUME NEW c \in Cellular, NEW data \in Cellular, NEW ow \in Cellular,
           NEW q \in Cellular, NEW p \in Cellular
    PROVE  /\ Joined(c, Joined(data, ow)) = Joined(Joined(c, data), ow)
           /\ Joined(Joined(Joined(c, Joined(data, ow)), q), p)
                 = Joined(Joined(c, data), Joined(ow, Joined(q, p)))
           /\ Joined(Joined(Joined(c, ow), q), p) = Joined(c, Joined(ow, Joined(q, p)))
<1>1. Joined(c, Joined(data, ow)) = Joined(Joined(c, data), ow)
  BY JoinedThree
<1>2. Joined(Joined(Joined(c, ow), q), p) = Joined(c, Joined(ow, Joined(q, p)))
  BY JoinedFour
<1> DEFINE d == Joined(c, data)
<1>3. d \in Cellular
  BY JoinedIn
<1>4. Joined(Joined(Joined(d, ow), q), p) = Joined(d, Joined(ow, Joined(q, p)))
  <2> HIDE DEF d
  <2> QED BY <1>3, JoinedFour
<1> QED BY <1>1, <1>2, <1>4

\* The whole stream is the part written and what the other is still to write.
LEMMA StreamsOf ==
    ASSUME TypeOK, NEW e \in Ends
    PROVE  /\ Stream(e) \in Seq(Cell) /\ AllOf(e) \in Seq(Cell)
           /\ que[Peer(e)] \o pushing[Peer(e)] \in Seq(Cell)
           /\ AllOf(e) = Stream(e) \o (que[Peer(e)] \o pushing[Peer(e)])
<1>1. /\ Peer(e) \in Ends /\ buf[e] \in Seq(Cell) /\ wire[Peer(e)] \in Seq(Cell)
      /\ que[Peer(e)] \in Seq(Cell) /\ pushing[Peer(e)] \in Seq(Cell)
  BY PeerFacts, TypesOf
<1>2. Stream(e) \in Seq(Cell)
  BY <1>1, ConcatProperties DEF Stream
<1>3. AllOf(e) = (Stream(e) \o que[Peer(e)]) \o pushing[Peer(e)]
  BY DEF AllOf
<1> HIDE DEF Stream, AllOf
<1>4. /\ que[Peer(e)] \o pushing[Peer(e)] \in Seq(Cell)
      /\ Stream(e) \o (que[Peer(e)] \o pushing[Peer(e)]) \in Seq(Cell)
  BY <1>1, <1>2, ConcatProperties
<1>5. (Stream(e) \o que[Peer(e)]) \o pushing[Peer(e)] = Stream(e) \o (que[Peer(e)] \o pushing[Peer(e)])
  BY <1>1, <1>2, CellsAssociative
<1> QED BY <1>2, <1>3, <1>4, <1>5

\* A step that leaves alone what the messages to e are in
LEMMA FlowSame ==
    ASSUME NEW e \in Ends, FlowInv(e),
           got'[e] = got[e], sent'[Peer(e)] = sent[Peer(e)],
           online'[e] => /\ online[e]
                         /\ net' # "dead" => /\ net # "dead"
                                             /\ buf'[e] = buf[e]
                                             /\ wire'[Peer(e)] = wire[Peer(e)],
           online'[Peer(e)] => /\ online[Peer(e)]
                               /\ que'[Peer(e)] = que[Peer(e)]
                               /\ pushing'[Peer(e)] = pushing[Peer(e)]
    PROVE  FlowInv(e)'
<1>1. online'[e] /\ net' # "dead" => Stream(e)' = Stream(e)
  BY DEF Stream
<1>2. online'[e] /\ net' # "dead" /\ online'[Peer(e)] => AllOf(e)' = AllOf(e)
  BY <1>1 DEF AllOf
<1> QED BY <1>1, <1>2 DEF FlowInv

\* A step that leaves alone how the stream to e is cut into packets
LEMMA FrameSame ==
    ASSUME NEW e \in Ends, FrameInv(e),
           split[Peer(e)] # {} => split'[Peer(e)] # {}, sent'[Peer(e)] = sent[Peer(e)],
           why'[e] \in {why[e], "zero", "closed", "heart"},
           online'[e] => /\ online[e]
                         /\ net' # "dead" => /\ net # "dead"
                                             /\ buf'[e] = buf[e]
                                             /\ wire'[Peer(e)] = wire[Peer(e)],
           online'[Peer(e)] => /\ online[Peer(e)]
                               /\ que'[Peer(e)] = que[Peer(e)]
                               /\ pushing'[Peer(e)] = pushing[Peer(e)]
                               /\ part'[Peer(e)] = part[Peer(e)]
    PROVE  FrameInv(e)'
<1>1. online'[e] /\ net' # "dead" => Stream(e)' = Stream(e)
  BY DEF Stream
<1>2. online'[e] /\ net' # "dead" /\ online'[Peer(e)] => AllOf(e)' = AllOf(e)
  BY <1>1 DEF AllOf
<1>3. TooLong(Peer(e)) => TooLong(Peer(e))'
  BY DEF TooLong
<1> QED BY <1>1, <1>2, <1>3 DEF FrameInv

\* A step by which no end comes to wait for an answer, and no answer is lost
LEMMA ProbeSame ==
    ASSUME NEW e \in Ends, ProbeInv(e), net' = "prompt" => net = "prompt",
           why'[e] \in {why[e], "data", "zero", "closed"},
           online'[e] /\ online'[Peer(e)] /\ heart'[e].count >= 1 /\ wire'[Peer(e)] = <<>> =>
               /\ online[e] /\ online[Peer(e)] /\ heart[e].count >= 1 /\ wire[Peer(e)] = <<>>
               /\ Owing(Stream(Peer(e))) => Owing(Stream(Peer(e)))'
    PROVE  ProbeInv(e)'
BY DEF ProbeInv

\* An end that owes an answer still does when more is written to it.
LEMMA OwingGrows ==
    ASSUME NEW U \in Seq(Cell), NEW V \in Seq(Cell), Owing(U)
    PROVE  Owing(U \o V)
<1> DEFINE W == U \o V
           T == Total(Heartbeat("probe"))
<1>1. /\ Len(U) \in Nat /\ Len(V) \in Nat /\ Len(W) = Len(U) + Len(V)
      /\ \A i \in 1 .. Len(U) : W[i] = U[i]
  BY JoinIndex
<1>2. T = 4
  BY PacketsAre
<1>3. Owing(U)
  OBVIOUS
<1> HIDE DEF W
<1>4. CASE Len(U) >= T /\ \A i \in 1 .. T : U[i] = <<Heartbeat("probe"), i>>
  <2>1. \A i \in 1 .. T : i \in 1 .. Len(U)
    BY <1>1, <1>2, <1>4
  <2>2. Len(W) >= T
    BY <1>1, <1>2, <1>4
  <2>3. \A i \in 1 .. T : W[i] = <<Heartbeat("probe"), i>>
    BY <1>1, <1>4, <2>1
  <2> QED BY <2>2, <2>3 DEF Owing, W
<1>5. CASE Len(U) >= HeadLen /\ U[1][2] # 1
  <2>1. 1 \in 1 .. Len(U) /\ Len(W) >= HeadLen
    BY <1>1, <1>5 DEF HeadLen
  <2> QED BY <1>1, <1>5, <2>1 DEF Owing, W
<1> QED BY <1>3, <1>4, <1>5 DEF Owing

\* More messages may come.
LEMMA OrderedWider ==
    ASSUME NEW U \in Seq(Cell), NEW k \in Nat, NEW m \in Nat, Ordered(U, k, m)
    PROVE  Ordered(U, k, m + 1)
<1>1. \A i \in 1 .. Len(U) : U[i][1].n \in k + 1 .. m => U[i][1].n \in k + 1 .. m + 1
  OBVIOUS
<1> QED BY <1>1 DEF Ordered

\* A sequence of cells of messages, cut or put together
LEMMA MessagesJoin ==
    ASSUME NEW U \in Seq(Cell), NEW V \in Seq(Cell)
    PROVE  OfMessages(U \o V) <=> OfMessages(U) /\ OfMessages(V)
<1> DEFINE W == U \o V
<1>1. /\ Len(U) \in Nat /\ Len(V) \in Nat /\ Len(W) = Len(U) + Len(V)
      /\ \A i \in 1 .. Len(U) : W[i] = U[i]
      /\ \A i \in 1 .. Len(V) : W[Len(U) + i] = V[i]
  BY JoinIndex
<1> HIDE DEF W
<1>2. ASSUME OfMessages(W) PROVE OfMessages(U) /\ OfMessages(V)
  <2>1. ASSUME NEW i \in 1 .. Len(U) PROVE U[i][1].kind = "data" /\ U[i][1].n >= 1
    <3>1. i \in 1 .. Len(W) /\ W[i] = U[i]
      BY <1>1
    <3> QED BY <1>2, <3>1 DEF OfMessages
  <2>2. ASSUME NEW i \in 1 .. Len(V) PROVE V[i][1].kind = "data" /\ V[i][1].n >= 1
    <3>1. Len(U) + i \in 1 .. Len(W) /\ W[Len(U) + i] = V[i]
      BY <1>1
    <3> QED BY <1>2, <3>1 DEF OfMessages
  <2> QED BY <2>1, <2>2 DEF OfMessages
<1>3. ASSUME OfMessages(U), OfMessages(V) PROVE OfMessages(W)
  <2> SUFFICES ASSUME NEW i \in 1 .. Len(W) PROVE W[i][1].kind = "data" /\ W[i][1].n >= 1
    BY DEF OfMessages
  <2>1. CASE i \in 1 .. Len(U)
    BY <1>1, <1>3, <2>1 DEF OfMessages
  <2>2. CASE ~(i \in 1 .. Len(U))
    <3>1. i - Len(U) \in 1 .. Len(V) /\ Len(U) + (i - Len(U)) = i
      BY <1>1, <2>2
    <3>2. W[Len(U) + (i - Len(U))] = V[i - Len(U)]
      BY <1>1, <3>1
    <3> QED BY <1>3, <3>1, <3>2 DEF OfMessages
  <2> QED BY <2>1, <2>2
<1> QED BY <1>2, <1>3 DEF W

\* The chunks of a packet, put together, are the packet.
LEMMA ChunkIs ==
    ASSUME NEW cells \in Seq(Cell)
    PROVE  /\ Chunk(cells) \in Seq(Cell) /\ AfterChunk(cells) \in Seq(Cell)
           /\ Chunk(cells) \o AfterChunk(cells) = cells
<1> DEFINE n == IF Len(cells) < WriteMax THEN Len(cells) ELSE WriteMax
<1>1. n \in 0 .. Len(cells)
  BY LenProperties, FramingAssumption
<1>2. Chunk(cells) = SubSeq(cells, 1, n)
  BY DEF Chunk
<1> HIDE DEF n
<1>3. Len(Chunk(cells)) = n
  BY <1>1, <1>2, CutAt
<1>4. AfterChunk(cells) = SubSeq(cells, n + 1, Len(cells))
  BY <1>3 DEF AfterChunk
<1>5. /\ SubSeq(cells, 1, n) \in Seq(Cell) /\ SubSeq(cells, n + 1, Len(cells)) \in Seq(Cell)
      /\ SubSeq(cells, 1, n) \o SubSeq(cells, n + 1, Len(cells)) = cells
  BY <1>1, CutAt
<1> QED BY <1>2, <1>4, <1>5

-----------------------------------------------------------------------------
(* The steps of the application and of the queue                           *)

\* The parts of the invariant at both ends
LEMMA InvParts ==
    ASSUME FramingInv, NEW e \in Ends
    PROVE  /\ TypeOK /\ QuietInv
           /\ QueInv(e) /\ FlowInv(e) /\ FrameInv(e) /\ ProbeInv(e)
           /\ QueInv(Peer(e)) /\ FlowInv(Peer(e)) /\ FrameInv(Peer(e)) /\ ProbeInv(Peer(e))
BY PeerFacts DEF FramingInv

\* The invariant holds after a step when its parts do, for one end and its peer.
LEMMA InvFromParts ==
    ASSUME NEW e \in Ends, TypeOK', QuietInv',
           QueInv(e)', FlowInv(e)', FrameInv(e)', ProbeInv(e)',
           QueInv(Peer(e))', FlowInv(Peer(e))', FrameInv(Peer(e))', ProbeInv(Peer(e))'
    PROVE  FramingInv'
<1>1. ASSUME NEW g \in Ends PROVE QueInv(g)' /\ FlowInv(g)' /\ FrameInv(g)' /\ ProbeInv(g)'
  <2>1. g = e \/ g = Peer(e)
    BY PeerFacts
  <2>2. CASE g = e
    BY <2>2
  <2>3. CASE g = Peer(e)
    BY <2>3
  <2> QED BY <2>1, <2>2, <2>3
<1> QED BY <1>1 DEF FramingInv

\* send(): another message is to come.
LEMMA SendCallKeeps ==
    ASSUME FramingInv, NEW e \in Ends, SendCall(e)
    PROVE  FramingInv'
<1> DEFINE f == Peer(e)
           m == Len(sent[e])
<1>0. PICK size \in Sizes :
         /\ sent' = [sent EXCEPT ![e] = Append(@, size)]
         /\ pushing' = [pushing EXCEPT ![e] = Cells(Message(m + 1, size))]
  BY DEF SendCall
<1>1. f \in Ends /\ f # e /\ Peer(f) = e
  BY PeerFacts
<1>2. /\ TypeOK /\ QuietInv
      /\ QueInv(e) /\ FlowInv(e) /\ FrameInv(e) /\ ProbeInv(e)
      /\ QueInv(f) /\ FlowInv(f) /\ FrameInv(f) /\ ProbeInv(f)
  BY InvParts
<1>3. /\ pushing[e] = <<>>
      /\ UNCHANGED <<que, wire, online, why, buf, got, heart, net, drift, part, split>>
  BY DEF SendCall
<1>4. m \in Nat /\ size \in Nat /\ sent[e] \in Seq(Nat) /\ sent[f] \in Seq(Nat)
      /\ sent \in [Ends -> Seq(Nat)] /\ pushing \in [Ends -> Seq(Cell)] /\ que[e] \in Seq(Cell)
      /\ Len(got[f]) \in Nat
  <2>1. size \in Nat
    BY FramingAssumption
  <2>2. m \in Nat /\ sent[e] \in Seq(Nat) /\ que[e] \in Seq(Cell)
    BY <1>2, TypesOf
  <2>3. sent[f] \in Seq(Nat) /\ Len(got[f]) \in Nat
    BY <1>1, <1>2, TypesOf
  <2> QED BY <1>2, <2>1, <2>2, <2>3 DEF TypeOK
<1> DEFINE p == Message(m + 1, size)
<1>5. /\ p \in PacketSet /\ p.kind = "data" /\ p.n = m + 1 /\ p.len = size + HashLen
      /\ Cells(p) \in Seq(Cell) /\ Len(Cells(p)) = Total(p)
      /\ \A i \in 1 .. Total(p) : Cells(p)[i] = <<p, i>>
  <2>1. p \in PacketSet /\ p.kind = "data" /\ p.n = m + 1 /\ p.len = size + HashLen
    <3>1. m + 1 \in Nat /\ size \in Nat
      BY <1>4
    <3> QED BY <3>1, PacketsAre
  <2> HIDE DEF p
  <2> QED BY <2>1, CellsOf
<1>6. /\ sent'[e] = Append(sent[e], size) /\ sent'[f] = sent[f]
      /\ pushing'[e] = Cells(p) /\ pushing'[f] = pushing[f]
  BY <1>0, <1>1, <1>4
<1>7. /\ Len(sent'[e]) = m + 1 /\ sent'[e] # <<>> /\ sent'[e] \in Seq(Nat)
      /\ DOMAIN sent'[e] = 1 .. m + 1 /\ DOMAIN sent[e] = 1 .. m
      /\ \A i \in 1 .. m : sent'[e][i] = sent[e][i]
      /\ sent'[e][m + 1] = size
  <2>1. /\ Append(sent[e], size) \in Seq(Nat) /\ Append(sent[e], size) # <<>>
        /\ Len(Append(sent[e], size)) = m + 1
        /\ DOMAIN sent[e] = 1 .. m /\ DOMAIN Append(sent[e], size) = 1 .. m + 1
        /\ \A i \in 1 .. m : Append(sent[e], size)[i] = sent[e][i]
        /\ Append(sent[e], size)[m + 1] = size
    BY <1>4, MessageAdded
  <2> QED BY <1>6, <2>1
<1> HIDE DEF f, m, p
<1>8. TypeOK'
  <2>1. sent' \in [Ends -> Seq(Nat)]
    BY <1>0, <1>4, <1>6, <1>7
  <2>2. pushing' \in [Ends -> Seq(Cell)]
    BY <1>0, <1>4, <1>5 DEF p
  <2> QED BY <1>2, <1>3, <2>1, <2>2 DEF TypeOK
<1>9. QuietInv'
  BY <1>7 DEF QuietInv
<1>10. QueInv(e)'
  <2>1. OfMessages(Cells(p))
    <3> SUFFICES ASSUME NEW i \in 1 .. Total(p)
                 PROVE  Cells(p)[i][1].kind = "data" /\ Cells(p)[i][1].n >= 1
      BY <1>5 DEF OfMessages
    <3>1. Cells(p)[i][1] = p
      BY <1>5
    <3> QED BY <1>4, <1>5, <3>1
  <2> QED BY <1>2, <1>3, <1>6, <1>7, <2>1 DEF QueInv
<1>11. QueInv(f)'
  BY <1>2, <1>3, <1>6 DEF QueInv
<1>12. FlowInv(e)' /\ FrameInv(e)' /\ ProbeInv(e)'
  BY <1>1, <1>2, <1>3, <1>6, FlowSame, FrameSame, ProbeSame DEF Stream, f
<1>13. ProbeInv(f)'
  BY <1>1, <1>2, <1>3, ProbeSame DEF Stream
<1> DEFINE U == AllOf(f)
           k == Len(got[f])
<1>14. /\ Stream(f) \in Seq(Cell) /\ U \in Seq(Cell) /\ Stream(f)' = Stream(f)
       /\ AllOf(f)' = U \o Cells(p)
  <2>1. Stream(f) \in Seq(Cell) /\ U \in Seq(Cell) /\ Stream(f)' = Stream(f)
    BY <1>1, <1>2, <1>3, StreamsOf DEF Stream
  <2>2. Stream(f) \o que[e] \in Seq(Cell)
    BY <1>4, <2>1, ConcatProperties
  <2>3. U = (Stream(f) \o que[e]) \o <<>> /\ AllOf(f)' = (Stream(f) \o que[e]) \o Cells(p)
    BY <1>1, <1>3, <1>6, <2>1 DEF AllOf
  <2>4. U = Stream(f) \o que[e]
    BY <2>2, <2>3, ConcatEmptySeq
  <2> HIDE DEF U
  <2> QED BY <2>1, <2>3, <2>4
<1> HIDE DEF U, k
<1>15. FlowInv(f)'
  <2>1. /\ got[f] = [n \in 1 .. k |-> n] /\ k <= m
        /\ online[f] /\ net # "dead" => Waiting(buf[f]) /\ Ordered(Stream(f), k, m)
        /\ online[f] /\ net # "dead" /\ online[e] =>
              Ordered(U, k, m) /\ Complete(U, k, m) /\ Backed(U)
    BY <1>1, <1>2 DEF FlowInv, U, k, m
  <2>2. online[f] /\ net # "dead" => Ordered(Stream(f), k, m + 1)
    BY <1>4, <1>14, <2>1, OrderedWider DEF k
  <2>3. ASSUME online[f], net # "dead", online[e]
        PROVE  /\ Ordered(U \o Cells(p), k, m + 1) /\ Complete(U \o Cells(p), k, m + 1)
               /\ Backed(U \o Cells(p))
    <3>1. Ordered(U, k, m) /\ Complete(U, k, m) /\ Backed(U) /\ k \in Nat /\ k <= m
      BY <1>4, <2>1, <2>3 DEF k
    <3>2. Ordered(U \o Cells(p), k, m + 1) /\ Complete(U \o Cells(p), k, m + 1)
      BY <1>4, <1>5, <1>14, <3>1, OrderedGrows
    <3>3. Backed(Cells(p))
      <4> SUFFICES ASSUME NEW i \in 1 .. Len(Cells(p)) PROVE Room(Len(Cells(p)) - i, Cells(p)[i])
        BY DEF Backed
      <4>1. Cells(p)[i][1] = p /\ Cells(p)[i][2] = i /\ i \in 1 .. Total(p) /\ Total(p) \in Nat
        BY <1>5, CellsOf
      <4> QED BY <1>5, <4>1 DEF Room
    <3> QED BY <1>5, <1>14, <3>1, <3>2, <3>3, BackedGrows
  <2>4. Len(got[f])' = k /\ Len(sent[Peer(f)])' = m + 1 /\ k <= m + 1
    BY <1>1, <1>3, <1>4, <1>7, <2>1 DEF k
  <2>5. /\ online' = online /\ net' = net /\ buf' = buf /\ got' = got
    BY <1>3
  <2>6. /\ got'[f] = [n \in 1 .. k |-> n]
        /\ online'[f] /\ net' # "dead" => Waiting(buf[f])' /\ Ordered(Stream(f)', k, m + 1)
        /\ online'[f] /\ net' # "dead" /\ online'[Peer(f)] =>
              Ordered(AllOf(f)', k, m + 1) /\ Complete(AllOf(f)', k, m + 1) /\ Backed(AllOf(f))'
    BY <1>1, <1>14, <2>1, <2>2, <2>3, <2>5
  <2> QED BY <2>4, <2>6 DEF FlowInv
<1>16. FrameInv(f)'
  <2>1. \/ split[e] # {} \/ TooLong(e)
        \/ /\ why[f] # "data"
           /\ online[f] /\ net # "dead" => Framed(Stream(f))
           /\ online[f] /\ net # "dead" /\ online[e] =>
                 Framed(U) /\ (part[e] = 0 => Closed(Stream(f)))
    BY <1>1, <1>2 DEF FrameInv, U
  <2>2. CASE split[e] # {}
    BY <1>1, <1>3, <2>2 DEF FrameInv
  <2>3. CASE TooLong(e)
    <3>1. PICK n \in DOMAIN sent[e] : sent[e][n] + HashLen > MaxLen
      BY <2>3 DEF TooLong
    <3>2. n \in 1 .. m /\ n \in DOMAIN sent'[e]
      BY <1>4, <1>7
    <3>3. TooLong(e)'
      BY <1>7, <3>1, <3>2 DEF TooLong
    <3> QED BY <1>1, <3>3 DEF FrameInv
  <2>4. CASE p.len > MaxLen
    <3>1. m + 1 \in DOMAIN sent'[e]
      BY <1>4, <1>7
    <3>2. sent'[e][m + 1] + HashLen > MaxLen
      BY <1>5, <1>7, <2>4
    <3>3. TooLong(e)'
      BY <3>1, <3>2 DEF TooLong
    <3> QED BY <1>1, <3>3 DEF FrameInv
  <2>5. CASE ~(split[e] # {} \/ TooLong(e)) /\ ~(p.len > MaxLen)
    <3>1. p.len <= MaxLen
      BY <1>4, <1>5, <2>5, FramingAssumption DEF HashLen
    <3>2. ASSUME online[f], net # "dead", online[e] PROVE Framed(U \o Cells(p))
      <4>1. Framed(U) /\ Backed(U)
        BY <1>1, <1>2, <2>1, <2>5, <3>2 DEF FlowInv, U
      <4>2. Closed(U)
        BY <1>14, <4>1, BackedClosed
      <4> QED BY <1>5, <1>14, <3>1, <4>1, <4>2, FramedGrows
    <3>3. /\ why'[f] # "data"
          /\ online'[f] /\ net' # "dead" => Framed(Stream(f))'
          /\ online'[f] /\ net' # "dead" /\ online'[Peer(f)] =>
                Framed(AllOf(f))' /\ (part'[Peer(f)] = 0 => Closed(Stream(f))')
      BY <1>1, <1>3, <1>14, <2>1, <2>5, <3>2
    <3> QED BY <3>3 DEF FrameInv
  <2> QED BY <2>2, <2>3, <2>4, <2>5
<1> QED BY <1>8, <1>9, <1>10, <1>11, <1>12, <1>13, <1>15, <1>16, InvFromParts DEF f

\* pushOperation: cells go from the call to the queue.
LEMMA PushChunkKeeps ==
    ASSUME FramingInv, NEW e \in Ends, PushChunk(e)
    PROVE  FramingInv'
<1> DEFINE f == Peer(e)
           a == Chunk(pushing[e])
           b == AfterChunk(pushing[e])
<1>1. f \in Ends /\ f # e /\ Peer(f) = e
  BY PeerFacts
<1>2. /\ TypeOK /\ QuietInv
      /\ QueInv(e) /\ FlowInv(e) /\ FrameInv(e) /\ ProbeInv(e)
      /\ QueInv(f) /\ FlowInv(f) /\ FrameInv(f) /\ ProbeInv(f)
  BY InvParts
<1>3. /\ pushing[e] # <<>>
      /\ que' = [que EXCEPT ![e] = @ \o a] /\ pushing' = [pushing EXCEPT ![e] = AfterChunk(@)]
      /\ UNCHANGED <<sent, wire, online, why, buf, got, heart, net, drift, part, split>>
  BY DEF PushChunk
<1>4. /\ pushing[e] \in Seq(Cell) /\ que[e] \in Seq(Cell)
      /\ que \in [Ends -> Seq(Cell)] /\ pushing \in [Ends -> Seq(Cell)]
  BY <1>2, TypesOf DEF TypeOK
<1>5. a \in Seq(Cell) /\ b \in Seq(Cell) /\ a \o b = pushing[e]
  BY <1>4, ChunkIs
<1>6. que'[e] = que[e] \o a /\ pushing'[e] = b /\ que'[f] = que[f] /\ pushing'[f] = pushing[f]
  BY <1>1, <1>3, <1>4
<1>7. que[e] \o a \in Seq(Cell)
  BY <1>4, <1>5, ConcatProperties
<1>8. que' \in [Ends -> Seq(Cell)] /\ pushing' \in [Ends -> Seq(Cell)]
  BY <1>3, <1>4, <1>5, <1>7
<1> HIDE DEF f, a, b
<1>9. TypeOK'
  BY <1>2, <1>3, <1>8 DEF TypeOK
<1>10. sent[e] # <<>>
  BY <1>2, <1>3 DEF QueInv
<1>11. QuietInv'
  BY <1>3, <1>10 DEF QuietInv
<1>12. QueInv(e)'
  <2>1. OfMessages(que[e]) /\ OfMessages(pushing[e])
    BY <1>2 DEF QueInv
  <2>2. OfMessages(a) /\ OfMessages(b)
    BY <1>5, <2>1, MessagesJoin
  <2>3. OfMessages(que[e] \o a)
    BY <1>4, <1>5, <2>1, <2>2, MessagesJoin
  <2> QED BY <1>3, <1>6, <1>10, <2>2, <2>3 DEF QueInv
<1>13. QueInv(f)'
  BY <1>2, <1>3, <1>6 DEF QueInv
<1>14. FlowInv(e)' /\ FrameInv(e)' /\ ProbeInv(e)'
  BY <1>1, <1>2, <1>3, <1>6, FlowSame, FrameSame, ProbeSame DEF Stream, f
<1>15. ProbeInv(f)'
  BY <1>1, <1>2, <1>3, ProbeSame DEF Stream
<1>16. Stream(f)' = Stream(f) /\ AllOf(f)' = AllOf(f)
  <2>1. Stream(f) \in Seq(Cell) /\ Stream(f)' = Stream(f)
    BY <1>1, <1>2, <1>3, StreamsOf DEF Stream
  <2> DEFINE X == Stream(f)
  <2>2. AllOf(f)' = (X \o (que[e] \o a)) \o b /\ AllOf(f) = (X \o que[e]) \o (a \o b)
    BY <1>1, <1>5, <1>6, <2>1 DEF AllOf
  <2>3. X \in Seq(Cell)
    BY <2>1
  <2> HIDE DEF X
  <2>4. X \o (que[e] \o a) = (X \o que[e]) \o a /\ X \o que[e] \in Seq(Cell)
    BY <1>4, <1>5, <2>3, CellsAssociative
  <2>5. ((X \o que[e]) \o a) \o b = (X \o que[e]) \o (a \o b)
    BY <1>5, <2>4, CellsAssociative
  <2> QED BY <2>1, <2>2, <2>4, <2>5
<1>17. FlowInv(f)'
  BY <1>1, <1>2, <1>3, <1>16 DEF FlowInv
<1>18. FrameInv(f)'
  <2>1. TooLong(e)' <=> TooLong(e)
    BY <1>3 DEF TooLong
  <2> QED BY <1>1, <1>2, <1>3, <1>16, <2>1 DEF FrameInv
<1> QED BY <1>9, <1>11, <1>12, <1>13, <1>14, <1>15, <1>17, <1>18, InvFromParts DEF f


\* The last cell written ends its message, unless the part says otherwise.
LEMMA PartIs ==
    ASSUME NEW X \in Seq(Cell), NEW q \in Seq(Cell), q # <<>>
    PROVE  /\ PartOf(q) \in Nat
           /\ OfMessages(q) /\ Framed(X \o q) /\ PartOf(q) = 0 => Closed(X \o q)
<1> DEFINE l == Len(q)
           c == q[l]
           W == X \o q
<1>1. l \in Nat /\ l >= 1 /\ l \in 1 .. l
  BY EmptySeq, LenProperties
<1>2. c \in Cell
  BY <1>1, ElementOfSeq
<1>3. /\ Len(X) \in Nat /\ Len(W) = Len(X) + l
      /\ \A i \in 1 .. l : W[Len(X) + i] = q[i]
  BY JoinIndex
<1>4. Total(c[1]) \in Nat /\ c[1].n \in Nat /\ c[2] \in Nat
  BY <1>2, CellFacts
<1>5. PartOf(q) = IF c[2] < Total(c[1]) THEN c[1].n ELSE 0
  BY DEF PartOf
<1>6. PartOf(q) \in Nat
  BY <1>4, <1>5
<1> HIDE DEF W, l
<1>7. ASSUME OfMessages(q), Framed(W), PartOf(q) = 0 PROVE Closed(W)
  <2>1. c[1].n >= 1
    BY <1>1, <1>7 DEF OfMessages, l
  <2>2. ~(c[2] < Total(c[1]))
    BY <1>5, <1>7, <2>1
  <2>3. Len(W) \in 1 .. Len(W) /\ W[Len(W)] = c
    BY <1>1, <1>3
  <2>4. c[2] \in 1 .. Total(c[1])
    BY <1>7, <2>3 DEF Framed
  <2>5. c[2] = Total(c[1])
    BY <1>4, <2>2, <2>4
  <2> QED BY <2>3, <2>5 DEF Closed
<1> QED BY <1>6, <1>7 DEF W

\* executeOperation: cells go from the queue to the wire.
LEMMA DrainKeeps ==
    ASSUME FramingInv, NEW e \in Ends, Drain(e)
    PROVE  FramingInv'
<1> DEFINE f == Peer(e)
<1>1. f \in Ends /\ f # e /\ Peer(f) = e
  BY PeerFacts
<1>2. /\ TypeOK /\ QuietInv
      /\ QueInv(e) /\ FlowInv(e) /\ FrameInv(e) /\ ProbeInv(e)
      /\ QueInv(f) /\ FlowInv(f) /\ FrameInv(f) /\ ProbeInv(f)
  BY InvParts
<1>3. /\ que[e] # <<>> /\ que' = [que EXCEPT ![e] = <<>>]
      /\ UNCHANGED <<sent, pushing, online, why, buf, got, heart, net, drift, split>>
  BY DEF Drain
<1>4. /\ que \in [Ends -> Seq(Cell)] /\ wire \in [Ends -> Seq(Cell)] /\ part \in [Ends -> Nat]
      /\ que[e] \in Seq(Cell) /\ wire[e] \in Seq(Cell) /\ pushing[e] \in Seq(Cell)
      /\ online[e] \in BOOLEAN /\ buf[f] \in Seq(Cell)
  BY <1>1, <1>2, TypesOf DEF TypeOK
<1>5. /\ que'[e] = <<>> /\ que'[f] = que[f] /\ que' \in [Ends -> Seq(Cell)]
  BY <1>1, <1>3, <1>4, EmptySeq
<1>6. /\ online[e] => part' = [part EXCEPT ![e] = PartOf(que[e])]
      /\ ~online[e] => part' = part
      /\ online[e] /\ net # "dead" => wire' = [wire EXCEPT ![e] = @ \o que[e]]
      /\ ~online[e] \/ net = "dead" => wire' = wire
  BY DEF Drain, Write
<1>7. sent[e] # <<>>
  BY <1>2, <1>3 DEF QueInv
<1> DEFINE w == wire[e] \o que[e]
<1>8. w \in Seq(Cell) /\ w # <<>>
  BY <1>3, <1>4, JoinIndex, JoinSome
<1>9. PartOf(que[e]) \in Nat
  BY <1>3, <1>4, PartIs
<1>10. wire'[f] = wire[f] /\ part'[f] = part[f] /\ part' \in [Ends -> Nat]
  BY <1>1, <1>4, <1>6, <1>9
<1>11. wire' \in [Ends -> Seq(Cell)]
  BY <1>4, <1>6, <1>8
<1>12. /\ online[e] => part'[e] = PartOf(que[e])
       /\ online[e] /\ net # "dead" => wire'[e] = w
       /\ ~(online[e] /\ net # "dead") => wire'[e] = wire[e]
  BY <1>4, <1>6
<1> HIDE DEF f, w
<1>13. TypeOK'
  BY <1>2, <1>3, <1>5, <1>10, <1>11 DEF TypeOK
<1>14. QuietInv'
  BY <1>3, <1>7 DEF QuietInv
<1>15. QueInv(e)' /\ QueInv(f)'
  <2>1. OfMessages(<<>>)
    BY DEF OfMessages
  <2> QED BY <1>2, <1>3, <1>5, <2>1 DEF QueInv
<1>16. FlowInv(e)' /\ FrameInv(e)'
  <2>1. /\ got'[e] = got[e] /\ sent'[f] = sent[f] /\ split'[f] = split[f]
        /\ online' = online /\ net' = net /\ buf'[e] = buf[e] /\ wire'[f] = wire[f]
        /\ que'[f] = que[f] /\ pushing'[f] = pushing[f] /\ part'[f] = part[f] /\ why'[e] = why[e]
    BY <1>3, <1>5, <1>10
  <2>2. FlowInv(e)'
    BY <1>2, <2>1, FlowSame DEF f
  <2>3. FrameInv(e)'
    BY <1>2, <2>1, FrameSame DEF f
  <2> QED BY <2>2, <2>3
<1>17. ProbeInv(f)'
  <2>1. Stream(e)' = Stream(e)
    BY <1>3, <1>10 DEF Stream, f
  <2>2. wire'[e] = <<>> => wire[e] = <<>>
    BY <1>8, <1>12
  <2> QED BY <1>1, <1>2, <1>3, <2>1, <2>2, ProbeSame
<1>18. ProbeInv(e)'
  <2>1. Owing(Stream(f)) => Owing(Stream(f)')
    <3>1. CASE online[e] /\ net # "dead"
      <4>1. Stream(f) = buf[f] \o wire[e] /\ Stream(f)' = buf[f] \o (wire[e] \o que[e])
        <5>1. wire'[e] = wire[e] \o que[e] /\ buf'[f] = buf[f]
          BY <1>3, <1>12, <3>1 DEF w
        <5> QED BY <1>1, <5>1 DEF Stream
      <4>2. /\ (buf[f] \o wire[e]) \o que[e] = buf[f] \o (wire[e] \o que[e])
            /\ buf[f] \o wire[e] \in Seq(Cell)
        BY <1>4, CellsAssociative
      <4>3. Stream(f)' = Stream(f) \o que[e] /\ Stream(f) \in Seq(Cell)
        BY <4>1, <4>2, Zenon
      <4> QED BY <1>4, <4>3, OwingGrows
    <3>2. CASE ~(online[e] /\ net # "dead")
      <4>1. Stream(f)' = Stream(f)
        BY <1>1, <1>3, <1>12, <3>2 DEF Stream
      <4> QED BY <4>1
    <3> QED BY <3>1, <3>2
  <2> QED BY <1>1, <1>2, <1>3, <1>10, <2>1, ProbeSame DEF f
<1>19. CASE ~online[e]
  <2>1. FlowInv(f)' /\ FrameInv(f)'
    BY <1>1, <1>2, <1>3, <1>6, <1>19, FlowSame, FrameSame
  <2> QED BY <1>13, <1>14, <1>15, <1>16, <1>17, <1>18, <2>1, InvFromParts DEF f
<1>20. CASE net = "dead"
  <2>1. FlowInv(f)'
    BY <1>1, <1>2, <1>3, <1>20 DEF FlowInv
  <2>2. TooLong(e)' <=> TooLong(e)
    BY <1>3 DEF TooLong
  <2>3. FrameInv(f)'
    BY <1>1, <1>2, <1>3, <1>20, <2>2 DEF FrameInv
  <2> QED BY <1>13, <1>14, <1>15, <1>16, <1>17, <1>18, <2>1, <2>3, InvFromParts DEF f
<1>21. CASE online[e] /\ net # "dead"
  <2> DEFINE X == Stream(f)
             Y == X \o que[e]
  <2>1. X \in Seq(Cell) /\ Y \in Seq(Cell)
    BY <1>1, <1>2, <1>4, StreamsOf, ConcatProperties
  <2>2. X = buf[f] \o wire[e] /\ AllOf(f) = Y \o pushing[e]
    BY <1>1 DEF Stream, AllOf
  <2>3. Stream(f)' = buf[f] \o w /\ AllOf(f)' = (Stream(f)' \o <<>>) \o pushing[e]
    BY <1>1, <1>3, <1>5, <1>12, <1>21 DEF Stream, AllOf
  <2> HIDE DEF X, Y
  <2>4. buf[f] \o w = Y
    BY <1>4, <2>2, CellsAssociative DEF w, Y
  <2>5. Stream(f)' = Y /\ AllOf(f)' = AllOf(f)
    BY <2>1, <2>2, <2>3, <2>4, ConcatEmptySeq
  <2> DEFINE k == Len(got[f])
             m == Len(sent[e])
  <2>6. k \in Nat /\ m \in Nat
    BY <1>1, <1>2, TypesOf
  <2>7. FlowInv(f)'
    <3>1. /\ got[f] = [n \in 1 .. k |-> n] /\ k <= m
          /\ online[f] /\ net # "dead" => Waiting(buf[f]) /\ Ordered(X, k, m)
          /\ online[f] /\ net # "dead" /\ online[e] =>
                Ordered(AllOf(f), k, m) /\ Complete(AllOf(f), k, m) /\ Backed(AllOf(f))
      BY <1>1, <1>2 DEF FlowInv, X
    <3>2. online[f] => Ordered(Y, k, m)
      BY <1>4, <1>21, <2>1, <2>2, <2>6, <3>1, OrderedPrefix
    <3> HIDE DEF k, m
    <3>3. /\ got'[f] = [n \in 1 .. k |-> n] /\ k <= m
          /\ online'[f] /\ net' # "dead" => Waiting(buf[f])' /\ Ordered(Stream(f)', k, m)
          /\ online'[f] /\ net' # "dead" /\ online'[Peer(f)] =>
                Ordered(AllOf(f)', k, m) /\ Complete(AllOf(f)', k, m) /\ Backed(AllOf(f))'
      BY <1>1, <1>3, <1>21, <2>5, <3>1, <3>2
    <3>4. Len(got[f])' = k /\ Len(sent[Peer(f)])' = m
      BY <1>1, <1>3 DEF k, m
    <3> QED BY <3>3, <3>4 DEF FlowInv
  <2>8. FrameInv(f)'
    <3>1. CASE split[e] # {} \/ TooLong(e)
      <4>1. TooLong(e)' <=> TooLong(e)
        BY <1>3 DEF TooLong
      <4> QED BY <1>1, <1>3, <3>1, <4>1 DEF FrameInv
    <3>2. CASE ~(split[e] # {} \/ TooLong(e))
      <4>1. /\ why[f] # "data"
            /\ online[f] => Framed(AllOf(f))
        BY <1>1, <1>2, <1>21, <3>2 DEF FrameInv
      <4>2. ASSUME online[f] PROVE Framed(Y) /\ (part'[e] = 0 => Closed(Y))
        <5>1. Framed(Y)
          BY <1>4, <2>1, <2>2, <4>1, <4>2, FramedPrefix
        <5>2. OfMessages(que[e]) /\ part'[e] = PartOf(que[e])
          BY <1>2, <1>12, <1>21 DEF QueInv
        <5> QED BY <1>3, <1>4, <2>1, <5>1, <5>2, PartIs DEF Y
      <4>3. /\ why'[f] # "data"
            /\ online'[f] /\ net' # "dead" => Framed(Stream(f)')
            /\ online'[f] /\ net' # "dead" /\ online'[Peer(f)] =>
                  Framed(AllOf(f)') /\ (part'[Peer(f)] = 0 => Closed(Stream(f)'))
        BY <1>1, <1>3, <2>5, <4>1, <4>2
      <4> QED BY <4>3 DEF FrameInv
    <3> QED BY <3>1, <3>2
  <2> QED BY <1>13, <1>14, <1>15, <1>16, <1>17, <1>18, <2>7, <2>8, InvFromParts DEF f
<1> QED BY <1>4, <1>19, <1>20, <1>21

-----------------------------------------------------------------------------
(* The steps that end a connection                                         *)

\* Where the count of the heartbeat starts
LEMMA FreshIs ==
    ASSUME NEW e \in Ends
    PROVE  /\ Fresh(e) \in [time : 0 .. TicksPerCheck - 1, count : Int]
           /\ Fresh(e).time = 0 /\ Fresh(e).count \in -2 .. -1
           /\ e = "client" => Fresh(e).count = -1
           /\ e = "server" => Fresh(e).count = -2
BY FramingAssumption DEF Fresh, ResetCount, Ends

\* setIsOnline(false): what it changes
LEMMA OfflineIs ==
    ASSUME TypeOK, NEW e \in Ends, NEW reason \in {"data", "zero", "closed", "heart"},
           GoOffline(e, reason)
    PROVE  /\ online' \in [Ends -> BOOLEAN] /\ ~online'[e] /\ online'[Peer(e)] = online[Peer(e)]
           /\ why' \in [Ends -> {"none", "data", "zero", "closed", "heart"}]
           /\ why'[e] = reason /\ why'[Peer(e)] = why[Peer(e)]
           /\ buf' \in [Ends -> Seq(Cell)] /\ buf'[e] = <<>> /\ buf'[Peer(e)] = buf[Peer(e)]
           /\ heart' \in [Ends -> [time : 0 .. TicksPerCheck - 1, count : Int]]
           /\ heart'[e] = Fresh(e) /\ heart'[Peer(e)] = heart[Peer(e)]
<1>1. Peer(e) \in Ends /\ Peer(e) # e
  BY PeerFacts
<1>2. /\ online \in [Ends -> BOOLEAN] /\ online' = [online EXCEPT ![e] = FALSE]
      /\ why \in [Ends -> {"none", "data", "zero", "closed", "heart"}]
      /\ why' = [why EXCEPT ![e] = reason]
      /\ buf \in [Ends -> Seq(Cell)] /\ buf' = [buf EXCEPT ![e] = <<>>]
      /\ heart \in [Ends -> [time : 0 .. TicksPerCheck - 1, count : Int]]
      /\ heart' = [heart EXCEPT ![e] = Fresh(e)]
  BY DEF TypeOK, GoOffline
<1>3. online' \in [Ends -> BOOLEAN] /\ ~online'[e] /\ online'[Peer(e)] = online[Peer(e)]
  BY <1>1, <1>2
<1>4. /\ why' \in [Ends -> {"none", "data", "zero", "closed", "heart"}]
      /\ why'[e] = reason /\ why'[Peer(e)] = why[Peer(e)]
  BY <1>1, <1>2
<1>5. buf' \in [Ends -> Seq(Cell)] /\ buf'[e] = <<>> /\ buf'[Peer(e)] = buf[Peer(e)]
  BY <1>1, <1>2, EmptySeq
<1>6. /\ heart' \in [Ends -> [time : 0 .. TicksPerCheck - 1, count : Int]]
      /\ heart'[e] = Fresh(e) /\ heart'[Peer(e)] = heart[Peer(e)]
  BY <1>1, <1>2, FreshIs
<1> QED BY <1>3, <1>4, <1>5, <1>6

\* An end starts its count again.  With an end off line nothing is awaited.
LEMMA QuietOff ==
    ASSUME QuietInv, NEW e \in Ends, sent' = sent, net' = net,
           net = "prompt" => drift' \in -MaxDrift .. MaxDrift,
           \E g \in Ends : ~online'[g], heart'[e] = Fresh(e), heart'[Peer(e)] = heart[Peer(e)]
    PROVE  QuietInv'
<1> SUFFICES ASSUME net = "prompt", \A g \in Ends : sent[g] = <<>>
             PROVE  /\ heart'["server"].count \in -2 .. 0 /\ heart'["client"].count \in -1 .. 1
                    /\ drift' \in -MaxDrift .. MaxDrift
  BY DEF QuietInv
<1>1. heart["server"].count \in -2 .. 0 /\ heart["client"].count \in -1 .. 1
  BY DEF QuietInv
<1>2. CASE e = "client"
  <2>1. Peer(e) = "server"
    BY <1>2, PeerFacts DEF Ends
  <2>2. heart'["client"].count = -1
    BY <1>2, FreshIs
  <2> QED BY <1>1, <2>1, <2>2
<1>3. CASE e = "server"
  <2>1. Peer(e) = "client"
    BY <1>3, PeerFacts DEF Ends
  <2>2. heart'["server"].count = -2
    BY <1>3, FreshIs
  <2> QED BY <1>1, <2>1, <2>2
<1> QED BY <1>2, <1>3 DEF Ends

\* The end of the stream is read.
LEMMA ReadEndKeeps ==
    ASSUME FramingInv, NEW e \in Ends, ReadEnd(e)
    PROVE  FramingInv'
<1> DEFINE f == Peer(e)
<1>1. f \in Ends /\ f # e /\ Peer(f) = e
  BY PeerFacts
<1>2. /\ TypeOK /\ QuietInv
      /\ QueInv(e) /\ FlowInv(e) /\ FrameInv(e) /\ ProbeInv(e)
      /\ QueInv(f) /\ FlowInv(f) /\ FrameInv(f) /\ ProbeInv(f)
  BY InvParts
<1>3. /\ ~online[f] /\ GoOffline(e, "closed")
      /\ UNCHANGED <<sent, pushing, que, wire, got, net, drift, part, split>>
  BY DEF ReadEnd
<1>4. /\ online' \in [Ends -> BOOLEAN] /\ ~online'[e] /\ online'[f] = online[f]
      /\ why' \in [Ends -> {"none", "data", "zero", "closed", "heart"}]
      /\ why'[e] = "closed" /\ why'[f] = why[f]
      /\ buf' \in [Ends -> Seq(Cell)]
      /\ heart' \in [Ends -> [time : 0 .. TicksPerCheck - 1, count : Int]]
      /\ heart'[e] = Fresh(e) /\ heart'[f] = heart[f]
  BY <1>2, <1>3, OfflineIs
<1> HIDE DEF f
<1>5. TypeOK'
  BY <1>2, <1>3, <1>4 DEF TypeOK
<1>6. QuietInv'
  <2>1. net = "prompt" /\ (\A g \in Ends : sent[g] = <<>>) => drift \in -MaxDrift .. MaxDrift
    BY <1>2 DEF QuietInv
  <2>2. CASE net = "prompt" /\ \A g \in Ends : sent[g] = <<>>
    BY <1>2, <1>3, <1>4, <2>1, <2>2, QuietOff DEF f
  <2>3. CASE ~(net = "prompt" /\ \A g \in Ends : sent[g] = <<>>)
    BY <1>3, <2>3 DEF QuietInv
  <2> QED BY <2>2, <2>3
<1>7. QueInv(e)' /\ QueInv(f)'
  BY <1>2, <1>3 DEF QueInv
<1>8. FlowInv(e)' /\ FrameInv(e)'
  BY <1>1, <1>2, <1>3, <1>4, FlowSame, FrameSame DEF f
<1>9. FlowInv(f)' /\ FrameInv(f)'
  BY <1>1, <1>2, <1>3, <1>4, FlowSame, FrameSame
<1>10. ProbeInv(e)'
  BY <1>2, <1>3, <1>4, ProbeSame DEF f
<1>11. ProbeInv(f)'
  BY <1>1, <1>2, <1>3, <1>4, ProbeSame
<1> QED BY <1>5, <1>6, <1>7, <1>8, <1>9, <1>10, <1>11, InvFromParts DEF f

\* The cable is pulled.
LEMMA DieKeeps ==
    ASSUME FramingInv, Die
    PROVE  FramingInv'
<1>1. /\ net' = "dead" /\ drift' = 0
      /\ wire' = [e \in Ends |-> <<>>]
      /\ heart' = [e \in Ends |-> [heart[e] EXCEPT !.time = 0]]
      /\ UNCHANGED <<sent, pushing, que, online, why, buf, got, part, split>>
  BY DEF Die
<1>2. TypeOK /\ \A e \in Ends : QueInv(e) /\ FlowInv(e) /\ FrameInv(e)
  BY DEF FramingInv
<1>3. TypeOK'
  <2>1. wire' \in [Ends -> Seq(Cell)]
    BY <1>1, EmptySeq
  <2>2. heart' \in [Ends -> [time : 0 .. TicksPerCheck - 1, count : Int]]
    <3> SUFFICES ASSUME NEW e \in Ends
                 PROVE  [heart[e] EXCEPT !.time = 0] \in [time : 0 .. TicksPerCheck - 1, count : Int]
      BY <1>1
    <3>1. heart[e] \in [time : 0 .. TicksPerCheck - 1, count : Int] /\ 0 \in 0 .. TicksPerCheck - 1
      BY <1>2, FramingAssumption DEF TypeOK
    <3> QED BY <3>1
  <2> QED BY <1>1, <1>2, <2>1, <2>2 DEF TypeOK
<1>4. QuietInv'
  BY <1>1 DEF QuietInv
<1>5. ASSUME NEW e \in Ends PROVE QueInv(e)' /\ FlowInv(e)' /\ FrameInv(e)' /\ ProbeInv(e)'
  <2>1. QueInv(e)'
    BY <1>1, <1>2 DEF QueInv
  <2>2. FlowInv(e)'
    BY <1>1, <1>2 DEF FlowInv
  <2>3. FrameInv(e)'
    <3>1. TooLong(Peer(e)) => TooLong(Peer(e))'
      BY <1>1 DEF TooLong
    <3> QED BY <1>1, <1>2, <3>1 DEF FrameInv
  <2>4. ProbeInv(e)'
    BY <1>1 DEF ProbeInv
  <2> QED BY <2>1, <2>2, <2>3, <2>4
<1> QED BY <1>3, <1>4, <1>5 DEF FramingInv

-----------------------------------------------------------------------------
(* Heartbeats an end writes                                                *)

\* A step in which end e writes the heartbeats A and which leaves the rest of
\* what is on its way to the other end alone
Writes(e, A) ==
    /\ Hearts(A) /\ online[e] /\ net # "dead" /\ net' = net
    /\ wire'[e] = wire[e] \o A
    /\ que'[e] = que[e] /\ pushing'[e] = pushing[e] /\ part'[e] = part[e] /\ sent'[e] = sent[e]
    /\ buf'[Peer(e)] = buf[Peer(e)] /\ got'[Peer(e)] = got[Peer(e)] /\ why'[Peer(e)] = why[Peer(e)]
    /\ online'[Peer(e)] => online[Peer(e)]

\* The stream to the other end, in which they are in the middle
LEMMA WrittenStream ==
    ASSUME TypeOK, NEW e \in Ends, NEW A \in Seq(Cell), Writes(e, A)
    PROVE  /\ Stream(Peer(e))' = Stream(Peer(e)) \o A
           /\ AllOf(Peer(e))' = (Stream(Peer(e)) \o A) \o (que[e] \o pushing[e])
           /\ AllOf(Peer(e)) = Stream(Peer(e)) \o (que[e] \o pushing[e])
           /\ Stream(Peer(e)) \in Seq(Cell) /\ que[e] \o pushing[e] \in Seq(Cell)
           /\ Stream(Peer(e)) \o A \in Seq(Cell)
<1> DEFINE f == Peer(e)
           b == buf[f]
           w == wire[e]
           q == que[e]
           p == pushing[e]
           X == Stream(f)
<1>1. f \in Ends /\ Peer(f) = e
  BY PeerFacts
<1>2. b \in Seq(Cell) /\ w \in Seq(Cell) /\ q \in Seq(Cell) /\ p \in Seq(Cell)
  BY <1>1, TypesOf
<1>3. X \in Seq(Cell) /\ q \o p \in Seq(Cell) /\ AllOf(f) = X \o (q \o p)
  BY <1>1, StreamsOf
<1>4. X = b \o w /\ Stream(f)' = b \o (w \o A) /\ AllOf(f)' = (Stream(f)' \o q) \o p
  <2>1. wire'[e] = w \o A /\ buf'[f] = b /\ que'[e] = q /\ pushing'[e] = p
    BY DEF Writes
  <2>2. X = b \o w
    BY <1>1 DEF Stream
  <2>3. Stream(f)' = b \o (w \o A)
    BY <1>1, <2>1 DEF Stream
  <2>4. AllOf(f)' = (Stream(f)' \o q) \o p
    BY <1>1, <2>1 DEF AllOf
  <2> QED BY <2>2, <2>3, <2>4
<1> HIDE DEF f, b, w, q, p, X
<1>5. (b \o w) \o A = b \o (w \o A) /\ X \o A \in Seq(Cell)
  <2>1. b \in Seq(Cell) /\ w \in Seq(Cell) /\ X \in Seq(Cell)
    BY <1>2, <1>3
  <2>2. (b \o w) \o A = b \o (w \o A)
    BY <2>1, CellsJoin
  <2>3. X \o A \in Seq(Cell)
    BY <2>1, ConcatProperties
  <2> QED BY <2>2, <2>3
<1>6. Stream(f)' = X \o A
  BY <1>4, <1>5
<1>7. ((X \o A) \o q) \o p = (X \o A) \o (q \o p)
  BY <1>2, <1>5, CellsJoin
<1>8. AllOf(f)' = (X \o A) \o (q \o p)
  BY <1>4, <1>6, <1>7
<1> QED BY <1>3, <1>5, <1>6, <1>8 DEF f, q, p, X

\* The messages to the other end stay in order.
LEMMA FlowWritten ==
    ASSUME TypeOK, NEW e \in Ends, NEW A \in Seq(Cell), Writes(e, A), FlowInv(Peer(e))
    PROVE  FlowInv(Peer(e))'
<1> DEFINE f == Peer(e)
           X == Stream(f)
           Y == que[e] \o pushing[e]
           k == Len(got[f])
           m == Len(sent[e])
<1>1. f \in Ends /\ f # e /\ Peer(f) = e
  BY PeerFacts
<1>2. /\ X \in Seq(Cell) /\ Y \in Seq(Cell) /\ AllOf(f) = X \o Y /\ X \o A \in Seq(Cell)
      /\ Stream(f)' = X \o A /\ AllOf(f)' = (X \o A) \o Y
  BY WrittenStream
<1>3. k \in Nat /\ m \in Nat
  BY <1>1, TypesOf
<1>4. /\ got'[f] = got[f] /\ sent'[e] = sent[e] /\ net' = net /\ buf'[f] = buf[f]
      /\ online'[f] => online[f]
      /\ online[e] /\ net # "dead" /\ Hearts(A)
  BY DEF Writes
<1>5. /\ got[f] = [n \in 1 .. k |-> n] /\ k <= m
      /\ online[f] => Waiting(buf[f]) /\ Ordered(AllOf(f), k, m) /\ Complete(AllOf(f), k, m)
                      /\ Backed(AllOf(f))
  BY <1>1, <1>4 DEF FlowInv
<1>6. Backed(A) /\ \A i \in 1 .. Len(A) : A[i][1].kind # "data"
  BY <1>4 DEF Hearts
<1>7. Len(got[f])' = k /\ Len(sent[Peer(f)])' = m
  BY <1>1, <1>4
<1> HIDE DEF f, X, Y, k, m
<1>8. ASSUME online[f]
      PROVE  /\ Ordered((X \o A) \o Y, k, m) /\ Complete((X \o A) \o Y, k, m)
             /\ Backed((X \o A) \o Y) /\ Ordered(X \o A, k, m)
  <2>1. Ordered(X \o Y, k, m) /\ Complete(X \o Y, k, m) /\ Backed(X \o Y)
    BY <1>2, <1>5, <1>8
  <2>2. Ordered((X \o A) \o Y, k, m) /\ Complete((X \o A) \o Y, k, m)
    BY <1>2, <1>3, <1>6, <2>1, OrderedInsert
  <2>3. Backed((X \o A) \o Y)
    BY <1>2, <1>6, <2>1, BackedInsert
  <2>4. Ordered(X \o A, k, m)
    BY <1>2, <1>3, <2>2, OrderedPrefix
  <2> QED BY <2>2, <2>3, <2>4
<1>9. /\ got'[f] = [n \in 1 .. k |-> n] /\ k <= m
      /\ online'[f] /\ net' # "dead" => Waiting(buf[f])' /\ Ordered(Stream(f)', k, m)
      /\ online'[f] /\ net' # "dead" /\ online'[Peer(f)] =>
            Ordered(AllOf(f)', k, m) /\ Complete(AllOf(f)', k, m) /\ Backed(AllOf(f))'
  BY <1>2, <1>4, <1>5, <1>8
<1>10. FlowInv(f)'
  BY <1>7, <1>9 DEF FlowInv
<1> QED BY <1>10 DEF f

\* Packet by packet, unless the heartbeat splits a message
LEMMA FrameWritten ==
    ASSUME TypeOK, NEW e \in Ends, NEW A \in Seq(Cell), Writes(e, A), FrameInv(Peer(e)),
           part[e] # 0 \/ split[e] # {} => split'[e] # {}
    PROVE  FrameInv(Peer(e))'
<1> DEFINE f == Peer(e)
           X == Stream(f)
           Y == que[e] \o pushing[e]
<1>1. f \in Ends /\ f # e /\ Peer(f) = e
  BY PeerFacts
<1>2. /\ X \in Seq(Cell) /\ Y \in Seq(Cell) /\ AllOf(f) = X \o Y /\ X \o A \in Seq(Cell)
      /\ Stream(f)' = X \o A /\ AllOf(f)' = (X \o A) \o Y
  BY WrittenStream
<1>3. /\ why'[f] = why[f] /\ part'[e] = part[e] /\ online[e] /\ net # "dead" /\ Hearts(A)
      /\ online'[f] => online[f]
  BY DEF Writes
<1>4. \/ split[e] # {} \/ TooLong(e)
      \/ why[f] # "data" /\ (online[f] => Framed(AllOf(f)) /\ (part[e] = 0 => Closed(X)))
  BY <1>1, <1>3 DEF FrameInv
<1>5. Framed(A) /\ Closed(A)
  BY <1>3, BackedClosed DEF Hearts
<1>6. TooLong(e) => TooLong(e)'
  BY DEF TooLong, Writes
<1> HIDE DEF f, X, Y
<1>7. CASE split[e] # {} \/ TooLong(e) \/ part[e] # 0
  <2>1. split'[e] # {} \/ TooLong(e)'
    BY <1>6, <1>7
  <2>2. FrameInv(f)'
    BY <1>1, <2>1 DEF FrameInv
  <2> QED BY <2>2 DEF f
<1>8. CASE ~(split[e] # {} \/ TooLong(e) \/ part[e] # 0)
  <2>1. why[f] # "data" /\ (online[f] => Framed(AllOf(f)) /\ Closed(X))
    BY <1>4, <1>8
  <2>2. ASSUME online[f]
        PROVE  Framed((X \o A) \o Y) /\ Framed(X \o A) /\ Closed(X \o A)
    <3>1. Framed(X \o Y) /\ Closed(X)
      BY <1>2, <2>1, <2>2
    <3>2. Framed((X \o A) \o Y)
      BY <1>2, <1>5, <3>1, FramedInsert
    <3>3. Framed(X \o A)
      BY <1>2, <3>2, FramedPrefix
    <3>4. Closed(X \o A)
      BY <1>2, <1>5, <3>1, ClosedJoin
    <3> QED BY <3>2, <3>3, <3>4
  <2>3. /\ why'[f] # "data"
        /\ online'[f] /\ net' # "dead" => Framed(Stream(f)')
        /\ online'[f] /\ net' # "dead" /\ online'[Peer(f)] =>
              Framed(AllOf(f)') /\ (part'[Peer(f)] = 0 => Closed(Stream(f)'))
    BY <1>1, <1>2, <1>3, <2>1, <2>2
  <2>4. FrameInv(f)'
    BY <2>3 DEF FrameInv
  <2> QED BY <2>4 DEF f
<1> QED BY <1>7, <1>8

-----------------------------------------------------------------------------
(* The heartbeat's timer                                                   *)

\* A tick comes to a prompt network when nothing is on its way: what an end
\* has left to parse is no more than a cell, so that it owes no answer.
LEMMA TickStill ==
    ASSUME FramingInv, NEW e \in Ends, net = "prompt",
           \A g \in Ends : /\ pushing[g] = <<>> /\ que[g] = <<>>
                           /\ online[g] /\ wire[g] = <<>>
    PROVE  /\ Stream(e) = buf[e] /\ Len(buf[e]) < HeadLen /\ Backed(buf[e])
           /\ heart[Peer(e)].count < 1
<1> DEFINE f == Peer(e)
           b == buf[e]
<1>1. f \in Ends /\ f # e /\ Peer(f) = e
  BY PeerFacts
<1>2. TypeOK /\ FlowInv(e) /\ ProbeInv(f)
  BY InvParts
<1>3. b \in Seq(Cell) /\ heart[f].count \in Int
  BY <1>1, <1>2, TypesOf
<1>4. Stream(e) = b /\ AllOf(e) = b
  BY <1>1, <1>3, ConcatEmptySeq DEF Stream, AllOf
<1>5. Waiting(b) /\ Backed(b)
  BY <1>1, <1>2, <1>4 DEF FlowInv
<1> HIDE DEF b
<1>6. Len(b) < HeadLen
  <2> SUFFICES ASSUME ~(Len(b) < HeadLen) PROVE FALSE
    OBVIOUS
  <2>1. IsHead(b) /\ ~(Len(b) >= Total(b[1][1]))
    BY <1>5 DEF Waiting, Whole
  <2>2. Len(b) \in Nat /\ 1 \in 1 .. Len(b) /\ b[1] \in Cell
    BY <1>3, LenProperties, ElementOfSeq DEF HeadLen
  <2>3. Total(b[1][1]) \in Nat
    BY <2>2, CellFacts
  <2>4. b[1] = <<b[1][1], 1>>
    BY <2>1 DEF IsHead, HeadLen
  <2>5. Len(b) - 1 >= Total(b[1][1]) - b[1][2]
    BY <1>5, <2>2 DEF Backed, Room
  <2>6. b[1][2] = 1
    BY <2>4
  <2> QED BY <2>1, <2>2, <2>3, <2>5, <2>6
<1>7. ~Owing(b)
  <2>1. Total(Heartbeat("probe")) = 4
    BY PacketsAre
  <2>2. Len(b) \in Nat
    BY <1>3, LenProperties
  <2> QED BY <1>6, <2>1, <2>2 DEF Owing, HeadLen
<1>8. ~(heart[f].count >= 1)
  BY <1>1, <1>2, <1>4, <1>7 DEF ProbeInv
<1>9. heart[f].count < 1
  BY <1>3, <1>8
<1> QED BY <1>4, <1>5, <1>6, <1>9 DEF b

\* A probe behind less than a head: who reads it has to answer.
LEMMA OwingProbe ==
    ASSUME NEW b \in Seq(Cell), Len(b) < HeadLen, Backed(b)
    PROVE  Owing(b \o Cells(Heartbeat("probe")))
<1> DEFINE p == Heartbeat("probe")
           a == Cells(p)
           U == b \o a
<1>1. p \in PacketSet /\ Total(p) = 4
  BY PacketsAre
<1>2. a \in Seq(Cell) /\ Len(a) = 4 /\ \A i \in 1 .. 4 : a[i] = <<p, i>>
  BY <1>1, CellsOf
<1>3. /\ Len(b) \in Nat /\ Len(U) = Len(b) + 4
      /\ \A i \in 1 .. Len(b) : U[i] = b[i]
      /\ \A i \in 1 .. 4 : U[Len(b) + i] = a[i]
  <2> HIDE DEF a
  <2>1. /\ Len(b) \in Nat /\ Len(U) = Len(b) + Len(a)
        /\ \A i \in 1 .. Len(b) : U[i] = b[i]
        /\ \A i \in 1 .. Len(a) : U[Len(b) + i] = a[i]
    BY <1>2, JoinIndex
  <2> HIDE DEF U
  <2> QED BY <1>2, <2>1
<1> HIDE DEF p, a, U
<1>4. CASE Len(b) = 0
  <2>1. \A i \in 1 .. 4 : Len(b) + i = i
    BY <1>4
  <2>2. \A i \in 1 .. 4 : U[i] = <<p, i>>
    BY <1>2, <1>3, <2>1
  <2> QED BY <1>1, <1>3, <1>4, <2>2 DEF Owing, U, a, p
<1>5. CASE Len(b) = 1
  <2>1. 1 \in 1 .. Len(b) /\ b[1] \in Cell /\ U[1] = b[1]
    <3>1. 1 \in 1 .. Len(b)
      BY <1>5
    <3> QED BY <1>3, <3>1, ElementOfSeq
  <2>2. Total(b[1][1]) \in Nat /\ Total(b[1][1]) >= 2 /\ b[1][2] \in Nat
    BY <2>1, CellFacts
  <2>3. Len(b) - 1 >= Total(b[1][1]) - b[1][2]
    BY <2>1 DEF Backed, Room
  <2>4. b[1][2] # 1
    BY <1>5, <2>2, <2>3
  <2> QED BY <1>3, <1>5, <2>1, <2>4 DEF Owing, HeadLen, U, a, p
<1>6. Len(b) = 0 \/ Len(b) = 1
  <2>1. Len(b) \in Nat
    BY LenProperties
  <2>2. \A n \in Nat : n < HeadLen => n = 0 \/ n = 1
    BY DEF HeadLen
  <2> QED BY <2>1, <2>2, Zenon
<1> QED BY <1>4, <1>5, <1>6

\* The drift stays what two timers that keep step have.
LEMMA TickDrift ==
    ASSUME TypeOK, NEW e \in Ends, Tick(e)
    PROVE  drift' \in Int /\ (net = "prompt" => drift' \in -MaxDrift .. MaxDrift)
<1>1. drift \in Int /\ drift' = Ahead(e)
  BY DEF TypeOK, Tick
<1>2. Ahead(e) \in Int
  BY <1>1 DEF Ahead
<1>3. net = "prompt" => Ahead(e) \in -MaxDrift .. MaxDrift
  BY DEF Tick, TickAllowed
<1> QED BY <1>1, <1>2, <1>3

\* What a tick that only counts does to an end's ticks since it last read
LEMMA TicksOne ==
    ASSUME NEW h \in [time : 0 .. TicksPerCheck - 1, count : Int],
           NEW g \in [time : 0 .. TicksPerCheck - 1, count : Int],
           \/ g.time = h.time + 1 /\ g.count = h.count
           \/ h.time = TicksPerCheck - 1 /\ g.time = 0 /\ g.count = h.count + 1 /\ g.count <= 0
    PROVE  /\ h.count \in -1 .. 0 => ClientTicks(g) = ClientTicks(h) + 1 /\ g.count \in -1 .. 0
           /\ h.count \in -2 .. 0 => ServerTicks(g) = ServerTicks(h) + 1 /\ g.count \in -2 .. 0
<1>1. /\ TicksPerCheck \in Nat \ {0} /\ h.time \in Nat /\ h.count \in Int
      /\ g.time \in Nat /\ g.count \in Int
  BY FramingAssumption
<1>2. h.count \in -1 .. 0 => ClientTicks(g) = ClientTicks(h) + 1 /\ g.count \in -1 .. 0
  BY <1>1 DEF ClientTicks
<1>3. h.count \in -2 .. 0 => ServerTicks(g) = ServerTicks(h) + 1 /\ g.count \in -2 .. 0
  BY <1>1 DEF ServerTicks
<1> QED BY <1>2, <1>3

\* An end's heart, set anew
LEMMA HeartIs ==
    ASSUME TypeOK, NEW e \in Ends, NEW h \in [time : 0 .. TicksPerCheck - 1, count : Int],
           heart' = [heart EXCEPT ![e] = h]
    PROVE  /\ heart' \in [Ends -> [time : 0 .. TicksPerCheck - 1, count : Int]]
           /\ heart'[e] = h /\ heart'[Peer(e)] = heart[Peer(e)]
<1>1. heart \in [Ends -> [time : 0 .. TicksPerCheck - 1, count : Int]]
  BY DEF TypeOK
<1>2. Peer(e) \in Ends /\ Peer(e) # e
  BY PeerFacts
<1> QED BY <1>1, <1>2

\* The heart of the end whose tick it is, when it only counts ...
LEMMA CountHeart ==
    ASSUME TypeOK, NEW e \in Ends, NoCheck(e) \/ Counted(e)
    PROVE  /\ UNCHANGED <<wire, online, why, buf, split>>
           /\ heart' \in [Ends -> [time : 0 .. TicksPerCheck - 1, count : Int]]
           /\ heart'[Peer(e)] = heart[Peer(e)]
           /\ heart'[e].count <= 0 \/ heart'[e].count = heart[e].count
           /\ net = "prompt" =>
                 \/ heart'[e].time = heart[e].time + 1 /\ heart'[e].count = heart[e].count
                 \/ /\ heart[e].time = TicksPerCheck - 1 /\ heart'[e].time = 0
                    /\ heart'[e].count = heart[e].count + 1 /\ heart'[e].count <= 0
<1> DEFINE H == [time : 0 .. TicksPerCheck - 1, count : Int]
           h == heart[e]
<1>1. h \in H /\ TicksPerCheck \in Nat \ {0}
  BY FramingAssumption DEF TypeOK
<1>2. UNCHANGED <<wire, online, why, buf, split>>
  BY DEF NoCheck, Counted
<1>3. CASE NoCheck(e)
  <2> DEFINE g == [h EXCEPT !.time = @ + 1]
  <2>1. ~(h.time + 1 >= TicksPerCheck) /\ heart' = [heart EXCEPT ![e].time = @ + 1]
    BY <1>3 DEF NoCheck, CheckDue
  <2>2. g \in H /\ g.time = h.time + 1 /\ g.count = h.count
    <3>1. h.time + 1 \in 0 .. TicksPerCheck - 1 /\ h.count \in Int
      BY <1>1, <2>1
    <3> QED BY <1>1, <3>1
  <2>3. heart' = [heart EXCEPT ![e] = g]
    BY <2>1
  <2> HIDE DEF g
  <2>4. heart' \in [Ends -> H] /\ heart'[e] = g /\ heart'[Peer(e)] = heart[Peer(e)]
    BY <2>2, <2>3, HeartIs
  <2> QED BY <1>2, <2>2, <2>4 DEF h
<1>4. CASE Counted(e)
  <2> DEFINE g == [time |-> 0, count |-> h.count + 1]
  <2>1. CheckDue(e) /\ h.count + 1 <= 0 /\ heart' = [heart EXCEPT ![e] = g]
    BY <1>4 DEF Counted, TypeOK
  <2>2. g \in H /\ g.time = 0 /\ g.count = h.count + 1
    BY <1>1
  <2> HIDE DEF g
  <2>3. heart' \in [Ends -> H] /\ heart'[e] = g /\ heart'[Peer(e)] = heart[Peer(e)]
    BY <2>1, <2>2, HeartIs
  <2>4. net = "prompt" => h.time = TicksPerCheck - 1
    BY <1>1, <2>1 DEF CheckDue
  <2>5. g.count <= 0
    BY <2>1, <2>2
  <2> QED BY <1>2, <2>2, <2>3, <2>4, <2>5 DEF h
<1> QED BY <1>3, <1>4

\* ... and when it sends a probe
LEMMA ProbeHeart ==
    ASSUME TypeOK, NEW e \in Ends, Probe(e)
    PROVE  /\ UNCHANGED <<online, why, buf>>
           /\ heart' \in [Ends -> [time : 0 .. TicksPerCheck - 1, count : Int]]
           /\ heart'[Peer(e)] = heart[Peer(e)]
           /\ heart'[e].count = heart[e].count + 1 /\ heart'[e].count >= 1
           /\ net = "prompt" => heart[e].time = TicksPerCheck - 1
<1> DEFINE H == [time : 0 .. TicksPerCheck - 1, count : Int]
           h == heart[e]
           g == [time |-> 0, count |-> h.count + 1]
<1>1. h \in H /\ TicksPerCheck \in Nat \ {0}
  BY FramingAssumption DEF TypeOK
<1>2. /\ UNCHANGED <<online, why, buf>>
      /\ CheckDue(e) /\ h.count + 1 \in 1 .. MaxCount /\ heart' = [heart EXCEPT ![e] = g]
  BY DEF Probe, TypeOK
<1>3. g \in H /\ g.count = h.count + 1
  BY <1>1
<1> HIDE DEF g
<1>4. heart' \in [Ends -> H] /\ heart'[e] = g /\ heart'[Peer(e)] = heart[Peer(e)]
  BY <1>2, <1>3, HeartIs
<1>5. net = "prompt" => h.time = TicksPerCheck - 1
  BY <1>1, <1>2 DEF CheckDue
<1>6. g.count >= 1
  BY <1>2, <1>3, FramingAssumption
<1> QED BY <1>2, <1>3, <1>4, <1>5, <1>6 DEF h

\* Without messages the timers keep step, so that it is the client that probes.
LEMMA QuietTick ==
    ASSUME FramingInv, NEW e \in Ends, Tick(e)
    PROVE  QuietInv'
<1>1. TypeOK /\ QuietInv
  BY DEF FramingInv
<1>2. /\ drift' = Ahead(e) /\ TickAllowed(e, Ahead(e)) /\ sent' = sent /\ net' = net
      /\ NoCheck(e) \/ Counted(e) \/ Probe(e) \/ GiveUp(e)
  BY DEF Tick
<1> SUFFICES ASSUME net = "prompt", \A g \in Ends : sent[g] = <<>>
             PROVE  /\ heart'["server"].count \in -2 .. 0 /\ heart'["client"].count \in -1 .. 1
                    /\ drift' \in -MaxDrift .. MaxDrift
                    /\ IdleInv' \/ ProbedInv' \/ AnsweredInv'
  BY <1>2 DEF QuietInv
<1>3. \A g \in Ends : pushing[g] = <<>> /\ que[g] = <<>> /\ online[g] /\ wire[g] = <<>>
  BY <1>2 DEF TickAllowed
<1>4. /\ drift' \in -MaxDrift .. MaxDrift
      /\ e = "client" => drift' = drift + 1
      /\ e = "server" => drift' = drift - 1
  BY <1>1, <1>2, TickDrift DEF Ahead
<1>5. /\ "client" \in Ends /\ "server" \in Ends /\ e \in {"client", "server"}
      /\ Peer("client") = "server" /\ Peer("server") = "client"
  <2>1. "client" \in Ends /\ "server" \in Ends /\ e \in {"client", "server"}
    BY DEF Ends
  <2> QED BY <2>1, PeerFacts DEF Ends
<1>6. IdleInv /\ heart["server"].count \in -2 .. 0 /\ heart["client"].count \in -1 .. 0
  <2>1. wire["client"] = <<>> /\ wire["server"] = <<>>
    BY <1>3, <1>5
  <2>2. IdleInv
    BY <1>1, <1>3, <2>1 DEF QuietInv, ProbedInv, AnsweredInv
  <2> QED BY <1>1, <2>2 DEF QuietInv, IdleInv
<1> DEFINE T == TicksPerCheck
           s == heart["server"]
           c == heart["client"]
<1>7. /\ buf["client"] = <<>> /\ buf["server"] = <<>>
      /\ wire["client"] = <<>> /\ wire["server"] = <<>>
      /\ ServerTicks(s) - ClientTicks(c) + drift \in -MaxDrift .. MaxDrift
  BY <1>6 DEF IdleInv
<1>8. /\ T \in Nat \ {0} /\ MaxDrift \in Nat /\ 2 * MaxDrift <= T /\ drift \in Int /\ MaxCount \in Nat \ {0}
      /\ s \in [time : 0 .. T - 1, count : Int] /\ c \in [time : 0 .. T - 1, count : Int]
      /\ wire \in [Ends -> Seq(Cell)]
  BY <1>1, <1>5, FramingAssumption DEF TypeOK
<1>9. ClientTicks(c) \in Nat /\ ClientTicks(c) <= T + T - 1 /\ ServerTicks(s) \in Nat
  <2>1. /\ T \in Nat /\ c.time \in Nat /\ c.time <= T - 1 /\ s.time \in Nat
    BY <1>8
  <2>2. ClientTicks(c) \in Nat /\ ClientTicks(c) <= T + T - 1
    BY <2>1 DEF ClientTicks
  <2>3. ServerTicks(s) \in Nat
    BY <2>1 DEF ServerTicks
  <2> QED BY <2>2, <2>3
<1>10. CASE NoCheck(e) \/ Counted(e)
  <2>1. /\ UNCHANGED <<wire, online, why, buf, split>>
        /\ heart' \in [Ends -> [time : 0 .. T - 1, count : Int]]
        /\ heart'[Peer(e)] = heart[Peer(e)]
        /\ \/ heart'[e].time = heart[e].time + 1 /\ heart'[e].count = heart[e].count
           \/ /\ heart[e].time = T - 1 /\ heart'[e].time = 0
              /\ heart'[e].count = heart[e].count + 1 /\ heart'[e].count <= 0
    BY <1>1, <1>10, CountHeart
  <2>2. CASE e = "client"
    <3>1. heart'["server"] = s
      BY <1>5, <2>1, <2>2
    <3>2. ClientTicks(heart'["client"]) = ClientTicks(c) + 1 /\ heart'["client"].count \in -1 .. 0
      BY <1>6, <1>8, <2>1, <2>2, TicksOne
    <3>3. ServerTicks(s) - ClientTicks(heart'["client"]) + drift' \in -MaxDrift .. MaxDrift
      <4>1. /\ ServerTicks(s) \in Int /\ ClientTicks(c) \in Int /\ drift \in Int
            /\ ClientTicks(heart'["client"]) = ClientTicks(c) + 1 /\ drift' = drift + 1
        BY <1>4, <1>8, <1>9, <2>2, <3>2
      <4>2. ServerTicks(s) - ClientTicks(heart'["client"]) + drift' = ServerTicks(s) - ClientTicks(c) + drift
        BY <4>1
      <4> QED BY <1>7, <4>2
    <3>4. IdleInv'
      BY <1>7, <2>1, <3>1, <3>2, <3>3 DEF IdleInv
    <3> QED BY <1>4, <1>6, <3>1, <3>2, <3>4
  <2>3. CASE e = "server"
    <3>1. heart'["client"] = c
      BY <1>5, <2>1, <2>3
    <3>2. ServerTicks(heart'["server"]) = ServerTicks(s) + 1 /\ heart'["server"].count \in -2 .. 0
      BY <1>6, <1>8, <2>1, <2>3, TicksOne
    <3>3. ServerTicks(heart'["server"]) - ClientTicks(c) + drift' \in -MaxDrift .. MaxDrift
      <4>1. /\ ServerTicks(s) \in Int /\ ClientTicks(c) \in Int /\ drift \in Int
            /\ ServerTicks(heart'["server"]) = ServerTicks(s) + 1 /\ drift' = drift - 1
        BY <1>4, <1>8, <1>9, <2>3, <3>2
      <4>2. ServerTicks(heart'["server"]) - ClientTicks(c) + drift' = ServerTicks(s) - ClientTicks(c) + drift
        BY <4>1
      <4> QED BY <1>7, <4>2
    <3>4. IdleInv'
      BY <1>6, <1>7, <2>1, <3>1, <3>2, <3>3 DEF IdleInv
    <3> QED BY <1>4, <1>6, <3>1, <3>2, <3>4
  <2> QED BY <1>5, <2>2, <2>3
<1>11. CASE Probe(e)
  <2>1. /\ UNCHANGED <<online, why, buf>>
        /\ heart'[Peer(e)] = heart[Peer(e)]
        /\ heart'[e].count = heart[e].count + 1 /\ heart'[e].count >= 1
        /\ heart[e].time = T - 1
    BY <1>1, <1>11, ProbeHeart
  <2>2. CASE e = "client"
    <3>1. heart'["server"] = s /\ heart'["client"].count = 1
      BY <1>5, <1>6, <2>1, <2>2
    <3>2. wire' = [wire EXCEPT !["client"] = @ \o Cells(Heartbeat("probe"))]
      BY <1>11, <2>2 DEF Probe, Write
    <3> DEFINE a == Cells(Heartbeat("probe"))
    <3>3. a \in Seq(Cell) /\ a # <<>>
      BY PacketsAre, CellsOf, CellsSome
    <3> HIDE DEF a
    <3>4. wire'["client"] = a /\ wire'["server"] = <<>>
      <4>1. wire'["client"] = <<>> \o a /\ wire'["server"] = <<>>
        BY <1>5, <1>7, <1>8, <3>2 DEF a
      <4>2. <<>> \o a = a
        BY <3>3, ConcatEmptySeq
      <4> QED BY <4>1, <4>2
    <3>5. Stream("server")' = a
      <4>1. Stream("server")' = <<>> \o a
        BY <1>5, <1>7, <2>1, <3>4 DEF Stream
      <4>2. <<>> \o a = a
        BY <3>3, ConcatEmptySeq
      <4> QED BY <4>1, <4>2
    <3>6. ProbedInv'
      BY <1>7, <2>1, <3>1, <3>3, <3>4, <3>5 DEF ProbedInv, a
    <3> QED BY <1>4, <1>6, <3>1, <3>6
  <2>3. CASE e = "server"
    <3>1. s.count = 0 /\ s.time = T - 1
      BY <1>6, <1>8, <2>1, <2>3
    <3>2. ServerTicks(s) = T + T + T - 1
      BY <1>8, <3>1 DEF ServerTicks
    <3>3. drift >= 1 - MaxDrift
      BY <1>4, <1>8, <2>3
    <3>4. FALSE
      BY <1>7, <1>8, <1>9, <3>2, <3>3
    <3> QED BY <3>4
  <2> QED BY <1>5, <2>2, <2>3
<1>12. CASE GiveUp(e)
  <2>1. heart[e].count + 1 > MaxCount
    BY <1>12 DEF GiveUp
  <2>2. heart[e].count <= 0 /\ heart[e].count \in Int
    BY <1>5, <1>6
  <2> QED BY <1>8, <2>1, <2>2
<1> QED BY <1>2, <1>10, <1>11, <1>12

\* A heartbeat written into a message is noted.
LEMMA SplitIs ==
    ASSUME TypeOK, NEW e \in Ends, NotesSplit(e)
    PROVE  /\ split' \in [Ends -> SUBSET Nat] /\ split'[Peer(e)] = split[Peer(e)]
           /\ part[e] # 0 \/ split[e] # {} => split'[e] # {}
<1>1. /\ split \in [Ends -> SUBSET Nat] /\ part[e] \in Nat /\ Peer(e) \in Ends /\ Peer(e) # e
  BY PeerFacts DEF TypeOK
<1>2. CASE part[e] # 0
  <2>1. split' = [split EXCEPT ![e] = @ \cup {part[e]}]
    BY <1>2 DEF NotesSplit
  <2>2. split'[e] = split[e] \cup {part[e]} /\ split'[Peer(e)] = split[Peer(e)]
    BY <1>1, <2>1
  <2>3. split' \in [Ends -> SUBSET Nat]
    BY <1>1, <2>1
  <2> QED BY <2>2, <2>3
<1>3. CASE part[e] = 0
  <2>1. split' = split
    BY <1>3 DEF NotesSplit
  <2> QED BY <1>1, <1>3, <2>1
<1> QED BY <1>2, <1>3

\* A tick that only counts
LEMMA CountKeeps ==
    ASSUME FramingInv, NEW e \in Ends, Tick(e), NoCheck(e) \/ Counted(e)
    PROVE  FramingInv'
<1> DEFINE f == Peer(e)
<1>1. f \in Ends /\ f # e /\ Peer(f) = e
  BY PeerFacts
<1>2. /\ TypeOK
      /\ QueInv(e) /\ FlowInv(e) /\ FrameInv(e) /\ ProbeInv(e)
      /\ QueInv(f) /\ FlowInv(f) /\ FrameInv(f) /\ ProbeInv(f)
  BY InvParts
<1>3. UNCHANGED <<sent, pushing, que, got, net, part>> /\ drift' \in Int
  BY <1>2, TickDrift DEF Tick
<1>4. /\ UNCHANGED <<wire, online, why, buf, split>>
      /\ heart' \in [Ends -> [time : 0 .. TicksPerCheck - 1, count : Int]]
      /\ heart'[f] = heart[f] /\ (heart'[e].count <= 0 \/ heart'[e].count = heart[e].count)
  BY <1>2, CountHeart
<1> HIDE DEF f
<1>5. TypeOK'
  BY <1>2, <1>3, <1>4 DEF TypeOK
<1>6. QuietInv'
  BY QuietTick
<1>7. QueInv(e)' /\ QueInv(f)'
  BY <1>2, <1>3 DEF QueInv
<1>8. FlowInv(e)' /\ FrameInv(e)' /\ FlowInv(f)' /\ FrameInv(f)'
  BY <1>1, <1>2, <1>3, <1>4, FlowSame, FrameSame DEF f
<1>9. Stream(e)' = Stream(e) /\ Stream(f)' = Stream(f)
  BY <1>3, <1>4 DEF Stream
<1>10. ProbeInv(f)'
  BY <1>1, <1>2, <1>3, <1>4, <1>9, ProbeSame
<1>11. ProbeInv(e)'
  <2>1. heart'[e].count >= 1 => heart[e].count >= 1
    <3>1. heart'[e].count \in Int
      BY <1>4
    <3> QED BY <1>4, <3>1
  <2> QED BY <1>1, <1>2, <1>3, <1>4, <1>9, <2>1, ProbeSame DEF f
<1> QED BY <1>5, <1>6, <1>7, <1>8, <1>10, <1>11, InvFromParts DEF f

\* Too many were not answered.
LEMMA GiveUpKeeps ==
    ASSUME FramingInv, NEW e \in Ends, Tick(e), GiveUp(e)
    PROVE  FramingInv'
<1> DEFINE f == Peer(e)
<1>1. f \in Ends /\ f # e /\ Peer(f) = e
  BY PeerFacts
<1>2. /\ TypeOK
      /\ QueInv(e) /\ FlowInv(e) /\ FrameInv(e) /\ ProbeInv(e)
      /\ QueInv(f) /\ FlowInv(f) /\ FrameInv(f) /\ ProbeInv(f)
  BY InvParts
<1>3. UNCHANGED <<sent, pushing, que, got, net, part, wire, split>> /\ drift' \in Int
  BY <1>2, TickDrift DEF Tick, GiveUp
<1>4. /\ online' \in [Ends -> BOOLEAN] /\ ~online'[e] /\ online'[f] = online[f]
      /\ why' \in [Ends -> {"none", "data", "zero", "closed", "heart"}]
      /\ why'[e] = "heart" /\ why'[f] = why[f]
      /\ buf' \in [Ends -> Seq(Cell)] /\ buf'[f] = buf[f]
      /\ heart' \in [Ends -> [time : 0 .. TicksPerCheck - 1, count : Int]]
  BY <1>2, OfflineIs DEF GiveUp
<1>5. net # "prompt"
  <2> SUFFICES ASSUME net = "prompt" PROVE FALSE
    OBVIOUS
  <2>1. \A g \in Ends : /\ pushing[g] = <<>> /\ que[g] = <<>>
                        /\ online[g] /\ wire[g] = <<>>
    BY DEF Tick, TickAllowed
  <2>2. heart[e].count < 1
    BY <1>1, <2>1, TickStill
  <2>3. heart[e].count + 1 > MaxCount
    BY DEF GiveUp
  <2>4. heart[e].count \in Int /\ MaxCount \in Nat \ {0}
    BY <1>2, TypesOf, FramingAssumption
  <2> QED BY <2>2, <2>3, <2>4
<1> HIDE DEF f
<1>6. TypeOK'
  BY <1>2, <1>3, <1>4 DEF TypeOK
<1>7. QuietInv' /\ ProbeInv(e)' /\ ProbeInv(f)'
  BY <1>3, <1>5 DEF QuietInv, ProbeInv
<1>8. QueInv(e)' /\ QueInv(f)'
  BY <1>2, <1>3 DEF QueInv
<1>9. FlowInv(e)' /\ FrameInv(e)'
  BY <1>1, <1>2, <1>3, <1>4, FlowSame, FrameSame DEF f
<1>10. FlowInv(f)' /\ FrameInv(f)'
  BY <1>1, <1>2, <1>3, <1>4, FlowSame, FrameSame
<1> QED BY <1>6, <1>7, <1>8, <1>9, <1>10, InvFromParts DEF f

\* A probe is sent.
LEMMA ProbeKeeps ==
    ASSUME FramingInv, NEW e \in Ends, Tick(e), Probe(e)
    PROVE  FramingInv'
<1> DEFINE f == Peer(e)
           a == Cells(Heartbeat("probe"))
<1>1. f \in Ends /\ f # e /\ Peer(f) = e
  BY PeerFacts
<1>2. /\ TypeOK
      /\ QueInv(e) /\ FlowInv(e) /\ FrameInv(e) /\ ProbeInv(e)
      /\ QueInv(f) /\ FlowInv(f) /\ FrameInv(f) /\ ProbeInv(f)
  BY InvParts
<1>3. UNCHANGED <<sent, pushing, que, got, net, part>> /\ drift' \in Int /\ online[e]
  BY <1>2, TickDrift DEF Tick
<1>4. /\ UNCHANGED <<online, why, buf>>
      /\ heart' \in [Ends -> [time : 0 .. TicksPerCheck - 1, count : Int]]
      /\ heart'[f] = heart[f]
  BY <1>2, ProbeHeart
<1>5. /\ split' \in [Ends -> SUBSET Nat] /\ split'[f] = split[f]
      /\ part[e] # 0 \/ split[e] # {} => split'[e] # {}
  BY <1>2, SplitIs DEF Probe
<1>6. /\ a \in Seq(Cell) /\ a # <<>> /\ Hearts(a)
  <2>1. a \in Seq(Cell) /\ a # <<>>
    BY PacketsAre, CellsOf, CellsSome
  <2>2. Hearts(<<>> \o a) /\ <<>> \in Seq(Cell)
    BY HeartsGrow, EmptySeq
  <2>3. <<>> \o a = a
    BY <2>1, ConcatEmptySeq
  <2> HIDE DEF a
  <2> QED BY <2>1, <2>2, <2>3
<1>7. /\ net # "dead" => wire' = [wire EXCEPT ![e] = @ \o a]
      /\ net = "dead" => wire' = wire
  BY DEF Probe, Write
<1>8. wire \in [Ends -> Seq(Cell)] /\ wire[e] \in Seq(Cell)
  BY <1>2 DEF TypeOK
<1> DEFINE w == wire[e] \o a
<1> HIDE DEF f, a
<1>9. w \in Seq(Cell) /\ w # <<>>
  BY <1>6, <1>8, JoinIndex, JoinSome
<1> HIDE DEF w
<1>10. /\ wire' \in [Ends -> Seq(Cell)] /\ wire'[f] = wire[f]
       /\ net # "dead" => wire'[e] = w
  <2>1. net # "dead" => wire' = [wire EXCEPT ![e] = w]
    BY <1>7 DEF w
  <2> QED BY <1>1, <1>7, <1>8, <1>9, <2>1
<1>11. TypeOK'
  BY <1>2, <1>3, <1>4, <1>5, <1>10 DEF TypeOK
<1>12. QuietInv'
  BY QuietTick
<1>13. QueInv(e)' /\ QueInv(f)'
  BY <1>2, <1>3 DEF QueInv
<1>14. FlowInv(e)' /\ FrameInv(e)'
  BY <1>1, <1>2, <1>3, <1>4, <1>5, <1>10, FlowSame, FrameSame DEF f
<1>15. CASE net = "dead"
  <2>1. FlowInv(f)' /\ FrameInv(f)'
    BY <1>1, <1>2, <1>3, <1>4, <1>5, <1>7, <1>15, FlowSame, FrameSame
  <2>2. ProbeInv(e)' /\ ProbeInv(f)'
    BY <1>3, <1>15 DEF ProbeInv
  <2> QED BY <1>11, <1>12, <1>13, <1>14, <2>1, <2>2, InvFromParts DEF f
<1>16. CASE net # "dead"
  <2>1. Writes(e, a)
    BY <1>3, <1>4, <1>6, <1>10, <1>16 DEF Writes, w
  <2>2. FlowInv(f)'
    BY <1>2, <1>6, <2>1, FlowWritten DEF f
  <2>3. FrameInv(f)'
    BY <1>2, <1>5, <1>6, <2>1, FrameWritten DEF f
  <2>4. ProbeInv(f)'
    <3>1. wire'[e] # <<>>
      BY <1>9, <1>10, <1>16
    <3>2. net' = net /\ why' = why /\ (net = "prompt" => why[f] # "heart")
      BY <1>2, <1>3, <1>4 DEF ProbeInv
    <3> QED BY <1>1, <3>1, <3>2 DEF ProbeInv
  <2>5. ProbeInv(e)'
    <3>1. net' = net /\ why' = why /\ (net = "prompt" => why[e] # "heart")
      BY <1>2, <1>3, <1>4 DEF ProbeInv
    <3>2. ASSUME net = "prompt" PROVE Owing(Stream(f)')
      <4>1. \A g \in Ends : /\ pushing[g] = <<>> /\ que[g] = <<>>
                            /\ online[g] /\ wire[g] = <<>>
        BY <3>2 DEF Tick, TickAllowed
      <4>2. Stream(f) = buf[f] /\ Len(buf[f]) < HeadLen /\ Backed(buf[f])
        BY <1>1, <3>2, <4>1, TickStill
      <4>3. buf[f] \in Seq(Cell)
        BY <1>1, <1>2, TypesOf
      <4>4. Stream(f)' = Stream(f) \o a
        BY <1>2, <1>6, <2>1, WrittenStream DEF f
      <4>5. Owing(buf[f] \o a)
        BY <4>2, <4>3, OwingProbe DEF a
      <4> QED BY <4>2, <4>4, <4>5
    <3> QED BY <3>1, <3>2 DEF ProbeInv, f
  <2> QED BY <1>11, <1>12, <1>13, <1>14, <2>2, <2>3, <2>4, <2>5, InvFromParts DEF f
<1> QED BY <1>15, <1>16

\* TCPSession::update
LEMMA TickKeeps ==
    ASSUME FramingInv, NEW e \in Ends, Tick(e)
    PROVE  FramingInv'
BY CountKeeps, GiveUpKeeps, ProbeKeeps DEF Tick

-----------------------------------------------------------------------------
(* A read                                                                  *)

\* The numbers of the messages, counted
LEMMA CountingIs ==
    ASSUME NEW q \in Seq(Nat)
    PROVE  Counting(q) <=> q = [n \in 1 .. Len(q) |-> n]
<1>1. Len(q) \in Nat /\ DOMAIN q = 1 .. Len(q) /\ q = [n \in 1 .. Len(q) |-> q[n]]
  BY LenProperties
<1>2. ASSUME Counting(q) PROVE q = [n \in 1 .. Len(q) |-> n]
  BY <1>1, <1>2 DEF Counting
<1>3. ASSUME q = [n \in 1 .. Len(q) |-> n] PROVE Counting(q)
  <2> DEFINE l == Len(q)
  <2>1. q = [n \in 1 .. l |-> n]
    BY <1>3
  <2> HIDE DEF l
  <2>2. \A i \in 1 .. l : q[i] = i
    BY <2>1
  <2> QED BY <2>2 DEF Counting, l
<1> QED BY <1>2, <1>3

\* What a read of the cells data does, ow being what stays on the wire and r
\* what the loop makes of it
ReadOf(e, data, ow, r) ==
    /\ online[e] /\ net # "dead"
    /\ UNCHANGED <<sent, pushing, que, net, drift, part>>
    /\ wire[Peer(e)] = data \o ow /\ data # <<>>
    /\ r = RecvLoop(buf[e] \o data, data)
    /\ got'[e] = got[e] \o r.got /\ got'[Peer(e)] = got[Peer(e)]
    /\ wire'[Peer(e)] = ow /\ wire'[e] = wire[e] \o r.written
    /\ split'[Peer(e)] = split[Peer(e)]
    /\ IF r.written = <<>> THEN split'[e] = split[e]
       ELSE part[e] # 0 \/ split[e] # {} => split'[e] # {}
    /\ online'[Peer(e)] = online[Peer(e)] /\ why'[Peer(e)] = why[Peer(e)]
    /\ buf'[Peer(e)] = buf[Peer(e)]
    /\ heart'[Peer(e)] = heart[Peer(e)] /\ heart'[e] = Fresh(e)
    /\ \/ r.bad /\ ~online'[e] /\ why'[e] = "data"
       \/ ~r.bad /\ ~online'[e] /\ why'[e] = "zero"
       \/ ~r.bad /\ online'[e] /\ why'[e] = why[e] /\ buf'[e] = r.buf

\* A read takes some cells off the wire and does what ReadOf says with them.
LEMMA ReadIs ==
    ASSUME FramingInv, NEW e \in Ends, Read(e)
    PROVE  /\ TypeOK'
           /\ \E data, ow \in Seq(Cell) : \E r \in LoopStates : ReadOf(e, data, ow, r)
<1> DEFINE f == Peer(e)
           c == buf[e]
           w == wire[f]
<1>1. f \in Ends /\ f # e /\ Peer(f) = e
  BY PeerFacts
<1>2. TypeOK /\ FlowInv(e)
  BY InvParts
<1>3. /\ c \in Seq(Cell) /\ w \in Seq(Cell) /\ wire[e] \in Seq(Cell) /\ got[e] \in Seq(Nat)
      /\ wire \in [Ends -> Seq(Cell)] /\ got \in [Ends -> Seq(Nat)] /\ Len(w) \in Nat
      /\ buf \in [Ends -> Seq(Cell)] /\ heart \in [Ends -> [time : 0 .. TicksPerCheck - 1, count : Int]]
      /\ split \in [Ends -> SUBSET Nat]
  BY <1>1, <1>2, TypesOf, LenProperties DEF TypeOK
<1>4. online[e] /\ net # "dead" /\ UNCHANGED <<sent, pushing, que, net, drift, part>>
  BY DEF Read
<1>5. Waiting(c)
  BY <1>2, <1>4 DEF FlowInv
<1>6. PICK n \in 1 .. ReadMax :
        /\ n <= Len(w)
        /\ LET data == SubSeq(w, 1, n)
               s == RecvLoop(c \o data, data)
           IN  /\ got' = [got EXCEPT ![e] = @ \o s.got]
               /\ wire' = [wire EXCEPT ![f] = SubSeq(@, n + 1, Len(@)), ![e] = @ \o s.written]
               /\ IF s.written = <<>> THEN UNCHANGED split ELSE NotesSplit(e)
               /\ IF s.bad THEN GoOffline(e, "data")
                  ELSE IF EndsInZeroRead(e, n) THEN GoOffline(e, "zero")
                  ELSE /\ buf' = [buf EXCEPT ![e] = s.buf]
                       /\ heart' = [heart EXCEPT ![e] = Fresh(e)]
                       /\ UNCHANGED <<online, why>>
  BY DEF Read
<1> DEFINE data == SubSeq(w, 1, n)
           ow == SubSeq(w, n + 1, Len(w))
           r == RecvLoop(c \o data, data)
           wr == wire[e] \o r.written
           gt == got[e] \o r.got
<1>7. /\ data \in Seq(Cell) /\ ow \in Seq(Cell) /\ w = data \o ow /\ data # <<>>
  <2>1. n \in Nat /\ n >= 1 /\ n \in 0 .. Len(w)
    BY <1>3, <1>6, FramingAssumption
  <2>2. data \in Seq(Cell) /\ ow \in Seq(Cell) /\ data \o ow = w /\ Len(data) = n
    BY <1>3, <2>1, CutAt
  <2> HIDE DEF data, ow, w
  <2>3. data # <<>>
    BY <2>1, <2>2, EmptySeq
  <2> QED BY <2>2, <2>3
<1>8. /\ got' = [got EXCEPT ![e] = gt]
      /\ wire' = [wire EXCEPT ![f] = ow, ![e] = wr]
      /\ IF r.written = <<>> THEN UNCHANGED split ELSE NotesSplit(e)
      /\ IF r.bad THEN GoOffline(e, "data")
         ELSE IF EndsInZeroRead(e, n) THEN GoOffline(e, "zero")
         ELSE /\ buf' = [buf EXCEPT ![e] = r.buf]
              /\ heart' = [heart EXCEPT ![e] = Fresh(e)]
              /\ UNCHANGED <<online, why>>
  BY <1>1, <1>3, <1>6
<1> HIDE DEF f, c, w, data, ow
<1>9. r \in LoopStates
  BY <1>3, <1>5, <1>7, LoopHearts
<1>10. r.buf \in Seq(Cell) /\ r.got \in Seq(Nat) /\ r.written \in Seq(Cell) /\ r.bad \in BOOLEAN
  BY <1>9 DEF LoopStates
<1> HIDE DEF r
<1>11. wr \in Seq(Cell) /\ gt \in Seq(Nat)
  BY <1>3, <1>10, ConcatProperties
<1> HIDE DEF wr, gt
<1>12. got' \in [Ends -> Seq(Nat)] /\ got'[e] = gt /\ got'[f] = got[f]
  BY <1>1, <1>3, <1>8, <1>11
<1>13. wire' \in [Ends -> Seq(Cell)] /\ wire'[f] = ow /\ wire'[e] = wr
  BY <1>1, <1>3, <1>7, <1>8, <1>11
<1>14. /\ split' \in [Ends -> SUBSET Nat] /\ split'[f] = split[f]
       /\ IF r.written = <<>> THEN split'[e] = split[e]
          ELSE part[e] # 0 \/ split[e] # {} => split'[e] # {}
  BY <1>2, <1>3, <1>8, SplitIs DEF f
<1> DEFINE H == [time : 0 .. TicksPerCheck - 1, count : Int]
           W == {"none", "data", "zero", "closed", "heart"}
<1>15. /\ online' \in [Ends -> BOOLEAN] /\ why' \in [Ends -> W]
       /\ buf' \in [Ends -> Seq(Cell)] /\ heart' \in [Ends -> H]
       /\ online'[f] = online[f] /\ why'[f] = why[f] /\ buf'[f] = buf[f] /\ heart'[f] = heart[f]
       /\ heart'[e] = Fresh(e)
       /\ \/ r.bad /\ ~online'[e] /\ why'[e] = "data"
          \/ ~r.bad /\ ~online'[e] /\ why'[e] = "zero"
          \/ ~r.bad /\ online'[e] /\ why'[e] = why[e] /\ buf'[e] = r.buf
  <2>1. CASE r.bad
    <3>1. GoOffline(e, "data")
      BY <1>8, <2>1
    <3> QED BY <1>2, <2>1, <3>1, OfflineIs DEF f
  <2>2. CASE ~r.bad /\ EndsInZeroRead(e, n)
    <3>1. GoOffline(e, "zero")
      BY <1>8, <2>2
    <3> QED BY <1>2, <2>2, <3>1, OfflineIs DEF f
  <2>3. CASE ~r.bad /\ ~EndsInZeroRead(e, n)
    <3>1. /\ buf' = [buf EXCEPT ![e] = r.buf] /\ UNCHANGED <<online, why>>
          /\ heart' = [heart EXCEPT ![e] = Fresh(e)]
      BY <1>8, <2>3
    <3>2. heart' \in [Ends -> H] /\ heart'[e] = Fresh(e) /\ heart'[f] = heart[f]
      BY <1>2, <3>1, HeartIs, FreshIs DEF f
    <3>3. buf' \in [Ends -> Seq(Cell)] /\ buf'[e] = r.buf /\ buf'[f] = buf[f]
      BY <1>1, <1>3, <1>10, <3>1
    <3> QED BY <1>2, <1>4, <2>3, <3>1, <3>2, <3>3 DEF TypeOK
  <2> QED BY <2>1, <2>2, <2>3
<1>16. TypeOK'
  BY <1>2, <1>4, <1>12, <1>13, <1>14, <1>15 DEF TypeOK
<1>17. ReadOf(e, data, ow, r)
  BY <1>4, <1>7, <1>12, <1>13, <1>14, <1>15 DEF ReadOf, f, r, wr, gt, w, c
<1> QED BY <1>7, <1>9, <1>16, <1>17

\* What is still to come to an end, in its order: the other's queue and the
\* rest of the other's call.
Coming(e) == que[Peer(e)] \o pushing[Peer(e)]

\* The streams to the end that read before and after it
ReadStreams(e, data, ow, r) ==
    /\ ow \o Coming(e) \in Seq(Cell) /\ buf[e] \in Seq(Cell)
    /\ Stream(e) = (buf[e] \o data) \o ow
    /\ AllOf(e) = (buf[e] \o data) \o (ow \o Coming(e))
    /\ online'[e] => /\ Stream(e)' = r.buf \o ow
                     /\ AllOf(e)' = r.buf \o (ow \o Coming(e))

\* The streams to the end that read: data is parsed, ow is still to be read.
LEMMA ReadStream ==
    ASSUME TypeOK, NEW e \in Ends, NEW data \in Seq(Cell), NEW ow \in Seq(Cell),
           NEW r \in LoopStates, ReadOf(e, data, ow, r)
    PROVE  ReadStreams(e, data, ow, r)
<1> DEFINE f == Peer(e)
           q == que[f]
           p == pushing[f]
           c == buf[e]
           b == r.buf
<1>1. f \in Ends
  BY PeerFacts
<1>2. q \in Seq(Cell) /\ p \in Seq(Cell) /\ c \in Seq(Cell) /\ b \in Seq(Cell)
  BY <1>1, TypesOf DEF LoopStates
<1>3. q \o p \in Seq(Cell)
  BY <1>2, ConcatProperties
<1>4. ow \o (q \o p) \in Seq(Cell)
  BY <1>3, ConcatProperties
<1>5. /\ Stream(e) = c \o (data \o ow) /\ AllOf(e) = ((c \o (data \o ow)) \o q) \o p
      /\ online'[e] => Stream(e)' = b \o ow /\ AllOf(e)' = ((b \o ow) \o q) \o p
  <2>1. wire[f] = data \o ow /\ wire'[f] = ow /\ que'[f] = q /\ pushing'[f] = p
    BY DEF ReadOf
  <2>2. online'[e] => buf'[e] = b
    BY DEF ReadOf
  <2>3. Stream(e) = c \o (data \o ow)
    BY <2>1 DEF Stream
  <2>4. AllOf(e) = ((c \o (data \o ow)) \o q) \o p
    BY <2>3 DEF AllOf
  <2>5. online'[e] => Stream(e)' = b \o ow
    BY <2>1, <2>2 DEF Stream
  <2>6. online'[e] => AllOf(e)' = ((b \o ow) \o q) \o p
    BY <2>1, <2>5 DEF AllOf
  <2> QED BY <2>3, <2>4, <2>5, <2>6
<1>6. Coming(e) = q \o p
  BY DEF Coming
<1> HIDE DEF f, q, p, c, b
<1>7. /\ c \in Cellular /\ data \in Cellular /\ ow \in Cellular
      /\ q \in Cellular /\ p \in Cellular /\ b \in Cellular
  BY <1>2 DEF Cellular
<1>8. /\ Joined(c, Joined(data, ow)) = Joined(Joined(c, data), ow)
      /\ Joined(Joined(Joined(c, Joined(data, ow)), q), p)
            = Joined(Joined(c, data), Joined(ow, Joined(q, p)))
  BY <1>7, JoinedAlong
<1>9. Joined(Joined(Joined(b, ow), q), p) = Joined(b, Joined(ow, Joined(q, p)))
  BY <1>7, JoinedAlong
<1>10. /\ c \o (data \o ow) = (c \o data) \o ow
      /\ ((c \o (data \o ow)) \o q) \o p = (c \o data) \o (ow \o (q \o p))
      /\ ((b \o ow) \o q) \o p = b \o (ow \o (q \o p))
  BY <1>8, <1>9 DEF Joined
<1> QED BY <1>2, <1>4, <1>5, <1>6, <1>10 DEF c, b, ReadStreams

\* The messages handed on are the next ones, and the rest is in order.
LEMMA ReadFlow ==
    ASSUME TypeOK, NEW e \in Ends, NEW data \in Seq(Cell), NEW ow \in Seq(Cell),
           NEW r \in LoopStates, ReadOf(e, data, ow, r), FlowInv(e)
    PROVE  FlowInv(e)'
<1> DEFINE f == Peer(e)
           c == buf[e]
           Z == ow \o Coming(e)
           G == got[e]
           H == G \o r.got
           m == Len(sent[f])
           k == Len(H)
<1>1. f \in Ends
  BY PeerFacts
<1>2. /\ Z \in Seq(Cell) /\ c \in Seq(Cell)
      /\ Stream(e) = (c \o data) \o ow /\ AllOf(e) = (c \o data) \o Z
      /\ online'[e] => Stream(e)' = r.buf \o ow /\ AllOf(e)' = r.buf \o Z
  <2>1. ReadStreams(e, data, ow, r)
    BY ReadStream
  <2> QED BY <2>1 DEF ReadStreams
<1>3. G \in Seq(Nat) /\ m \in Nat
  BY <1>1, TypesOf
<1>4. /\ online[e] /\ net # "dead" /\ net' = net /\ online'[f] = online[f]
      /\ r = RecvLoop(c \o data, data) /\ got'[e] = H /\ sent'[f] = sent[f]
      /\ online'[e] => ~r.bad /\ buf'[e] = r.buf
  BY DEF ReadOf
<1>5. /\ G = [n \in 1 .. Len(G) |-> n] /\ Len(G) <= m
      /\ Waiting(c) /\ Ordered(Stream(e), Len(G), m)
      /\ online[f] => Ordered(AllOf(e), Len(G), m) /\ Complete(AllOf(e), Len(G), m) /\ Backed(AllOf(e))
  BY <1>4 DEF FlowInv
<1>6. Counting(G)
  BY <1>3, <1>5, CountingIs
<1> HIDE DEF f, c, Z, G, H, m
<1>7. /\ H \in Seq(Nat) /\ Counting(H) /\ k <= m
      /\ ~r.bad => Ordered(r.buf \o ow, k, m)
  <2>1. Ordered((c \o data) \o ow, Len(G), m)
    BY <1>2, <1>5
  <2> QED BY <1>2, <1>3, <1>4, <1>5, <1>6, <2>1, LoopFlow DEF H
<1>8. ASSUME online[f], ~r.bad
      PROVE  Ordered(r.buf \o Z, k, m) /\ Complete(r.buf \o Z, k, m) /\ Backed(r.buf \o Z)
  <2>1. /\ Ordered((c \o data) \o Z, Len(G), m) /\ Complete((c \o data) \o Z, Len(G), m)
        /\ Backed((c \o data) \o Z)
    BY <1>2, <1>5, <1>8
  <2>2. Ordered(r.buf \o Z, k, m) /\ Complete(r.buf \o Z, k, m)
    BY <1>2, <1>3, <1>4, <1>5, <1>6, <1>8, <2>1, LoopFlow DEF H
  <2>3. Backed(r.buf \o Z)
    BY <1>2, <1>4, <1>5, <1>8, <2>1, LoopBacked
  <2> QED BY <2>2, <2>3
<1>9. Waiting(r.buf)
  BY <1>2, <1>4, <1>5, LoopHearts
<1>10. H = [n \in 1 .. k |-> n]
  BY <1>7, CountingIs
<1> HIDE DEF k
<1>11. /\ got'[e] = [n \in 1 .. k |-> n] /\ k <= m
       /\ online'[e] /\ net' # "dead" => Waiting(buf[e])' /\ Ordered(Stream(e)', k, m)
       /\ online'[e] /\ net' # "dead" /\ online'[f] =>
             Ordered(AllOf(e)', k, m) /\ Complete(AllOf(e)', k, m) /\ Backed(AllOf(e))'
  BY <1>2, <1>4, <1>7, <1>8, <1>9, <1>10
<1>12. Len(got[e])' = k /\ Len(sent[Peer(e)])' = m
  BY <1>4 DEF k, m, f
<1> QED BY <1>11, <1>12 DEF FlowInv, f

\* What the end that read still holds is packet by packet.
LEMMA ReadFrame ==
    ASSUME TypeOK, NEW e \in Ends, NEW data \in Seq(Cell), NEW ow \in Seq(Cell),
           NEW r \in LoopStates, ReadOf(e, data, ow, r), FlowInv(e), FrameInv(e)
    PROVE  FrameInv(e)'
<1> DEFINE f == Peer(e)
           c == buf[e]
           Z == ow \o Coming(e)
<1>1. /\ Z \in Seq(Cell) /\ c \in Seq(Cell)
      /\ Stream(e) = (c \o data) \o ow /\ AllOf(e) = (c \o data) \o Z
      /\ online'[e] => Stream(e)' = r.buf \o ow /\ AllOf(e)' = r.buf \o Z
  <2>1. ReadStreams(e, data, ow, r)
    BY ReadStream
  <2> QED BY <2>1 DEF ReadStreams
<1>2. /\ online[e] /\ net # "dead" /\ net' = net /\ online'[f] = online[f]
      /\ split'[f] = split[f] /\ sent'[f] = sent[f] /\ part'[f] = part[f]
      /\ r = RecvLoop(c \o data, data)
      /\ ~r.bad => why'[e] \in {"zero", why[e]}
  BY DEF ReadOf
<1>3. Waiting(c)
  BY <1>2 DEF FlowInv
<1>4. TooLong(f) => TooLong(f)'
  BY <1>2 DEF TooLong
<1> HIDE DEF c, Z
<1>5. CASE split[f] # {} \/ TooLong(f)
  BY <1>2, <1>4, <1>5 DEF FrameInv
<1>6. CASE ~(split[f] # {} \/ TooLong(f))
  <2>1. /\ why[e] # "data" /\ Framed((c \o data) \o ow)
        /\ online[f] => /\ Framed((c \o data) \o Z)
                        /\ part[f] = 0 => Closed((c \o data) \o ow)
    BY <1>1, <1>2, <1>6 DEF FrameInv
  <2>2. ~r.bad /\ Framed(r.buf \o ow) /\ (Closed((c \o data) \o ow) => Closed(r.buf \o ow))
    BY <1>1, <1>2, <1>3, <2>1, LoopFramed
  <2>3. online[f] => Framed(r.buf \o Z)
    BY <1>1, <1>2, <1>3, <2>1, LoopFramed
  <2>4. why'[e] # "data"
    BY <1>2, <2>1, <2>2
  <2>5. online'[e] => Framed(Stream(e)')
    BY <1>1, <2>2
  <2>6. online'[e] /\ online'[f] => Framed(AllOf(e)') /\ (part'[f] = 0 => Closed(Stream(e)'))
    BY <1>1, <1>2, <2>1, <2>2, <2>3
  <2> QED BY <2>4, <2>5, <2>6 DEF FrameInv
<1> QED BY <1>5, <1>6

\* What an end hands to the other: nothing, or the answers to probes
LEMMA ReadWrites ==
    ASSUME TypeOK, NEW e \in Ends, NEW data \in Seq(Cell), NEW ow \in Seq(Cell),
           NEW r \in LoopStates, ReadOf(e, data, ow, r), FlowInv(e)
    PROVE  r.written \in Seq(Cell) /\ Writes(e, r.written)
<1> DEFINE f == Peer(e)
           c == buf[e]
<1>1. f \in Ends /\ f # e /\ Peer(f) = e
  BY PeerFacts
<1>2. c \in Seq(Cell)
  BY TypesOf
<1>3. /\ online[e] /\ net # "dead" /\ net' = net /\ r = RecvLoop(c \o data, data)
      /\ wire'[e] = wire[e] \o r.written
      /\ UNCHANGED <<sent, pushing, que, part>>
      /\ buf'[f] = buf[f] /\ got'[f] = got[f] /\ why'[f] = why[f] /\ online'[f] = online[f]
  BY DEF ReadOf
<1>4. Waiting(c)
  BY <1>3 DEF FlowInv
<1> HIDE DEF c
<1>5. Hearts(r.written)
  BY <1>2, <1>3, <1>4, LoopHearts
<1> QED BY <1>3, <1>5 DEF Writes, LoopStates

\* The other end is off as well, or did what it did before.
LEMMA ReadOther ==
    ASSUME TypeOK, NEW e \in Ends, NEW data \in Seq(Cell), NEW ow \in Seq(Cell),
           NEW r \in LoopStates, ReadOf(e, data, ow, r), FlowInv(e),
           FlowInv(Peer(e)), FrameInv(Peer(e))
    PROVE  FlowInv(Peer(e))' /\ FrameInv(Peer(e))'
<1> DEFINE f == Peer(e)
           A == r.written
<1>1. f \in Ends /\ f # e /\ Peer(f) = e
  BY PeerFacts
<1>2. A \in Seq(Cell) /\ Writes(e, A)
  BY ReadWrites
<1>3. wire[e] \in Seq(Cell)
  BY TypesOf
<1> HIDE DEF A
<1>4. FlowInv(f)'
  BY <1>2, FlowWritten
<1>5. FrameInv(f)'
  <2>1. /\ wire'[e] = wire[e] \o A
        /\ sent' = sent /\ que' = que /\ pushing' = pushing /\ part' = part /\ net' = net
        /\ why'[f] = why[f] /\ online'[f] = online[f] /\ buf'[f] = buf[f] /\ online[e]
        /\ IF A = <<>> THEN split'[e] = split[e]
           ELSE part[e] # 0 \/ split[e] # {} => split'[e] # {}
    BY DEF ReadOf, A
  <2>2. CASE A = <<>>
    <3>1. wire'[e] = wire[e]
      BY <1>3, <2>1, <2>2, ConcatEmptySeq
    <3> QED BY <1>1, <2>1, <2>2, <3>1, FrameSame
  <2>3. CASE A # <<>>
    <3>1. part[e] # 0 \/ split[e] # {} => split'[e] # {}
      BY <2>1, <2>3
    <3> QED BY <1>2, <3>1, FrameWritten
  <2> QED BY <2>2, <2>3
<1> QED BY <1>4, <1>5

\* An end that read starts its count again; a probe on its way to the end that
\* read is on its way still, or answered.
LEMMA ReadProbe ==
    ASSUME TypeOK, NEW e \in Ends, NEW data \in Seq(Cell), NEW ow \in Seq(Cell),
           NEW r \in LoopStates, ReadOf(e, data, ow, r), FlowInv(e),
           ProbeInv(e), ProbeInv(Peer(e))
    PROVE  ProbeInv(e)' /\ ProbeInv(Peer(e))'
<1> DEFINE f == Peer(e)
           c == buf[e]
           A == r.written
<1>1. f \in Ends /\ f # e /\ Peer(f) = e
  BY PeerFacts
<1>2. /\ c \in Seq(Cell) /\ Stream(e) = (c \o data) \o ow
      /\ online'[e] => Stream(e)' = r.buf \o ow
  <2>1. ReadStreams(e, data, ow, r)
    BY ReadStream
  <2> QED BY <2>1 DEF ReadStreams
<1>3. /\ online[e] /\ net # "dead" /\ net' = net /\ r = RecvLoop(c \o data, data)
      /\ wire'[e] = wire[e] \o A /\ heart'[e] = Fresh(e) /\ heart'[f] = heart[f]
      /\ why'[e] \in {why[e], "data", "zero"} /\ why'[f] = why[f] /\ online'[f] = online[f]
      /\ online'[e] => ~r.bad
  BY DEF ReadOf
<1>4. Waiting(c)
  BY <1>3 DEF FlowInv
<1>5. wire[e] \in Seq(Cell) /\ A \in Seq(Cell)
  BY TypesOf DEF LoopStates
<1>6. ProbeInv(e)'
  <2>1. ~(heart'[e].count >= 1)
    BY <1>3, FreshIs
  <2>2. net' = "prompt" => why'[e] # "heart"
    BY <1>3 DEF ProbeInv
  <2> QED BY <2>1, <2>2 DEF ProbeInv
<1> HIDE DEF f, c, A
<1>7. ASSUME wire'[e] = <<>> PROVE wire[e] = <<>> /\ A = <<>>
  BY <1>3, <1>5, <1>7, JoinSome
<1>8. ASSUME online'[e], A = <<>>, Owing(Stream(e)) PROVE Owing(Stream(e)')
  <2>1. Owing((c \o data) \o ow)
    BY <1>2, <1>8
  <2>2. r.bad \/ r.written # <<>> \/ Owing(r.buf \o ow)
    BY <1>2, <1>3, <1>4, <2>1, LoopOwing
  <2>3. Owing(r.buf \o ow)
    BY <1>3, <1>8, <2>2 DEF A
  <2> QED BY <1>2, <1>8, <2>3
<1>9. net = "prompt" =>
        /\ why[f] # "heart"
        /\ online[f] /\ online[e] /\ heart[f].count >= 1 /\ wire[e] = <<>> => Owing(Stream(e))
  BY <1>1 DEF ProbeInv, f
<1>10. net' = "prompt" =>
        /\ why'[f] # "heart"
        /\ online'[f] /\ online'[e] /\ heart'[f].count >= 1 /\ wire'[e] = <<>> => Owing(Stream(e)')
  BY <1>3, <1>7, <1>8, <1>9
<1>11. ProbeInv(f)'
  BY <1>1, <1>10 DEF ProbeInv
<1> QED BY <1>6, <1>11 DEF f

\* Without messages the client's probe goes to the server and the answer to it
\* comes back, and nothing else does.
LEMMA ReadQuiet ==
    ASSUME TypeOK, NEW e \in Ends, NEW data \in Seq(Cell), NEW ow \in Seq(Cell),
           NEW r \in LoopStates, ReadOf(e, data, ow, r), FlowInv(e), QuietInv
    PROVE  QuietInv'
<1> SUFFICES ASSUME net = "prompt", \A g \in Ends : sent[g] = <<>>
             PROVE  QuietInv'
  BY DEF QuietInv, ReadOf
<1> DEFINE f == Peer(e)
           c == buf[e]
           A == r.written
<1>1. f \in Ends /\ f # e /\ Peer(f) = e /\ \A g \in Ends : g = e \/ g = f
  BY PeerFacts
<1>2. /\ c \in Seq(Cell) /\ Stream(e) = (c \o data) \o ow
      /\ online'[e] => Stream(e)' = r.buf \o ow
  <2>1. ReadStreams(e, data, ow, r)
    BY ReadStream
  <2> QED BY <2>1 DEF ReadStreams
<1>3. /\ online[e] /\ net # "dead" /\ net' = net /\ sent' = sent /\ drift' = drift
      /\ r = RecvLoop(c \o data, data)
      /\ wire[f] = data \o ow /\ data # <<>>
      /\ wire'[f] = ow /\ wire'[e] = wire[e] \o A /\ buf'[f] = buf[f]
      /\ heart'[e] = Fresh(e) /\ heart'[f] = heart[f] /\ online'[f] = online[f]
      /\ online'[e] => buf'[e] = r.buf
  BY DEF ReadOf
<1>4. Waiting(c)
  BY <1>3 DEF FlowInv
<1>5. wire[e] \in Seq(Cell) /\ A \in Seq(Cell)
  BY TypesOf DEF LoopStates
<1>6. wire[f] # <<>>
  <2>1. data \o ow # <<>>
    BY <1>3, JoinSome
  <2> QED BY <1>3, <2>1
<1>7. /\ heart["server"].count \in -2 .. 0 /\ heart["client"].count \in -1 .. 1
      /\ drift \in -MaxDrift .. MaxDrift
      /\ (\A g \in Ends : online[g]) => IdleInv \/ ProbedInv \/ AnsweredInv
  BY DEF QuietInv
<1>8. CASE \E g \in Ends : ~online'[g]
  BY <1>3, <1>7, <1>8, QuietOff
<1>9. CASE \A g \in Ends : online'[g]
  <2>1. \A g \in Ends : online[g]
    BY <1>1, <1>3, <1>9
  <2>2. ~IdleInv
    BY <1>1, <1>6 DEF IdleInv, Ends
  <2>3. ProbedInv \/ AnsweredInv
    BY <1>7, <2>1, <2>2
  <2>4. /\ buf'[e] = r.buf /\ Stream(e)' = r.buf \o ow
    BY <1>2, <1>3, <1>9
  <2>5. Stream(f)' = buf[f] \o wire'[e]
    BY <1>1, <1>3 DEF Stream
  <2>6. A = <<>> => wire'[e] = wire[e]
    BY <1>3, <1>5, ConcatEmptySeq
  <2>7. wire[e] = <<>> => wire'[e] = A
    BY <1>3, <1>5, ConcatEmptySeq
  <2>8. buf[f] = <<>> /\ wire'[e] = A => Stream(f)' = A
    BY <1>5, <2>5, ConcatEmptySeq
  <2> HIDE DEF f, c, A
  <2>9. CASE ProbedInv
    <3>1. e = "server" /\ f = "client"
      BY <1>1, <1>6, <2>9 DEF ProbedInv, Ends
    <3>2. wire[e] = <<>> /\ buf[f] = <<>> /\ Stream(e) = Cells(Heartbeat("probe"))
          /\ heart[f].count = 1
      BY <2>9, <3>1 DEF ProbedInv
    <3>3. \/ ow # <<>> /\ r.buf = c \o data /\ A = <<>>
          \/ ow = <<>> /\ r.buf = <<>> /\ A = Cells(Heartbeat("answer"))
      <4>1. (c \o data) \o ow = Cells(Heartbeat("probe"))
        BY <1>2, <3>2
      <4>2. c \in Seq(Cell) /\ r = RecvLoop(c \o data, data)
        BY <1>2, <1>3
      <4>3. Lone(r, c \o data, ow, "probe")
        BY <1>4, <4>1, <4>2, LoopQuiet
      <4> QED BY <4>3 DEF A, Lone
    <3>4. ASSUME ow # <<>>, r.buf = c \o data, A = <<>> PROVE ProbedInv'
      <4>1. Stream(e)' = Cells(Heartbeat("probe"))
        BY <1>2, <2>4, <3>2, <3>4
      <4>2. wire'[f] # <<>> /\ wire'[e] = <<>> /\ buf'[f] = <<>> /\ heart'[f].count = 1
        BY <1>3, <2>6, <3>2, <3>4
      <4> QED BY <3>1, <4>1, <4>2 DEF ProbedInv
    <3>5. ASSUME ow = <<>>, r.buf = <<>>, A = Cells(Heartbeat("answer")) PROVE AnsweredInv'
      <4>1. A # <<>>
        BY <3>5, PacketsAre, CellsSome
      <4>2. wire'[e] = A /\ Stream(f)' = A
        BY <2>7, <2>8, <3>2
      <4>3. /\ wire'[e] # <<>> /\ wire'[f] = <<>> /\ buf'[e] = <<>> /\ heart'[e] = Fresh(e)
            /\ Stream(f)' = Cells(Heartbeat("answer")) /\ heart'[f].count = 1
        BY <1>3, <2>4, <3>2, <3>5, <4>1, <4>2
      <4> QED BY <3>1, <4>3 DEF AnsweredInv, Fresh
    <3>6. heart'["server"].count \in -2 .. 0 /\ heart'["client"].count \in -1 .. 1
      BY <1>3, <3>1, <3>2, FreshIs
    <3>7. ProbedInv' \/ AnsweredInv'
      BY <3>3, <3>4, <3>5
    <3> QED BY <1>3, <1>7, <3>6, <3>7 DEF QuietInv
  <2>10. CASE AnsweredInv
    <3>1. e = "client" /\ f = "server"
      BY <1>1, <1>6, <2>10 DEF AnsweredInv, Ends
    <3>2. wire[e] = <<>> /\ buf[f] = <<>> /\ Stream(e) = Cells(Heartbeat("answer"))
          /\ heart[f] = Fresh(f)
      BY <2>10, <3>1 DEF AnsweredInv
    <3>3. \/ ow # <<>> /\ r.buf = c \o data /\ A = <<>>
          \/ ow = <<>> /\ r.buf = <<>> /\ A = <<>>
      <4>1. (c \o data) \o ow = Cells(Heartbeat("answer"))
        BY <1>2, <3>2
      <4>2. c \in Seq(Cell) /\ r = RecvLoop(c \o data, data)
        BY <1>2, <1>3
      <4>3. Lone(r, c \o data, ow, "answer")
        BY <1>4, <4>1, <4>2, LoopQuiet
      <4> QED BY <4>3 DEF A, Lone
    <3>4. heart'[e] = Fresh(e) /\ heart'[f] = Fresh(f) /\ wire'[e] = <<>> /\ buf'[f] = <<>>
      BY <1>3, <2>6, <3>2, <3>3
    <3>5. /\ heart'["server"].count = -2 /\ heart'["server"].time = 0
          /\ heart'["client"].count = -1 /\ heart'["client"].time = 0
      BY <1>1, <3>1, <3>4, FreshIs
    <3>6. ASSUME ow # <<>>, r.buf = c \o data PROVE AnsweredInv'
      <4>1. Stream(e)' = Cells(Heartbeat("answer"))
        BY <1>2, <2>4, <3>2, <3>6
      <4>2. wire'[f] # <<>>
        BY <1>3, <3>6
      <4> QED BY <3>1, <3>4, <3>5, <4>1, <4>2 DEF AnsweredInv, Fresh
    <3>7. ASSUME ow = <<>>, r.buf = <<>> PROVE IdleInv'
      <4>1. wire'[f] = <<>> /\ buf'[e] = <<>>
        BY <1>3, <2>4, <3>7
      <4>2. ServerTicks(heart'["server"]) = 0 /\ ClientTicks(heart'["client"]) = 0
        BY <3>5 DEF ServerTicks, ClientTicks
      <4>3. ServerTicks(heart'["server"]) - ClientTicks(heart'["client"]) + drift' \in -MaxDrift .. MaxDrift
        BY <1>3, <1>7, <4>2
      <4> QED BY <3>1, <3>4, <3>5, <4>1, <4>3 DEF IdleInv
    <3>8. IdleInv' \/ AnsweredInv'
      BY <3>3, <3>6, <3>7
    <3> QED BY <1>3, <1>7, <3>5, <3>8 DEF QuietInv
  <2> QED BY <2>3, <2>9, <2>10
<1> QED BY <1>8, <1>9

\* uv_on_after_read
LEMMA ReadKeeps ==
    ASSUME FramingInv, NEW e \in Ends, Read(e)
    PROVE  FramingInv'
<1> DEFINE f == Peer(e)
<1>1. /\ TypeOK /\ QuietInv
      /\ QueInv(e) /\ FlowInv(e) /\ FrameInv(e) /\ ProbeInv(e)
      /\ QueInv(f) /\ FlowInv(f) /\ FrameInv(f) /\ ProbeInv(f)
  BY InvParts
<1>2. TypeOK' /\ \E data, ow \in Seq(Cell) : \E r \in LoopStates : ReadOf(e, data, ow, r)
  BY ReadIs
<1>3. PICK data \in Seq(Cell), ow \in Seq(Cell) : \E r \in LoopStates : ReadOf(e, data, ow, r)
  BY <1>2
<1>4. PICK r \in LoopStates : ReadOf(e, data, ow, r)
  BY <1>3
<1>5. FlowInv(e)'
  BY <1>1, <1>4, ReadFlow
<1>6. FrameInv(e)'
  BY <1>1, <1>4, ReadFrame
<1>7. FlowInv(f)' /\ FrameInv(f)'
  BY <1>1, <1>4, ReadOther
<1>8. ProbeInv(e)' /\ ProbeInv(f)'
  BY <1>1, <1>4, ReadProbe
<1>9. QuietInv'
  BY <1>1, <1>4, ReadQuiet
<1>10. sent' = sent /\ que' = que /\ pushing' = pushing
  BY <1>4 DEF ReadOf
<1>11. QueInv(e)' /\ QueInv(f)'
  BY <1>1, <1>10 DEF QueInv
<1> QED BY <1>2, <1>5, <1>6, <1>7, <1>8, <1>9, <1>11, InvFromParts DEF f

-----------------------------------------------------------------------------
(* The invariant                                                           *)

\* Nothing is on its way at the start.
LEMMA EmptyStream ==
    /\ <<>> \o <<>> = <<>> /\ Len(<<>>) = 0 /\ <<>> \in Seq(Cell) /\ <<>> \in Seq(Nat)
    /\ OfMessages(<<>>) /\ Waiting(<<>>) /\ Framed(<<>>) /\ Closed(<<>>) /\ Backed(<<>>)
    /\ Ordered(<<>>, 0, 0) /\ Complete(<<>>, 0, 0)
<1>1. <<>> \in Seq(Cell) /\ <<>> \in Seq(Nat) /\ Len(<<>>) = 0
  BY EmptySeq
<1>2. <<>> \o <<>> = <<>>
  BY <1>1, ConcatEmptySeq
<1>3. OfMessages(<<>>) /\ Backed(<<>>) /\ Ordered(<<>>, 0, 0) /\ Complete(<<>>, 0, 0)
  BY <1>1 DEF OfMessages, Backed, Ordered, Complete
<1>4. Waiting(<<>>) /\ Closed(<<>>)
  BY <1>1 DEF Waiting, HeadLen, Closed
<1>5. Framed(<<>>)
  BY <1>1 DEF Framed
<1> QED BY <1>1, <1>2, <1>3, <1>4, <1>5

\* A connection that is up and has seen nothing is as the invariant says.
LEMMA InvInit == Init => FramingInv
<1> SUFFICES ASSUME Init PROVE FramingInv
  OBVIOUS
<1>1. \A e \in Ends : /\ sent[e] = <<>> /\ got[e] = <<>> /\ pushing[e] = <<>> /\ que[e] = <<>>
                      /\ wire[e] = <<>> /\ buf[e] = <<>> /\ online[e] = TRUE /\ why[e] = "none"
                      /\ heart[e] = Fresh(e) /\ part[e] = 0 /\ split[e] = {}
  BY DEF Init
<1>2. net \in {"prompt", "slow"} /\ drift = 0
  BY FramingAssumption DEF Init
<1>3. TypeOK
  <2>1. /\ sent \in [Ends -> Seq(Nat)] /\ got \in [Ends -> Seq(Nat)]
        /\ pushing \in [Ends -> Seq(Cell)] /\ que \in [Ends -> Seq(Cell)]
        /\ wire \in [Ends -> Seq(Cell)] /\ buf \in [Ends -> Seq(Cell)]
    BY EmptyStream DEF Init
  <2>2. /\ online \in [Ends -> BOOLEAN]
        /\ why \in [Ends -> {"none", "data", "zero", "closed", "heart"}]
        /\ part \in [Ends -> Nat] /\ split \in [Ends -> SUBSET Nat]
    BY DEF Init
  <2>3. heart \in [Ends -> [time : 0 .. TicksPerCheck - 1, count : Int]]
    BY FreshIs DEF Init
  <2> QED BY <1>2, <2>1, <2>2, <2>3 DEF TypeOK
<1>4. \A e \in Ends : Stream(e) = <<>> /\ AllOf(e) = <<>>
  BY <1>1, PeerFacts, EmptyStream DEF Stream, AllOf
<1>5. ASSUME NEW e \in Ends PROVE QueInv(e) /\ FlowInv(e) /\ FrameInv(e) /\ ProbeInv(e)
  <2>1. Peer(e) \in Ends
    BY PeerFacts
  <2>2. QueInv(e)
    BY <1>1, EmptyStream DEF QueInv
  <2>3. FlowInv(e)
    <3>1. Len(got[e]) = 0 /\ Len(sent[Peer(e)]) = 0
      BY <1>1, <2>1, EmptyStream
    <3>2. got[e] = [n \in 1 .. 0 |-> n]
      <4>1. got[e] \in Seq(Nat) /\ Counting(got[e])
        <5>1. got[e] = <<>>
          BY <1>1
        <5>2. <<>> \in Seq(Nat) /\ Counting(<<>>)
          BY EmptyStream DEF Counting
        <5> QED BY <5>1, <5>2
      <4> QED BY <3>1, <4>1, CountingIs
    <3>3. Waiting(buf[e]) /\ Ordered(Stream(e), 0, 0)
      BY <1>1, <1>4, EmptyStream
    <3>4. Ordered(AllOf(e), 0, 0) /\ Complete(AllOf(e), 0, 0) /\ Backed(AllOf(e))
      BY <1>4, EmptyStream
    <3> QED BY <3>1, <3>2, <3>3, <3>4 DEF FlowInv
  <2>4. FrameInv(e)
    <3>1. Framed(Stream(e)) /\ Framed(AllOf(e)) /\ Closed(Stream(e)) /\ why[e] # "data"
      BY <1>1, <1>4, EmptyStream
    <3> QED BY <3>1 DEF FrameInv
  <2>5. ProbeInv(e)
    BY <1>1, FreshIs DEF ProbeInv
  <2> QED BY <2>2, <2>3, <2>4, <2>5
<1>6. QuietInv
  <2>1. /\ heart["server"].count = -2 /\ heart["server"].time = 0
        /\ heart["client"].count = -1 /\ heart["client"].time = 0
    BY <1>1, FreshIs DEF Ends
  <2>2. ServerTicks(heart["server"]) = 0 /\ ClientTicks(heart["client"]) = 0
    BY <2>1 DEF ServerTicks, ClientTicks
  <2>3. 0 \in -MaxDrift .. MaxDrift
    BY FramingAssumption
  <2>4. ServerTicks(heart["server"]) - ClientTicks(heart["client"]) + drift \in -MaxDrift .. MaxDrift
    BY <1>2, <2>2, <2>3
  <2>5. IdleInv
    BY <1>1, <2>1, <2>4 DEF IdleInv, Ends
  <2> QED BY <1>2, <2>1, <2>3, <2>5 DEF QuietInv
<1> QED BY <1>3, <1>5, <1>6 DEF FramingInv

\* Every step keeps the invariant.
LEMMA InvStep == FramingInv /\ [Next]_vars => FramingInv'
<1> SUFFICES ASSUME FramingInv, [Next]_vars PROVE FramingInv'
  OBVIOUS
<1>1. ASSUME NEW e \in Ends, SendCall(e) PROVE FramingInv'
  BY <1>1, SendCallKeeps
<1>2. ASSUME NEW e \in Ends, PushChunk(e) PROVE FramingInv'
  BY <1>2, PushChunkKeeps
<1>3. ASSUME NEW e \in Ends, Drain(e) PROVE FramingInv'
  BY <1>3, DrainKeeps
<1>4. ASSUME NEW e \in Ends, Read(e) PROVE FramingInv'
  BY <1>4, ReadKeeps
<1>5. ASSUME NEW e \in Ends, ReadEnd(e) PROVE FramingInv'
  BY <1>5, ReadEndKeeps
<1>6. ASSUME NEW e \in Ends, Tick(e) PROVE FramingInv'
  BY <1>6, TickKeeps
<1>7. CASE Die
  BY <1>7, DieKeeps
<1>8. CASE UNCHANGED vars
  <2>1. UNCHANGED <<sent, pushing, que, wire, online, why, buf, got, heart, net, drift, part, split>>
    BY <1>8 DEF vars
  <2>2. TypeOK /\ QuietInv /\ \A e \in Ends : QueInv(e) /\ FlowInv(e) /\ FrameInv(e) /\ ProbeInv(e)
    BY DEF FramingInv
  <2>3. TypeOK'
    BY <2>1, <2>2 DEF TypeOK
  <2>4. \A e \in Ends : Stream(e)' = Stream(e) /\ AllOf(e)' = AllOf(e)
    BY <2>1 DEF Stream, AllOf
  <2>5. QuietInv'
    BY <2>1, <2>2, <2>4 DEF QuietInv, IdleInv, ProbedInv, AnsweredInv, ServerTicks, ClientTicks, Ends
  <2>6. ASSUME NEW e \in Ends PROVE QueInv(e)' /\ FlowInv(e)' /\ FrameInv(e)' /\ ProbeInv(e)'
    <3>1. QueInv(e)'
      BY <2>1, <2>2 DEF QueInv
    <3>2. FlowInv(e)'
      BY <2>1, <2>2, FlowSame
    <3>3. FrameInv(e)'
      BY <2>1, <2>2, FrameSame
    <3>4. ProbeInv(e)'
      BY <2>1, <2>2, <2>4, PeerFacts DEF ProbeInv
    <3> QED BY <3>1, <3>2, <3>3, <3>4
  <2> QED BY <2>3, <2>5, <2>6 DEF FramingInv
<1> QED BY <1>1, <1>2, <1>3, <1>4, <1>5, <1>6, <1>7, <1>8 DEF Next

-----------------------------------------------------------------------------
(* What follows from it                                                    *)

\* An end's messages, in a prefix of those sent
LEMMA InvInOrder == FramingInv => InOrder
<1> SUFFICES ASSUME FramingInv, NEW e \in Ends
             PROVE  IsPrefix(got[e], [n \in 1 .. Len(sent[Peer(e)]) |-> n])
  BY DEF InOrder
<1> DEFINE k == Len(got[e])
           m == Len(sent[Peer(e)])
           t == [n \in 1 .. m |-> n]
<1>1. TypeOK /\ FlowInv(e) /\ Peer(e) \in Ends
  BY PeerFacts DEF FramingInv
<1>2. k \in Nat /\ m \in Nat
  BY <1>1, TypesOf
<1>3. got[e] = [n \in 1 .. k |-> n] /\ k <= m
  BY <1>1 DEF FlowInv
<1> HIDE DEF k, m
<1>4. t \in Seq(Nat) /\ Len(t) = m
  BY <1>2, SeqDef
<1>5. SubSeq(t, 1, k) = [n \in 1 .. k |-> n]
  BY <1>2, <1>3, <1>4
<1>6. SubSeq(got[e], 1, k) = got[e]
  BY <1>2, <1>3
<1> QED BY <1>3, <1>4, <1>5, <1>6 DEF IsPrefix, k, m

\* The reasons for which an end was taken off line
LEMMA InvDropExplained == FramingInv => DropExplained
<1> SUFFICES ASSUME FramingInv, NEW e \in Ends
             PROVE  /\ why[e] = "data" => split[Peer(e)] # {} \/ TooLong(Peer(e))
                    /\ why[e] = "heart" => net # "prompt"
  BY DEF DropExplained
<1>1. FrameInv(e) /\ ProbeInv(e)
  BY DEF FramingInv
<1> QED BY <1>1 DEF FrameInv, ProbeInv

\* The counts of two ends without messages
LEMMA InvClientProbes == FramingInv => ClientProbes
BY DEF FramingInv, QuietInv, ClientProbes

\* The inductive invariant holds: what an end has still to parse begins with
\* the next message, has room for every packet to end, and, unless a heartbeat
\* split a message or one is too long, is packet after packet
\* (TCPSession.cpp:130-225 reads what TCPUtils.cpp cuts in chunks).
THEOREM FramingInvariant == Spec => []FramingInv
BY InvInit, InvStep, PTL DEF Spec

\* Every variable has the values that TCPSession.cpp, TCPSocket.cpp and
\* TCPUtils.cpp can give it; in particular the heartbeat's time is below the
\* number of ticks after which TCPSession::update looks at the count.
THEOREM FramingTypeCorrect == Spec => []TypeOK
<1>1. FramingInv => TypeOK
  BY DEF FramingInv
<1> QED BY <1>1, InvInit, InvStep, PTL DEF Spec

\* The application gets the messages sent to it, whole, in order and without
\* a gap (TCPSession.cpp:130-225), for any lengths, any limit of a write and
\* of a read, and any heartbeats in between.
THEOREM FramingInOrder == Spec => []InOrder
BY InvInit, InvStep, InvInOrder, PTL DEF Spec

\* A connection is dropped for its data only when a heartbeat was written into
\* the middle of a message (TCPSession.cpp:130-225 against TCPUtils.cpp's
\* chunks) or a message was too long; for silence only when the network was
\* not prompt.
THEOREM FramingDropExplained == Spec => []DropExplained
BY InvInit, InvStep, InvDropExplained, PTL DEF Spec

\* Between two idle ends it is the client that probes, once, and the server
\* that answers (TCPConfig.h:51-53), for any ratio of the two timers and any
\* drift up to half the time between two checks.
THEOREM FramingClientProbes == Spec => []ClientProbes
BY InvInit, InvStep, InvClientProbes, PTL DEF Spec

=============================================================================
