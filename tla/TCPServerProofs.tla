--------------------------- MODULE TCPServerProofs ---------------------------
(***************************************************************************)
(* The safety of TCPServer, for every bound and every set of calls:        *)
(* ServerInv is inductive, and implies what the application and libuv rely *)
(* on, and that the server keeps the promises of ServerContract.           *)
(*                                                                         *)
(* The first part says what each change of a stream or of an entry does to *)
(* SessionInv, for one session; the second takes the actions one by one.   *)
(***************************************************************************)
EXTENDS TCPServerInv, Streams

-----------------------------------------------------------------------------
(* Types.                                                                  *)

LEMMA SessionIDsAreNat == SessionIDs \subseteq Nat /\ NoSession \notin SessionIDs
  BY BoundsAssumption DEF SessionIDs

LEMMA StreamTypes ==
    TypeOK => Messages \in Seq(NetThreadMsg) /\ Operations \in Seq(SessionOperation)
  BY ConcatProperties DEF TypeOK, Messages, Operations

LEMMA MessageTypes ==
    ASSUME NEW s \in SessionIDs, NEW type \in NetThreadMsgType \ {"EXIT_LOOP"}
    PROVE  /\ Msg(type, s) \in NetThreadMsg
           /\ Msg(type, s).type = type /\ Msg(type, s).sessionID = s
  BY SessionIDsAreNat DEF Msg, NetThreadMsg

LEMMA ExitLoopType == ExitLoop \in NetThreadMsg /\ ExitLoop.type = "EXIT_LOOP"
  BY DEF ExitLoop, Msg, NetThreadMsg, NetThreadMsgType

LEMMA OperationTypes ==
    ASSUME NEW s \in SessionIDs, NEW type \in OperationType \ {"STOP_SERVER"}
    PROVE  /\ Op(type, s) \in SessionOperation
           /\ Op(type, s).type = type /\ Op(type, s).sessionID = s
  BY SessionIDsAreNat DEF Op, SessionOperation

LEMMA StopServerType ==
    /\ Op("STOP_SERVER", NoSession) \in SessionOperation
    /\ Op("STOP_SERVER", NoSession).type = "STOP_SERVER"
  BY DEF Op, SessionOperation, OperationType

(* A release is known by its type and its session. *)
LEMMA IsRelease ==
    ASSUME NEW op \in SessionOperation, NEW s
    PROVE  op = Release(s) <=>
              op.sessionID = s /\ op.type = "SEND_DIS_SESSION_MSG_TO_MAIN_THREAD"
  BY DEF SessionOperation, Release, Op

(* A message of a session is one of three. *)
LEMMA AboutSession ==
    ASSUME NEW m \in NetThreadMsg, NEW s \in SessionIDs, m.sessionID = s
    PROVE  m.type \in {"NEW_CONNECT", "RECV_DATA", "DIS_CONNECT"}
  BY SessionIDsAreNat DEF NetThreadMsg, NetThreadMsgType

-----------------------------------------------------------------------------
(* What keeps SessionInv.                                                  *)

(* Nothing is said of the session; its entry may change within its life. *)
LEMMA SilentInv ==
    ASSUME NEW s, NEW M, NEW O, NEW d, NEW d2, NEW t, SessionInv(s, M, O, d, t),
           SocketInv(d2), d2.inMap = d.inMap, Gone(d2) <=> Gone(d)
    PROVE  SessionInv(s, M, O, d2, t)
  BY DEF SessionInv, LeaveInv, ComeInv

(* Something is said of another session. *)
LEMMA OtherSaysInv ==
    ASSUME NEW s, NEW M \in Seq(NetThreadMsg), NEW O, NEW d, NEW t, NEW m \in NetThreadMsg,
           SessionInv(s, M, O, d, t), m.sessionID # s
    PROVE  SessionInv(s, Append(M, m), O, d, t)
<1> DEFINE N == Append(M, m)
<1>1. /\ Len(M) \in Nat /\ DOMAIN M = 1 .. Len(M) /\ DOMAIN N = 1 .. Len(M) + 1
      /\ \A i \in DOMAIN M : i \in DOMAIN N /\ N[i] = M[i]
      /\ N[Len(M) + 1] = m
  BY AppendIndex
<1>2. \A i \in DOMAIN N : N[i].sessionID = s => i \in DOMAIN M /\ N[i] = M[i]
  BY <1>1
<1> HIDE DEF N
<1>3. LeaveInv(s, N, O, d, t)
  BY <1>1, <1>2 DEF SessionInv, LeaveInv, IsGoodbye
<1>4. ComeInv(s, N, d, t)
  BY <1>1, <1>2 DEF SessionInv, ComeInv, IsNew
<1> QED BY <1>3, <1>4 DEF SessionInv, N

(* The session talks, and is not gone. *)
LEMMA ReceivedInv ==
    ASSUME NEW s, NEW M \in Seq(NetThreadMsg), NEW O, NEW d, NEW t, NEW m \in NetThreadMsg,
           SessionInv(s, M, O, d, t), m.sessionID = s, m.type = "RECV_DATA",
           d.inMap, ~Gone(d)
    PROVE  SessionInv(s, Append(M, m), O, d, t)
<1> DEFINE N == Append(M, m)
<1>1. /\ Len(M) \in Nat /\ DOMAIN M = 1 .. Len(M) /\ DOMAIN N = 1 .. Len(M) + 1
      /\ \A i \in DOMAIN M : i \in DOMAIN N /\ N[i] = M[i]
      /\ N[Len(M) + 1] = m
  BY AppendIndex
<1>2. \A i \in DOMAIN N : (i \in DOMAIN M /\ N[i] = M[i]) \/ (i = Len(M) + 1 /\ N[i] = m)
  BY <1>1
<1>3. \A i \in DOMAIN M : i < Len(M) + 1
  BY <1>1
<1> HIDE DEF N
<1>4. LeaveInv(s, N, O, d, t)
  BY <1>1, <1>2 DEF SessionInv, LeaveInv, ComeInv, IsGoodbye
<1>5. ComeInv(s, N, d, t)
  <2>1. \A i \in DOMAIN N : IsNew(N[i], s) => i \in DOMAIN M /\ N[i] = M[i]
    BY <1>2 DEF IsNew
  <2>2. ASSUME NEW i \in DOMAIN N, IsNew(N[i], s)
        PROVE  t = "none" /\ \A j \in DOMAIN N : N[j].sessionID = s => i <= j
    <3>1. t = "none" /\ \A j \in DOMAIN M : M[j].sessionID = s => i <= j
      BY <2>1, <2>2 DEF SessionInv, ComeInv
    <3>2. i <= Len(M) + 1
      BY <1>1, <1>3, <2>1, <2>2
    <3> QED BY <1>2, <3>1, <3>2
  <2> QED BY <1>1, <2>2 DEF SessionInv, ComeInv
<1> QED BY <1>4, <1>5 DEF SessionInv, N

(* The session's socket is closed, which is announced. *)
LEMMA GoodbyeInv ==
    ASSUME NEW s, NEW M \in Seq(NetThreadMsg), NEW O, NEW d, NEW d2, NEW t,
           NEW m \in NetThreadMsg, SessionInv(s, M, O, d, t), IsGoodbye(m, s),
           d.inMap, ~Gone(d), Gone(d2)
    PROVE  SessionInv(s, Append(M, m), O, d2, t)
<1> DEFINE N == Append(M, m)
<1>1. /\ Len(M) \in Nat /\ DOMAIN M = 1 .. Len(M) /\ DOMAIN N = 1 .. Len(M) + 1
      /\ \A i \in DOMAIN M : i \in DOMAIN N /\ N[i] = M[i]
      /\ N[Len(M) + 1] = m
  BY AppendIndex
<1>2. \A i \in DOMAIN N : (i \in DOMAIN M /\ N[i] = M[i]) \/ (i = Len(M) + 1 /\ N[i] = m)
  BY <1>1
<1>3. \A i \in DOMAIN N : i <= Len(M) + 1
  BY <1>1
<1>4. Len(M) + 1 \in DOMAIN N
  BY <1>1
<1> HIDE DEF N
<1>5. \A i \in DOMAIN M : ~IsGoodbye(M[i], s)
  BY DEF SessionInv, LeaveInv
<1>6. t # "left" /\ d2.inMap
  BY DEF SessionInv, ComeInv, Gone
<1>7. \A i \in DOMAIN O : O[i] # Release(s)
  BY DEF SessionInv, LeaveInv
<1>8. LeaveInv(s, N, O, d2, t)
  BY <1>1, <1>2, <1>3, <1>4, <1>5, <1>6, <1>7 DEF LeaveInv
<1>9. ComeInv(s, N, d2, t)
  <2>1. \A i \in DOMAIN N : IsNew(N[i], s) => i \in DOMAIN M /\ N[i] = M[i]
    BY <1>2 DEF IsNew, IsGoodbye
  <2>2. ASSUME NEW i \in DOMAIN N, IsNew(N[i], s)
        PROVE  t = "none" /\ \A j \in DOMAIN N : N[j].sessionID = s => i <= j
    <3>1. t = "none" /\ \A j \in DOMAIN M : M[j].sessionID = s => i <= j
      BY <2>1, <2>2 DEF SessionInv, ComeInv
    <3> QED BY <1>2, <1>3, <3>1
  <2> QED BY <1>1, <1>6, <2>2 DEF SessionInv, ComeInv
<1> QED BY <1>8, <1>9 DEF SessionInv, SocketInv, N

(* A new session is announced. *)
LEMMA NewcomerInv ==
    ASSUME NEW s, NEW M \in Seq(NetThreadMsg), NEW O, NEW m \in NetThreadMsg,
           SessionInv(s, M, O, NoEntry, "none"), IsNew(m, s)
    PROVE  SessionInv(s, Append(M, m), O, NewEntry, "none")
<1> DEFINE N == Append(M, m)
<1>1. /\ Len(M) \in Nat /\ DOMAIN M = 1 .. Len(M) /\ DOMAIN N = 1 .. Len(M) + 1
      /\ \A i \in DOMAIN M : i \in DOMAIN N /\ N[i] = M[i]
      /\ N[Len(M) + 1] = m
  BY AppendIndex
<1>2. NoEntry.inMap = FALSE /\ ~Gone(NoEntry)
  BY DEF NoEntry, Gone
<1>3. /\ NewEntry.inMap = TRUE /\ NewEntry.isInvalid = FALSE /\ NewEntry.isOnline = TRUE
      /\ NewEntry.tcp = "open" /\ NewEntry.closing = FALSE
  BY DEF NoEntry, NewEntry
<1>4. SocketInv(NewEntry) /\ ~Gone(NewEntry)
  BY <1>3 DEF SocketInv, Gone
<1> HIDE DEF N
<1>5. \A i \in DOMAIN M : M[i].sessionID # s
  BY <1>2 DEF SessionInv, LeaveInv
<1>6. \A i \in DOMAIN N : N[i].sessionID = s => i = Len(M) + 1 /\ N[i] = m
  BY <1>1, <1>5
<1>7. \A i \in DOMAIN O : O[i] # Release(s)
  BY <1>2 DEF SessionInv, LeaveInv
<1>8. LeaveInv(s, N, O, NewEntry, "none")
  BY <1>3, <1>4, <1>6, <1>7 DEF LeaveInv, IsGoodbye, IsNew
<1>9. ComeInv(s, N, NewEntry, "none")
  <2>1. Len(M) + 1 \in DOMAIN N /\ IsNew(N[Len(M) + 1], s)
    BY <1>1
  <2> QED BY <1>1, <1>6, <2>1 DEF ComeInv, IsNew
<1> QED BY <1>4, <1>8, <1>9 DEF SessionInv, N

-----------------------------------------------------------------------------
(* The application takes a message ...                                     *)

(* ... of another session ... *)
LEMMA HearOtherInv ==
    ASSUME NEW s, NEW M \in Seq(NetThreadMsg), M # <<>>, NEW O, NEW d, NEW t,
           SessionInv(s, M, O, d, t), Head(M).sessionID # s
    PROVE  SessionInv(s, Tail(M), O, d, t)
<1> DEFINE N == Tail(M)
<1>1. /\ Len(M) \in Nat \ {0} /\ DOMAIN M = 1 .. Len(M)
      /\ Head(M) = M[1] /\ DOMAIN N = 1 .. Len(M) - 1
      /\ \A i \in DOMAIN N : i + 1 \in DOMAIN M /\ N[i] = M[i + 1]
      /\ \A i \in DOMAIN M : i # 1 => i - 1 \in DOMAIN N /\ N[i - 1] = M[i]
  BY TailIndex
<1> HIDE DEF N
<1>2. \A i \in DOMAIN M : M[i].sessionID = s => i # 1
  BY <1>1
<1>3. LeaveInv(s, N, O, d, t)
  <2>1. \A i \in DOMAIN N : N[i].sessionID = s => d.inMap /\ t # "left"
    BY <1>1 DEF SessionInv, LeaveInv
  <2>2. ASSUME NEW i \in DOMAIN N, IsGoodbye(N[i], s)
        PROVE  /\ Gone(d)
               /\ \A j \in DOMAIN N : N[j].sessionID = s => j <= i
               /\ \A j \in DOMAIN O : O[j] # Release(s)
    <3>1. /\ Gone(d)
          /\ \A j \in DOMAIN M : M[j].sessionID = s => j <= i + 1
          /\ \A j \in DOMAIN O : O[j] # Release(s)
      BY <1>1, <2>2 DEF SessionInv, LeaveInv
    <3>2. ASSUME NEW j \in DOMAIN N, N[j].sessionID = s PROVE j <= i
      <4>1. j + 1 <= i + 1
        BY <1>1, <3>1, <3>2
      <4> QED BY <1>1, <4>1
    <3> QED BY <3>1, <3>2
  <2>3. \A i \in DOMAIN O : O[i] = Release(s) =>
           /\ Gone(d) /\ t = "left"
           /\ \A j \in DOMAIN N : N[j].sessionID # s
           /\ \A j \in DOMAIN O : O[j] = Release(s) => j = i
    BY <1>1 DEF SessionInv, LeaveInv
  <2>4. ASSUME Gone(d)
        PROVE  \/ \E i \in DOMAIN N : IsGoodbye(N[i], s)
               \/ \E i \in DOMAIN O : O[i] = Release(s)
    <3>1. CASE \E i \in DOMAIN M : IsGoodbye(M[i], s)
      BY <1>1, <1>2, <3>1 DEF IsGoodbye
    <3> QED BY <2>4, <3>1 DEF SessionInv, LeaveInv
  <2> QED BY <2>1, <2>2, <2>3, <2>4 DEF LeaveInv
<1>4. ComeInv(s, N, d, t)
  <2>1. ASSUME NEW i \in DOMAIN N, IsNew(N[i], s)
        PROVE  t = "none" /\ \A j \in DOMAIN N : N[j].sessionID = s => i <= j
    <3>1. t = "none" /\ \A j \in DOMAIN M : M[j].sessionID = s => i + 1 <= j
      BY <1>1, <2>1 DEF SessionInv, ComeInv
    <3>2. ASSUME NEW j \in DOMAIN N, N[j].sessionID = s PROVE i <= j
      <4>1. i + 1 <= j + 1
        BY <1>1, <3>1, <3>2
      <4> QED BY <1>1, <4>1
    <3> QED BY <3>1, <3>2
  <2>2. t = "none" /\ d.inMap => \E i \in DOMAIN N : IsNew(N[i], s)
    BY <1>1, <1>2 DEF SessionInv, ComeInv, IsNew
  <2> QED BY <2>1, <2>2 DEF SessionInv, ComeInv
<1> QED BY <1>3, <1>4 DEF SessionInv, N

(* ... or of this one: it was there, and had not left. *)
LEMMA HeardFrom ==
    ASSUME NEW s, NEW M \in Seq(NetThreadMsg), M # <<>>, NEW O, NEW d, NEW t,
           SessionInv(s, M, O, d, t), Head(M).sessionID = s
    PROVE  /\ d.inMap /\ t # "left"
           /\ IsNew(Head(M), s) => t = "none"
           /\ ~IsNew(Head(M), s) => t # "none"
           /\ \A i \in DOMAIN Tail(M) : ~IsNew(Tail(M)[i], s)
           /\ \A i \in DOMAIN O : O[i] # Release(s)
<1>1. /\ Len(M) \in Nat \ {0} /\ DOMAIN M = 1 .. Len(M) /\ 1 \in DOMAIN M
      /\ Head(M) = M[1] /\ DOMAIN Tail(M) = 1 .. Len(M) - 1
      /\ \A i \in DOMAIN Tail(M) : i + 1 \in DOMAIN M /\ Tail(M)[i] = M[i + 1]
  BY TailIndex
<1>2. d.inMap /\ t # "left"
  BY <1>1 DEF SessionInv, LeaveInv
<1>3. \A i \in DOMAIN M : IsNew(M[i], s) => t = "none" /\ i = 1
  BY <1>1 DEF SessionInv, ComeInv
<1>4. ~IsNew(Head(M), s) => t # "none"
  BY <1>1, <1>2, <1>3 DEF SessionInv, ComeInv
<1>5. \A i \in DOMAIN Tail(M) : ~IsNew(Tail(M)[i], s)
  BY <1>1, <1>3
<1>6. \A i \in DOMAIN O : O[i] # Release(s)
  BY <1>1 DEF SessionInv, LeaveInv
<1> QED BY <1>1, <1>2, <1>3, <1>4, <1>5, <1>6

(* It came, or talked: more is to come. *)
LEMMA HearInv ==
    ASSUME NEW s, NEW M \in Seq(NetThreadMsg), M # <<>>, NEW O, NEW d, NEW t, NEW t2,
           SessionInv(s, M, O, d, t), Head(M).sessionID = s, ~IsGoodbye(Head(M), s),
           t2 \in {"new", "talking"}
    PROVE  SessionInv(s, Tail(M), O, d, t2)
<1> DEFINE N == Tail(M)
<1>1. /\ Len(M) \in Nat \ {0} /\ DOMAIN M = 1 .. Len(M)
      /\ Head(M) = M[1] /\ DOMAIN N = 1 .. Len(M) - 1
      /\ \A i \in DOMAIN N : i + 1 \in DOMAIN M /\ N[i] = M[i + 1]
      /\ \A i \in DOMAIN M : i # 1 => i - 1 \in DOMAIN N /\ N[i - 1] = M[i]
  BY TailIndex
<1>2. /\ d.inMap /\ t # "left"
      /\ \A i \in DOMAIN N : ~IsNew(N[i], s)
      /\ \A i \in DOMAIN O : O[i] # Release(s)
  BY HeardFrom
<1> HIDE DEF N
<1>3. LeaveInv(s, N, O, d, t2)
  <2>1. ASSUME NEW i \in DOMAIN N, IsGoodbye(N[i], s)
        PROVE  Gone(d) /\ \A j \in DOMAIN N : N[j].sessionID = s => j <= i
    <3>1. Gone(d) /\ \A j \in DOMAIN M : M[j].sessionID = s => j <= i + 1
      BY <1>1, <2>1 DEF SessionInv, LeaveInv
    <3>2. ASSUME NEW j \in DOMAIN N, N[j].sessionID = s PROVE j <= i
      <4>1. j + 1 <= i + 1
        BY <1>1, <3>1, <3>2
      <4> QED BY <1>1, <4>1
    <3> QED BY <3>1, <3>2
  <2>2. Gone(d) => \E i \in DOMAIN N : IsGoodbye(N[i], s)
    BY <1>1, <1>2 DEF SessionInv, LeaveInv
  <2> QED BY <1>2, <2>1, <2>2 DEF LeaveInv
<1>4. ComeInv(s, N, d, t2)
  BY <1>2 DEF ComeInv
<1> QED BY <1>3, <1>4 DEF SessionInv, N

(* It left: nothing more is to come, and its release is queued. *)
LEMMA HearGoodbyeInv ==
    ASSUME NEW s \in SessionIDs, NEW M \in Seq(NetThreadMsg), M # <<>>,
           NEW O \in Seq(SessionOperation), NEW d, NEW t,
           SessionInv(s, M, O, d, t), IsGoodbye(Head(M), s)
    PROVE  SessionInv(s, Tail(M), Append(O, Release(s)), d, "left")
<1> DEFINE N == Tail(M)
           P == Append(O, Release(s))
<1>1. /\ Len(M) \in Nat \ {0} /\ DOMAIN M = 1 .. Len(M) /\ 1 \in DOMAIN M
      /\ Head(M) = M[1] /\ DOMAIN N = 1 .. Len(M) - 1
      /\ \A i \in DOMAIN N : i + 1 \in DOMAIN M /\ N[i] = M[i + 1]
  BY TailIndex
<1>2. Release(s) \in SessionOperation
  BY OperationTypes DEF Release, OperationType
<1>3. /\ Len(O) \in Nat /\ DOMAIN O = 1 .. Len(O) /\ DOMAIN P = 1 .. Len(O) + 1
      /\ \A i \in DOMAIN O : i \in DOMAIN P /\ P[i] = O[i]
      /\ P[Len(O) + 1] = Release(s)
  BY <1>2, AppendIndex
<1>4. /\ Gone(d)
      /\ \A j \in DOMAIN M : M[j].sessionID = s => j <= 1
      /\ \A i \in DOMAIN O : O[i] # Release(s)
  BY <1>1 DEF SessionInv, LeaveInv
<1>5. \A j \in DOMAIN N : N[j].sessionID # s
  BY <1>1, <1>4
<1>6. \A i \in DOMAIN P : P[i] = Release(s) => i = Len(O) + 1
  BY <1>3, <1>4
<1>7. Len(O) + 1 \in DOMAIN P
  BY <1>3
<1> HIDE DEF N, P
<1>8. LeaveInv(s, N, P, d, "left")
  BY <1>3, <1>4, <1>5, <1>6, <1>7 DEF LeaveInv, IsGoodbye
<1>9. ComeInv(s, N, d, "left")
  BY <1>4, <1>5 DEF ComeInv, IsNew
<1> QED BY <1>8, <1>9 DEF SessionInv, N, P

-----------------------------------------------------------------------------
(* An operation is queued, or taken.                                       *)

LEMMA PushInv ==
    ASSUME NEW s, NEW M, NEW O \in Seq(SessionOperation), NEW d, NEW t,
           NEW op \in SessionOperation, SessionInv(s, M, O, d, t), op # Release(s)
    PROVE  SessionInv(s, M, Append(O, op), d, t)
<1> DEFINE P == Append(O, op)
<1>1. /\ Len(O) \in Nat /\ DOMAIN O = 1 .. Len(O) /\ DOMAIN P = 1 .. Len(O) + 1
      /\ \A i \in DOMAIN O : i \in DOMAIN P /\ P[i] = O[i]
      /\ P[Len(O) + 1] = op
  BY AppendIndex
<1>2. \A i \in DOMAIN P : P[i] = Release(s) => i \in DOMAIN O /\ P[i] = O[i]
  BY <1>1
<1> HIDE DEF P
<1>3. LeaveInv(s, M, P, d, t)
  BY <1>1, <1>2 DEF SessionInv, LeaveInv
<1> QED BY <1>3 DEF SessionInv, P

LEMMA TakeInv ==
    ASSUME NEW s, NEW M, NEW O \in Seq(SessionOperation), O # <<>>, NEW d, NEW t,
           SessionInv(s, M, O, d, t), Head(O) # Release(s)
    PROVE  SessionInv(s, M, Tail(O), d, t)
<1> DEFINE P == Tail(O)
<1>1. /\ Len(O) \in Nat \ {0} /\ DOMAIN O = 1 .. Len(O)
      /\ Head(O) = O[1] /\ DOMAIN P = 1 .. Len(O) - 1
      /\ \A i \in DOMAIN P : i + 1 \in DOMAIN O /\ P[i] = O[i + 1]
      /\ \A i \in DOMAIN O : i # 1 => i - 1 \in DOMAIN P /\ P[i - 1] = O[i]
  BY TailIndex
<1> HIDE DEF P
<1>2. \A i \in DOMAIN M : IsGoodbye(M[i], s) =>
         /\ Gone(d)
         /\ \A j \in DOMAIN M : M[j].sessionID = s => j <= i
         /\ \A j \in DOMAIN P : P[j] # Release(s)
  BY <1>1 DEF SessionInv, LeaveInv
<1>3. ASSUME NEW i \in DOMAIN P, P[i] = Release(s)
      PROVE  /\ Gone(d) /\ t = "left"
             /\ \A j \in DOMAIN M : M[j].sessionID # s
             /\ \A j \in DOMAIN P : P[j] = Release(s) => j = i
  <2>1. /\ Gone(d) /\ t = "left"
        /\ \A j \in DOMAIN M : M[j].sessionID # s
        /\ \A j \in DOMAIN O : O[j] = Release(s) => j = i + 1
    BY <1>1, <1>3 DEF SessionInv, LeaveInv
  <2>2. ASSUME NEW j \in DOMAIN P, P[j] = Release(s) PROVE j = i
    <3>1. j + 1 = i + 1
      BY <1>1, <2>1, <2>2
    <3> QED BY <1>1, <3>1
  <2> QED BY <2>1, <2>2
<1>4. ASSUME Gone(d)
      PROVE  \/ \E i \in DOMAIN M : IsGoodbye(M[i], s)
             \/ \E i \in DOMAIN P : P[i] = Release(s)
  <2>1. CASE \E i \in DOMAIN O : O[i] = Release(s)
    <3>1. \A i \in DOMAIN O : O[i] = Release(s) => i # 1
      BY <1>1
    <3> QED BY <1>1, <2>1, <3>1
  <2> QED BY <1>4, <2>1 DEF SessionInv, LeaveInv
<1>5. LeaveInv(s, M, P, d, t)
  BY <1>2, <1>3, <1>4 DEF SessionInv, LeaveInv
<1> QED BY <1>5 DEF SessionInv, P

(* The release frees a session of which nothing more is said. *)
LEMMA TakeReleaseInv ==
    ASSUME NEW s, NEW M, NEW O \in Seq(SessionOperation), O # <<>>, NEW d, NEW t,
           SessionInv(s, M, O, d, t), Head(O) = Release(s)
    PROVE  Gone(d) /\ SessionInv(s, M, Tail(O), NoEntry, t)
<1> DEFINE P == Tail(O)
<1>1. /\ Len(O) \in Nat \ {0} /\ DOMAIN O = 1 .. Len(O) /\ 1 \in DOMAIN O
      /\ Head(O) = O[1] /\ DOMAIN P = 1 .. Len(O) - 1
      /\ \A i \in DOMAIN P : i + 1 \in DOMAIN O /\ P[i] = O[i + 1]
  BY TailIndex
<1>2. /\ Gone(d) /\ t = "left"
      /\ \A j \in DOMAIN M : M[j].sessionID # s
      /\ \A j \in DOMAIN O : O[j] = Release(s) => j = 1
  BY <1>1 DEF SessionInv, LeaveInv
<1>3. \A j \in DOMAIN P : P[j] # Release(s)
  BY <1>1, <1>2
<1>4. NoEntry.inMap = FALSE /\ ~Gone(NoEntry) /\ SocketInv(NoEntry)
  BY DEF NoEntry, Gone, SocketInv
<1> HIDE DEF P
<1>5. LeaveInv(s, M, P, NoEntry, t)
  BY <1>2, <1>3, <1>4 DEF LeaveInv, IsGoodbye
<1>6. ComeInv(s, M, NoEntry, t)
  BY <1>2, <1>4 DEF ComeInv, IsNew
<1> QED BY <1>2, <1>4, <1>5, <1>6 DEF SessionInv, P

-----------------------------------------------------------------------------
(* Entries.                                                                *)

(* What the loop thread makes of an entry is an entry. *)
LEMMA EntryTypes ==
    ASSUME NEW data \in serverSessionData
    PROVE  /\ SocketDisconnect(data) \in serverSessionData
           /\ ExecuteDisconnect(data) \in serverSessionData
           /\ \A wrote \in BOOLEAN : ExecuteSend(data, wrote) \in serverSessionData
           /\ Closed(data) \in serverSessionData
           /\ NoEntry \in serverSessionData /\ NewEntry \in serverSessionData
<1>1. \A d \in serverSessionData : SocketDisconnect(d) \in serverSessionData
  BY DEF SocketDisconnect, serverSessionData
<1>2. ExecuteDisconnect(data) \in serverSessionData
  <2>1. [data EXCEPT !.isOnline = FALSE] \in serverSessionData
    BY DEF serverSessionData
  <2> QED BY <2>1, <1>1 DEF ExecuteDisconnect
<1>3. \A wrote \in BOOLEAN : ExecuteSend(data, wrote) \in serverSessionData
  BY <1>2 DEF ExecuteSend
<1>4. Closed(data) \in serverSessionData
  BY DEF Closed, OnSocketClose, serverSessionData
<1>5. NoEntry \in serverSessionData /\ NewEntry \in serverSessionData
  BY DEF NoEntry, NewEntry, serverSessionData
<1> QED BY <1>1, <1>2, <1>3, <1>4, <1>5

(* data moves on in its life, but neither into nor out of being gone. *)
Moves(data, data2) ==
    /\ data2 \in serverSessionData
    /\ SocketInv(data2) /\ data2.inMap = data.inMap /\ (Gone(data2) <=> Gone(data))

LEMMA MovesSession ==
    ASSUME NEW s, NEW M, NEW O, NEW d, NEW d2, NEW t, SessionInv(s, M, O, d, t), Moves(d, d2)
    PROVE  SessionInv(s, M, O, d2, t)
  BY SilentInv DEF Moves

LEMMA NoEntryFields ==
    /\ NoEntry.inMap = FALSE /\ NoEntry.isOnline = FALSE /\ NoEntry.tcp = "null"
    /\ NoEntry.closing = FALSE
  BY DEF NoEntry

LEMMA DisconnectMoves ==
    ASSUME NEW data \in serverSessionData, SocketInv(data)
    PROVE  /\ Moves(data, ExecuteDisconnect(data))
           /\ \A wrote \in BOOLEAN : Moves(data, ExecuteSend(data, wrote))
           /\ data.tcp = "open" => Moves(data, SocketDisconnect(data))
<1> USE NoEntryFields
<1>1. Moves(data, data)
  BY DEF Moves
<1>2. ASSUME data.tcp = "open" PROVE Moves(data, SocketDisconnect(data))
  <2>1. SocketDisconnect(data) = [data EXCEPT !.tcp = "null", !.closing = TRUE]
    BY <1>2 DEF SocketDisconnect, serverSessionData
  <2>2. data.inMap /\ ~data.isInvalid
    BY <1>2 DEF SocketInv, Gone
  <2> QED BY <2>1, <2>2 DEF SocketInv, Gone, Moves, serverSessionData
<1>3. ASSUME data.isOnline PROVE Moves(data, ExecuteDisconnect(data))
  <2>1. data.inMap /\ ~data.isInvalid /\ (data.tcp = "open" \/ data.closing)
    BY <1>3 DEF SocketInv, Gone
  <2>2. ExecuteDisconnect(data) =
           [data EXCEPT !.isOnline = FALSE, !.tcp = "null", !.closing = TRUE]
    BY <1>3, <2>1 DEF ExecuteDisconnect, SocketDisconnect, serverSessionData
  <2> QED BY <2>1, <2>2 DEF SocketInv, Gone, Moves, serverSessionData
<1>4. Moves(data, ExecuteDisconnect(data))
  BY <1>1, <1>3 DEF ExecuteDisconnect
<1>5. \A wrote \in BOOLEAN : Moves(data, ExecuteSend(data, wrote))
  BY <1>1, <1>4 DEF ExecuteSend
<1> QED BY <1>2, <1>4, <1>5

(* The callback of uv_close is the end of the socket. *)
LEMMA CloseEnds ==
    ASSUME NEW data \in serverSessionData, SocketInv(data), data.closing
    PROVE  data.inMap /\ ~Gone(data) /\ Gone(Closed(data))
<1>1. data.inMap /\ data.tcp = "null" /\ ~Gone(data)
  BY NoEntryFields DEF SocketInv, Gone
<1>2. Closed(data) = [data EXCEPT !.closing = FALSE, !.isOnline = FALSE, !.isInvalid = TRUE]
  BY DEF Closed, OnSocketClose, serverSessionData
<1> QED BY <1>1, <1>2 DEF Gone, serverSessionData

-----------------------------------------------------------------------------
(* Type correctness.                                                       *)

LEMMA InitType == Init => TypeOK
<1> SUFFICES ASSUME Init PROVE TypeOK
  OBVIOUS
<1>1. NoEntry \in serverSessionData
  BY DEF NoEntry, serverSessionData
<1>2. <<>> \in Seq(NetThreadMsg) /\ <<>> \in Seq(SessionOperation)
  BY EmptySeq
<1>3. m_sessionID \in 0 .. MaxSessions
  BY BoundsAssumption DEF Init
<1> QED BY <1>1, <1>2, <1>3 DEF Init, TypeOK, ServerStage

LEMMA PushOperationType ==
    ASSUME TypeOK, NEW op \in SessionOperation, PushOperation(op)
    PROVE  m_operationQue' \in Seq(SessionOperation)
  BY AppendProperties DEF TypeOK, PushOperation

LEMMA ApiCallType == TypeOK /\ ApiCall => TypeOK'
<1> SUFFICES ASSUME TypeOK, ApiCall PROVE TypeOK'
  OBVIOUS
<1>1. CASE StartServer
  BY <1>1 DEF StartServer, TypeOK, ServerStage
<1>2. CASE StopServer
  <2>1. m_operationQue' \in Seq(SessionOperation)
    BY <1>2, PushOperationType, StopServerType DEF StopServer
  <2> QED BY <1>2, <2>1 DEF StopServer, TypeOK, loopVars
<1>3. CASE Delete
  <2>1. m_operationQue' \in Seq(SessionOperation)
    BY <1>3, PushOperationType, StopServerType DEF Delete, TypeOK
  <2> QED BY <1>3, <2>1 DEF Delete, TypeOK, loopVars
<1>4. ASSUME NEW s \in SessionIDs, Send(s) PROVE TypeOK'
  <2>1. m_operationQue' \in Seq(SessionOperation)
    BY <1>4, PushOperationType, OperationTypes DEF Send, OperationType
  <2> QED BY <1>4, <2>1 DEF Send, TypeOK, appVars, loopVars
<1>5. ASSUME NEW s \in SessionIDs, Disconnect(s) PROVE TypeOK'
  <2>1. m_operationQue' \in Seq(SessionOperation)
    BY <1>5, PushOperationType, OperationTypes DEF Disconnect, OperationType
  <2> QED BY <1>5, <2>1 DEF Disconnect, TypeOK, appVars, loopVars
<1> QED BY <1>1, <1>2, <1>3, <1>4, <1>5 DEF ApiCall

LEMMA UpdateFrameType == TypeOK /\ (UpdateFrame \/ DeleteReturns) => TypeOK'
<1> SUFFICES ASSUME TypeOK, UpdateFrame \/ DeleteReturns PROVE TypeOK'
  OBVIOUS
<1>1. <<>> \in Seq(NetThreadMsg) /\ <<>> \in Seq(SessionOperation)
  BY EmptySeq
<1>2. CASE GetThreadMsg
  BY <1>1, <1>2 DEF GetThreadMsg, TypeOK, loopVars
<1>3. CASE DispatchMsg
  <2> DEFINE m == Head(m_msgDispatchQue)
  <2>1. m \in NetThreadMsg /\ Tail(m_msgDispatchQue) \in Seq(NetThreadMsg)
    BY <1>3, HeadTailProperties DEF DispatchMsg, TypeOK
  <2>2. m.type # "EXIT_LOOP" => m.sessionID \in SessionIDs
    BY <2>1 DEF NetThreadMsg
  <2>3. m_operationQue' \in Seq(SessionOperation)
    <3>1. CASE m.type = "DIS_CONNECT"
      BY <1>3, <2>2, <3>1, PushOperationType, OperationTypes DEF DispatchMsg, Release, OperationType
    <3> QED BY <1>3, <3>1 DEF DispatchMsg, TypeOK
  <2>4. told' \in [SessionIDs -> {"none", "new", "talking", "left"}]
    BY <1>3, <2>1, <2>2 DEF DispatchMsg, TypeOK, Told, NetThreadMsg, NetThreadMsgType
  <2>5. closeServerTag' \in BOOLEAN
    BY <1>3 DEF DispatchMsg, TypeOK
  <2> QED BY <1>3, <2>1, <2>3, <2>4, <2>5 DEF DispatchMsg, TypeOK, loopVars
<1>4. CASE CloseCall
  BY <1>4 DEF CloseCall, TypeOK, loopVars
<1>5. CASE DeleteReturns
  BY <1>1, <1>5 DEF DeleteReturns, TypeOK, loopVars
<1> QED BY <1>2, <1>3, <1>4, <1>5 DEF UpdateFrame

LEMMA ExecutingType ==
    ASSUME TypeOK, NEW type, Executing(type)
    PROVE  /\ curOperation \in SessionOperation
           /\ m_operationDispatchQue' \in Seq(SessionOperation)
           /\ type # "STOP_SERVER" =>
                 curOperation.sessionID \in SessionIDs /\ Target \in serverSessionData
<1>1. curOperation \in SessionOperation /\ m_operationDispatchQue' \in Seq(SessionOperation)
  BY HeadTailProperties DEF TypeOK, Executing, curOperation
<1>2. type # "STOP_SERVER" => curOperation.sessionID \in SessionIDs
  BY <1>1 DEF Executing, SessionOperation
<1> QED BY <1>1, <1>2 DEF Target, TypeOK

LEMMA ExecutedType ==
    ASSUME TypeOK, NEW type, Executing(type), NEW data \in serverSessionData, Executed(data)
    PROVE  TypeOK'
<1>1. m_allSession' \in [SessionIDs -> serverSessionData]
  BY DEF Executed, TypeOK
<1> QED BY <1>1, ExecutingType DEF TypeOK, Executing, Executed, appVars

LEMMA DisconnectAllType ==
    ASSUME TypeOK, DisconnectAll
    PROVE  m_allSession' \in [SessionIDs -> serverSessionData]
  BY EntryTypes DEF DisconnectAll, TypeOK

LEMMA OnIdleRunType == TypeOK /\ OnIdleRun => TypeOK'
<1> SUFFICES ASSUME TypeOK, OnIdleRun PROVE TypeOK'
  OBVIOUS
<1>1. CASE TakeOperations
  BY <1>1, EmptySeq DEF TakeOperations, TypeOK, appVars
<1>2. CASE ExecuteSendData
  <2>1. PICK wrote \in BOOLEAN : Executed(ExecuteSend(Target, wrote))
    BY <1>2 DEF ExecuteSendData
  <2>2. Executing("SEND_DATA") /\ Target \in serverSessionData
    BY <1>2, ExecutingType DEF ExecuteSendData
  <2> QED BY <2>1, <2>2, EntryTypes, ExecutedType
<1>3. CASE ExecuteDisSession
  <2>1. Executing("DIS_SESSION") /\ Target \in serverSessionData
    BY <1>3, ExecutingType DEF ExecuteDisSession
  <2> QED BY <1>3, <2>1, EntryTypes, ExecutedType DEF ExecuteDisSession
<1>4. CASE ExecuteRelease
  <2>1. /\ Executing("SEND_DIS_SESSION_MSG_TO_MAIN_THREAD") /\ Executed(NoEntry)
        /\ Target \in serverSessionData
    BY <1>4, ExecutingType DEF ExecuteRelease, Released
  <2> QED BY <2>1, EntryTypes, ExecutedType
<1>5. CASE ExecuteStopServer
  <2>1. Executing("STOP_SERVER") /\ m_allSession' \in [SessionIDs -> serverSessionData]
    BY <1>5, DisconnectAllType DEF ExecuteStopServer
  <2> QED BY <1>5, <2>1, ExecutingType
         DEF ExecuteStopServer, Executing, TypeOK, ServerStage, appVars
<1>6. CASE IdleRun
  BY <1>6 DEF IdleRun, IdleEnd, TypeOK, appVars
<1>7. CASE IdleClear
  BY <1>7, DisconnectAllType DEF IdleClear, IdleEnd, TypeOK, ServerStage, appVars
<1>8. CASE IdleWaitSessionClose
  BY <1>8 DEF IdleWaitSessionClose, IdleEnd, TypeOK, appVars
<1> QED BY <1>1, <1>2, <1>3, <1>4, <1>5, <1>6, <1>7, <1>8 DEF OnIdleRun

LEMMA CallbackType ==
    ASSUME TypeOK, NEW s \in SessionIDs, NEW data \in serverSessionData,
           NEW msgs \in Seq(NetThreadMsg), Callback(s, data, msgs),
           m_sessionID' \in 0 .. MaxSessions
    PROVE  TypeOK'
<1>1. m_allSession' \in [SessionIDs -> serverSessionData]
  BY DEF Callback, TypeOK
<1>2. m_msgQue' \in Seq(NetThreadMsg)
  BY ConcatProperties DEF Callback, TypeOK
<1> QED BY <1>1, <1>2 DEF TypeOK, Callback, appVars

LEMMA OneMessage ==
    ASSUME NEW s \in SessionIDs, NEW type \in NetThreadMsgType \ {"EXIT_LOOP"}
    PROVE  <<Msg(type, s)>> \in Seq(NetThreadMsg)
  BY MessageTypes

LEMMA NewcomerType ==
    ASSUME TypeOK, OnNewConnect
    PROVE  m_sessionID \in SessionIDs /\ m_sessionID' \in 0 .. MaxSessions
  BY BoundsAssumption DEF TypeOK, OnNewConnect, SessionIDs

LEMMA CallbacksType ==
    ASSUME TypeOK, \/ Peer \/ OnServerSocketClose \/ Run
                   \/ \E s \in SessionIDs : OnSessionClose(s)
    PROVE  TypeOK'
<1> USE EmptySeq
<1>1. CASE OnNewConnect
  <2>1. m_sessionID \in SessionIDs /\ m_sessionID' \in 0 .. MaxSessions
    BY <1>1, NewcomerType
  <2>2. NewEntry \in serverSessionData
    BY DEF NewEntry, NoEntry, serverSessionData
  <2> QED BY <1>1, <2>1, <2>2, OneMessage, CallbackType DEF OnNewConnect, NetThreadMsgType
<1>2. ASSUME NEW s \in SessionIDs, OnSessionRecvData(s) PROVE TypeOK'
  BY <1>2, OneMessage, CallbackType DEF OnSessionRecvData, NetThreadMsgType, TypeOK
<1>3. ASSUME NEW s \in SessionIDs, OnIllegalData(s) PROVE TypeOK'
  BY <1>3, EntryTypes, CallbackType DEF OnIllegalData, TypeOK
<1>4. ASSUME NEW s \in SessionIDs, OnIllegalHeart(s) PROVE TypeOK'
  <2>1. m_operationQue' \in Seq(SessionOperation)
    BY <1>4, PushOperationType, OperationTypes DEF OnIllegalHeart, OperationType
  <2> QED BY <1>4, <2>1 DEF OnIllegalHeart, TypeOK, appVars, loopVars
<1>5. ASSUME NEW s \in SessionIDs, HeartbeatLost(s) PROVE TypeOK'
  BY <1>5, EntryTypes, CallbackType DEF HeartbeatLost, TypeOK
<1>6. ASSUME NEW s \in SessionIDs, OnEof(s) PROVE TypeOK'
  BY <1>6, EntryTypes, CallbackType DEF OnEof, TypeOK
<1>7. ASSUME NEW s \in SessionIDs, OnSessionClose(s) PROVE TypeOK'
  BY <1>7, EntryTypes, OneMessage, CallbackType
     DEF OnSessionClose, CloseMsgs, NetThreadMsgType, TypeOK
<1>8. CASE OnServerSocketClose
  BY <1>8 DEF OnServerSocketClose, TypeOK, ServerStage, appVars
<1>9. CASE RunReturns
  BY <1>9 DEF RunReturns, TypeOK, ServerStage, appVars
<1>10. CASE PushExitLoop
  BY <1>10, ExitLoopType, AppendProperties DEF PushExitLoop, TypeOK, appVars
<1> QED BY <1>1, <1>2, <1>3, <1>4, <1>5, <1>6, <1>7, <1>8, <1>9, <1>10 DEF Peer, Run

LEMMA TypeStep == TypeOK /\ [Next]_vars => TypeOK'
<1> SUFFICES ASSUME TypeOK, [Next]_vars PROVE TypeOK'
  OBVIOUS
<1>1. CASE UNCHANGED vars
  BY <1>1 DEF vars, appVars, loopVars, TypeOK
<1>2. CASE Next
  BY <1>1, <1>2, ApiCallType, UpdateFrameType, OnIdleRunType, CallbacksType DEF Next, Finished
<1> QED BY <1>1, <1>2

(* The server's state has its types in every reachable state, for every    *)
(* bound: in particular only EXIT_LOOP and STOP_SERVER name no session.    *)
THEOREM TypeCorrect == Spec => []TypeOK
<1> QED BY InitType, TypeStep, PTL DEF Spec

-----------------------------------------------------------------------------
(* What keeps StageInv and ExitInv.                                        *)

LEMMA StopTail ==
    ASSUME NEW O \in Seq(SessionOperation), O # <<>>, NEW start, NEW stage,
           StopInv(O, start, stage)
    PROVE  /\ StopInv(Tail(O), start, stage)
           /\ Head(O).type = "STOP_SERVER" =>
                 /\ ~start /\ stage = "RUN"
                 /\ \A i \in DOMAIN Tail(O) : Tail(O)[i].type # "STOP_SERVER"
<1>1. /\ Len(O) \in Nat \ {0} /\ DOMAIN O = 1 .. Len(O) /\ 1 \in DOMAIN O
      /\ Head(O) = O[1] /\ DOMAIN Tail(O) = 1 .. Len(O) - 1
      /\ \A i \in DOMAIN Tail(O) : i + 1 \in DOMAIN O /\ Tail(O)[i] = O[i + 1]
  BY TailIndex
<1>2. ASSUME NEW i \in DOMAIN Tail(O), Tail(O)[i].type = "STOP_SERVER"
      PROVE  ~start /\ stage = "RUN" /\ \A j \in DOMAIN Tail(O) : Tail(O)[j].type = "STOP_SERVER" => j = i
  <2>1. ~start /\ stage = "RUN" /\ \A j \in DOMAIN O : O[j].type = "STOP_SERVER" => j = i + 1
    BY <1>1, <1>2 DEF StopInv
  <2>2. ASSUME NEW j \in DOMAIN Tail(O), Tail(O)[j].type = "STOP_SERVER" PROVE j = i
    <3>1. j + 1 = i + 1
      BY <1>1, <2>1, <2>2
    <3> QED BY <1>1, <3>1
  <2> QED BY <2>1, <2>2
<1>3. ASSUME O[1].type = "STOP_SERVER"
      PROVE  /\ ~start /\ stage = "RUN"
             /\ \A i \in DOMAIN Tail(O) : Tail(O)[i].type # "STOP_SERVER"
  <2>1. ~start /\ stage = "RUN" /\ \A j \in DOMAIN O : O[j].type = "STOP_SERVER" => j = 1
    BY <1>1, <1>3 DEF StopInv
  <2> QED BY <1>1, <2>1
<1> QED BY <1>1, <1>2, <1>3 DEF StopInv

LEMMA StopPush ==
    ASSUME NEW O \in Seq(SessionOperation), NEW op \in SessionOperation, NEW start, NEW start2,
           NEW stage, StopInv(O, start, stage), start2 => start,
           op.type = "STOP_SERVER" => start /\ ~start2
    PROVE  StopInv(Append(O, op), start2, stage)
<1> DEFINE P == Append(O, op)
<1>1. /\ Len(O) \in Nat /\ DOMAIN O = 1 .. Len(O) /\ DOMAIN P = 1 .. Len(O) + 1
      /\ \A i \in DOMAIN O : i \in DOMAIN P /\ P[i] = O[i]
      /\ P[Len(O) + 1] = op
  BY AppendIndex
<1>2. \A i \in DOMAIN P : (i \in DOMAIN O /\ P[i] = O[i]) \/ (i = Len(O) + 1 /\ P[i] = op)
  BY <1>1
<1> HIDE DEF P
<1>3. CASE op.type = "STOP_SERVER"
  <2>1. \A i \in DOMAIN O : O[i].type # "STOP_SERVER"
    BY <1>3 DEF StopInv
  <2>2. \A i \in DOMAIN P : P[i].type = "STOP_SERVER" => i = Len(O) + 1
    BY <1>2, <2>1
  <2>3. StopInv(P, start2, stage)
    BY <1>3, <2>2 DEF StopInv
  <2> QED BY <2>3 DEF P
<1>4. CASE op.type # "STOP_SERVER"
  <2>1. \A i \in DOMAIN P : P[i].type = "STOP_SERVER" => i \in DOMAIN O /\ P[i] = O[i]
    BY <1>2, <1>4
  <2>2. StopInv(P, start2, stage)
    BY <2>1 DEF StopInv
  <2> QED BY <2>2 DEF P
<1> QED BY <1>3, <1>4

LEMMA StageKeeps ==
    ASSUME StageInv, UNCHANGED <<m_serverStage, loop, m_server, app>>,
           StopInv(Operations', m_start', m_serverStage), m_start' => m_start,
           m_start \in BOOLEAN, m_start' \in BOOLEAN,
           loop # "running" => UNCHANGED <<idleRun, m_allSession>>,
           ~idleRun' => m_operationDispatchQue' = <<>>,
           app # "polling" => m_msgDispatchQue' = <<>>
    PROVE  StageInv'
  BY DEF StageInv, InMap

LEMMA BeforeExit ==
    ASSUME ExitInv, loop # "exited"
    PROVE  /\ \A i \in DOMAIN Messages : Messages[i].type # "EXIT_LOOP"
           /\ ~closeServerTag /\ ~closed
  BY DEF ExitInv

LEMMA ExitKeeps ==
    ASSUME TypeOK, ExitInv, loop # "exited", UNCHANGED <<closeServerTag, closed>>,
           \/ Messages' = Messages
           \/ \E m \in NetThreadMsg :
                 m.type # "EXIT_LOOP" /\ Messages' = Append(Messages, m)
    PROVE  ExitInv'
<1>1. /\ \A i \in DOMAIN Messages : Messages[i].type # "EXIT_LOOP"
      /\ ~closeServerTag' /\ ~closed'
  BY BeforeExit
<1>2. CASE Messages' = Messages
  BY <1>1, <1>2 DEF ExitInv
<1>3. ASSUME NEW m \in NetThreadMsg, m.type # "EXIT_LOOP", Messages' = Append(Messages, m)
      PROVE  ExitInv'
  <2>1. /\ Len(Messages) \in Nat /\ DOMAIN Messages = 1 .. Len(Messages)
        /\ DOMAIN Messages' = 1 .. Len(Messages) + 1
        /\ \A i \in DOMAIN Messages : Messages'[i] = Messages[i]
        /\ Messages'[Len(Messages) + 1] = m
    BY <1>3, StreamTypes, AppendIndex
  <2>2. \A i \in DOMAIN Messages' : i \in DOMAIN Messages \/ i = Len(Messages) + 1
    BY <2>1
  <2>3. m.type # "EXIT_LOOP"
    BY <1>3
  <2>4. \A i \in DOMAIN Messages' : Messages'[i].type # "EXIT_LOOP"
    BY <1>1, <2>1, <2>2, <2>3
  <2> QED BY <1>1, <2>4 DEF ExitInv
<1> QED BY <1>2, <1>3

-----------------------------------------------------------------------------
(* The application's thread.                                               *)

LEMMA InitInv == Init => ServerInv
<1> SUFFICES ASSUME Init PROVE ServerInv
  OBVIOUS
<1>1. TypeOK
  BY InitType
<1>2. Messages = <<>> /\ Operations = <<>>
  BY DEF Init, Messages, Operations
<1>3. DOMAIN Messages = {} /\ DOMAIN Operations = {}
  BY <1>2
<1>4. ASSUME NEW s \in SessionIDs
      PROVE  SessionInv(s, Messages, Operations, m_allSession[s], told[s])
  <2>1. m_allSession[s] = NoEntry /\ told[s] = "none"
    BY DEF Init
  <2> QED BY <1>3, <2>1, NoEntryFields DEF SessionInv, SocketInv, LeaveInv, ComeInv, Gone
<1>5. FreshInv
  BY DEF FreshInv, Init
<1>6. StageInv
  BY <1>3 DEF StageInv, StopInv, Init
<1>7. ExitInv
  BY <1>3 DEF ExitInv, Init
<1> QED BY <1>1, <1>4, <1>5, <1>6, <1>7 DEF ServerInv

(* An operation that is no release is queued. *)
LEMMA PushStepInv ==
    ASSUME ServerInv, TypeOK', NEW op \in SessionOperation, PushOperation(op),
           op.type # "SEND_DIS_SESSION_MSG_TO_MAIN_THREAD",
           UNCHANGED <<m_msgDispatchQue, m_msgQue, closeServerTag, told, closed, loopVars>>,
           m_start' => m_start, op.type = "STOP_SERVER" => m_start /\ ~m_start',
           app' = app \/ (app' = "joining" /\ m_msgDispatchQue = <<>> /\ ~m_start' /\ app # "idle")
    PROVE  ServerInv'
<1>1. Messages \in Seq(NetThreadMsg) /\ Operations \in Seq(SessionOperation)
  BY StreamTypes DEF ServerInv
<1>2. Messages' = Messages /\ Operations' = Append(Operations, op)
  BY ConcatAppend DEF ServerInv, TypeOK, Messages, Operations, PushOperation, loopVars
<1>3. ASSUME NEW s \in SessionIDs
      PROVE  SessionInv(s, Messages', Operations', m_allSession'[s], told'[s])
  <2>1. op # Release(s)
    BY IsRelease
  <2>2. SessionInv(s, Messages, Append(Operations, op), m_allSession[s], told[s])
    BY <1>1, <2>1, PushInv DEF ServerInv
  <2> QED BY <1>2, <2>2 DEF loopVars
<1>4. StopInv(Operations', m_start', m_serverStage)
  <2>1. StopInv(Operations, m_start, m_serverStage)
    BY DEF ServerInv, StageInv
  <2> QED BY <1>1, <1>2, <2>1, StopPush
<1>5. StageInv'
  BY <1>4 DEF ServerInv, TypeOK, StageInv, InMap, loopVars
<1>6. FreshInv' /\ ExitInv'
  BY <1>2 DEF ServerInv, FreshInv, ExitInv, loopVars
<1> QED BY <1>3, <1>5, <1>6 DEF ServerInv

LEMMA ApiCallInv ==
    ASSUME ServerInv, TypeOK', ApiCall
    PROVE  ServerInv'
<1>1. CASE StartServer
  <2>1. Messages' = Messages /\ Operations' = Operations
    BY <1>1 DEF StartServer, Messages, Operations
  <2>2. \A s \in SessionIDs : SessionInv(s, Messages', Operations', m_allSession'[s], told'[s])
    BY <1>1, <2>1 DEF ServerInv, StartServer
  <2>3. loop = "none"
    BY <1>1 DEF ServerInv, StageInv, StartServer
  <2>4. StopInv(Operations', m_start', m_serverStage')
    BY <1>1, <2>1 DEF ServerInv, StageInv, StopInv, StartServer
  <2>5. StageInv'
    BY <1>1, <2>3, <2>4 DEF ServerInv, StageInv, StartServer
  <2>6. FreshInv' /\ ExitInv'
    BY <1>1, <2>1, <2>3, ExitKeeps DEF ServerInv, FreshInv, StartServer
  <2> QED BY <2>2, <2>5, <2>6 DEF ServerInv
<1>2. CASE StopServer
  <2>1. /\ Op("STOP_SERVER", NoSession) \in SessionOperation
        /\ Op("STOP_SERVER", NoSession).type = "STOP_SERVER"
    BY StopServerType
  <2> QED BY <1>2, <2>1, PushStepInv DEF StopServer
<1>3. CASE Delete
  <2>1. /\ Op("STOP_SERVER", NoSession) \in SessionOperation
        /\ Op("STOP_SERVER", NoSession).type = "STOP_SERVER"
    BY StopServerType
  <2>2. CASE m_start
    BY <1>3, <2>1, <2>2, PushStepInv DEF Delete
  <2>3. CASE ~m_start
    <3>1. Messages' = Messages /\ Operations' = Operations
      BY <1>3, <2>3 DEF Delete, Messages, Operations, loopVars
    <3>2. /\ \A s \in SessionIDs :
                SessionInv(s, Messages', Operations', m_allSession'[s], told'[s])
          /\ FreshInv' /\ ExitInv'
      BY <1>3, <3>1 DEF ServerInv, FreshInv, ExitInv, Delete, loopVars
    <3>3. StopInv(Operations', m_start', m_serverStage')
      BY <1>3, <2>3, <3>1 DEF ServerInv, StageInv, StopInv, Delete, loopVars
    <3>4. StageInv'
      BY <1>3, <2>3, <3>3 DEF ServerInv, StageInv, InMap, Delete, loopVars
    <3> QED BY <3>2, <3>4 DEF ServerInv
  <2> QED BY <2>2, <2>3
<1>4. ASSUME NEW s \in SessionIDs, Send(s) PROVE ServerInv'
  <2>1. Op("SEND_DATA", s) \in SessionOperation /\ Op("SEND_DATA", s).type = "SEND_DATA"
    BY OperationTypes DEF OperationType
  <2> QED BY <1>4, <2>1, PushStepInv DEF Send, appVars
<1>5. ASSUME NEW s \in SessionIDs, Disconnect(s) PROVE ServerInv'
  <2>1. Op("DIS_SESSION", s) \in SessionOperation /\ Op("DIS_SESSION", s).type = "DIS_SESSION"
    BY OperationTypes DEF OperationType
  <2> QED BY <1>5, <2>1, PushStepInv DEF Disconnect, appVars
<1> QED BY <1>1, <1>2, <1>3, <1>4, <1>5 DEF ApiCall

(* Taking a batch changes neither stream. *)
LEMMA BatchInv ==
    ASSUME ServerInv, TypeOK', GetThreadMsg \/ TakeOperations
    PROVE  ServerInv'
<1>1. CASE GetThreadMsg
  <2>1. Messages' = Messages /\ Operations' = Operations
    BY <1>1, ConcatEmptySeq DEF ServerInv, TypeOK, GetThreadMsg, Messages, Operations, loopVars
  <2>2. /\ \A s \in SessionIDs : SessionInv(s, Messages', Operations', m_allSession'[s], told'[s])
        /\ FreshInv' /\ ExitInv'
    BY <1>1, <2>1 DEF ServerInv, FreshInv, ExitInv, GetThreadMsg, loopVars
  <2>3. StageInv'
    BY <1>1, <2>1, StageKeeps DEF ServerInv, TypeOK, StageInv, GetThreadMsg, loopVars
  <2> QED BY <2>2, <2>3 DEF ServerInv
<1>2. CASE TakeOperations
  <2>1. m_operationDispatchQue = <<>>
    BY <1>2 DEF ServerInv, StageInv, TakeOperations, LoopFree
  <2>2. Messages' = Messages /\ Operations' = Operations
    BY <1>2, <2>1, ConcatEmptySeq
       DEF ServerInv, TypeOK, TakeOperations, Messages, Operations, appVars
  <2>3. /\ \A s \in SessionIDs : SessionInv(s, Messages', Operations', m_allSession'[s], told'[s])
        /\ FreshInv' /\ ExitInv'
    BY <1>2, <2>2 DEF ServerInv, FreshInv, ExitInv, TakeOperations, appVars
  <2>4. StageInv'
    BY <1>2, <2>2, StageKeeps DEF ServerInv, TypeOK, StageInv, TakeOperations, LoopFree, appVars
  <2> QED BY <2>3, <2>4 DEF ServerInv
<1> QED BY <1>1, <1>2

(* The streams after a message was taken. *)
LEMMA DispatchStreams ==
    ASSUME TypeOK, DispatchMsg
    PROVE  /\ Messages # <<>> /\ Head(Messages) = Head(m_msgDispatchQue)
           /\ Head(Messages) \in NetThreadMsg /\ Messages' = Tail(Messages)
           /\ Head(Messages).type # "EXIT_LOOP" => Head(Messages).sessionID \in SessionIDs
           /\ Operations' = IF Head(Messages).type = "DIS_CONNECT"
                            THEN Append(Operations, Release(Head(Messages).sessionID))
                            ELSE Operations
<1>1. /\ m_msgDispatchQue \in Seq(NetThreadMsg) /\ m_msgQue \in Seq(NetThreadMsg)
      /\ m_msgDispatchQue # <<>>
      /\ m_operationDispatchQue \in Seq(SessionOperation) /\ m_operationQue \in Seq(SessionOperation)
  BY DEF TypeOK, DispatchMsg
<1>2. /\ Messages # <<>> /\ Head(Messages) = Head(m_msgDispatchQue)
      /\ Tail(Messages) = Tail(m_msgDispatchQue) \o m_msgQue
  BY <1>1, HeadTailConcat DEF Messages
<1>3. Messages' = Tail(Messages)
  BY <1>2 DEF DispatchMsg, Messages, loopVars
<1>4. Head(Messages) \in NetThreadMsg
  BY <1>1, <1>2, HeadTailProperties
<1>5. Head(Messages).type # "EXIT_LOOP" => Head(Messages).sessionID \in SessionIDs
  BY <1>4 DEF NetThreadMsg
<1>6. CASE Head(Messages).type = "DIS_CONNECT"
  <2>1. Release(Head(Messages).sessionID) \in SessionOperation
    BY <1>5, <1>6, OperationTypes DEF Release, OperationType
  <2>2. m_operationQue' = Append(m_operationQue, Release(Head(Messages).sessionID))
    BY <1>2, <1>6 DEF DispatchMsg, PushOperation
  <2>3. Operations' = Append(Operations, Release(Head(Messages).sessionID))
    BY <1>1, <2>1, <2>2, ConcatAppend DEF Operations, DispatchMsg, loopVars
  <2> QED BY <1>2, <1>3, <1>4, <1>5, <1>6, <2>3
<1>7. CASE Head(Messages).type # "DIS_CONNECT"
  BY <1>2, <1>3, <1>4, <1>5, <1>7 DEF DispatchMsg, Operations, loopVars
<1> QED BY <1>6, <1>7

LEMMA DispatchExit ==
    ASSUME ServerInv, DispatchMsg
    PROVE  ExitInv'
<1> DEFINE M == Messages
           N == Tail(Messages)
<1>1. /\ M # <<>> /\ Messages' = N /\ Head(M) = Head(m_msgDispatchQue) /\ M \in Seq(NetThreadMsg)
  BY DispatchStreams, StreamTypes DEF ServerInv
<1>2. /\ Len(M) \in Nat \ {0} /\ DOMAIN M = 1 .. Len(M) /\ 1 \in DOMAIN M
      /\ Head(M) = M[1] /\ DOMAIN N = 1 .. Len(M) - 1 /\ N \in Seq(NetThreadMsg)
      /\ \A i \in DOMAIN N : i + 1 \in DOMAIN M /\ N[i] = M[i + 1]
  BY <1>1, TailIndex
<1>3. Len(N) = Len(M) - 1
  BY <1>1, HeadTailProperties
<1>4. \A i \in DOMAIN M : M[i].type = "EXIT_LOOP" => i = Len(M) /\ loop = "exited"
  BY DEF ServerInv, ExitInv
<1>5. ~closeServerTag /\ ~closed
  BY <1>1 DEF ServerInv, ExitInv
<1>6. loop' = loop /\ closed' = closed
  BY DEF DispatchMsg, loopVars
<1> HIDE DEF M, N
<1>7. \A i \in DOMAIN N : N[i].type = "EXIT_LOOP" => i = Len(N) /\ loop' = "exited"
  BY <1>2, <1>3, <1>4, <1>6
<1>8. ASSUME closeServerTag' PROVE N = <<>> /\ loop' = "exited"
  <2>1. Head(M).type = "EXIT_LOOP"
    BY <1>1, <1>5, <1>8 DEF DispatchMsg
  <2>2. 1 = Len(M) /\ loop = "exited"
    BY <1>2, <1>4, <2>1
  <2>3. Len(M) - 1 = 0
    BY <2>2
  <2>4. N = <<>>
    BY <1>2, <1>3, <2>3, EmptySeq
  <2> QED BY <1>6, <2>2, <2>4
<1> QED BY <1>1, <1>5, <1>6, <1>7, <1>8 DEF ExitInv

LEMMA DispatchSessions ==
    ASSUME ServerInv, DispatchMsg, NEW s \in SessionIDs
    PROVE  /\ SessionInv(s, Messages', Operations', m_allSession'[s], told'[s])
           /\ told'[s] # told[s] => m_allSession[s].inMap
<1> DEFINE m == Head(Messages)
<1>1. /\ Messages # <<>> /\ m = Head(m_msgDispatchQue) /\ m \in NetThreadMsg
      /\ Messages' = Tail(Messages)
      /\ m.type # "EXIT_LOOP" => m.sessionID \in SessionIDs
      /\ Operations' = IF m.type = "DIS_CONNECT" THEN Append(Operations, Release(m.sessionID))
                       ELSE Operations
  BY DispatchStreams DEF ServerInv
<1>2. Messages \in Seq(NetThreadMsg) /\ Operations \in Seq(SessionOperation)
  BY StreamTypes DEF ServerInv
<1>3. /\ SessionInv(s, Messages, Operations, m_allSession[s], told[s])
      /\ m_allSession' = m_allSession /\ told \in [SessionIDs -> {"none", "new", "talking", "left"}]
  BY DEF ServerInv, TypeOK, DispatchMsg, loopVars
<1>4. told' = IF m.type = "EXIT_LOOP" THEN told ELSE [told EXCEPT ![m.sessionID] = Told(m.type)]
  BY <1>1 DEF DispatchMsg
<1> HIDE DEF m
<1>5. CASE m.sessionID # s
  <2>1. told'[s] = told[s]
    BY <1>1, <1>3, <1>4, <1>5
  <2>2. SessionInv(s, Tail(Messages), Operations, m_allSession[s], told[s])
    BY <1>1, <1>2, <1>3, <1>5, HearOtherInv DEF m
  <2>3. CASE m.type = "DIS_CONNECT"
    <3>1. Release(m.sessionID) \in SessionOperation /\ Release(m.sessionID) # Release(s)
      BY <1>1, <1>5, <2>3, OperationTypes DEF Release, OperationType
    <3>2. SessionInv(s, Tail(Messages), Append(Operations, Release(m.sessionID)),
                     m_allSession[s], told[s])
      BY <1>2, <2>2, <3>1, PushInv
    <3> QED BY <1>1, <1>3, <2>1, <2>3, <3>2
  <2> QED BY <1>1, <1>3, <2>1, <2>2, <2>3
<1>6. CASE m.sessionID = s
  <2>1. m.type \in {"NEW_CONNECT", "RECV_DATA", "DIS_CONNECT"}
    BY <1>1, <1>6, AboutSession
  <2>2. told'[s] = Told(m.type)
    BY <1>3, <1>4, <1>6, <2>1
  <2>3. m_allSession[s].inMap
    BY <1>1, <1>2, <1>3, <1>6, HeardFrom DEF m
  <2>4. CASE m.type = "DIS_CONNECT"
    <3>1. SessionInv(s, Tail(Messages), Append(Operations, Release(s)), m_allSession[s], "left")
      BY <1>1, <1>2, <1>3, <1>6, <2>4, HearGoodbyeInv DEF m, IsGoodbye
    <3> QED BY <1>1, <1>3, <1>6, <2>2, <2>3, <2>4, <3>1 DEF Told
  <2>5. CASE m.type # "DIS_CONNECT"
    <3>1. Told(m.type) \in {"new", "talking"} /\ ~IsGoodbye(m, s)
      BY <2>1, <2>5 DEF Told, IsGoodbye
    <3>2. SessionInv(s, Tail(Messages), Operations, m_allSession[s], Told(m.type))
      BY <1>1, <1>2, <1>3, <1>6, <3>1, HearInv DEF m
    <3> QED BY <1>1, <1>3, <2>2, <2>3, <2>5, <3>2
  <2> QED BY <2>4, <2>5
<1> QED BY <1>5, <1>6

LEMMA DispatchInv ==
    ASSUME ServerInv, TypeOK', DispatchMsg
    PROVE  ServerInv'
<1>1. \A s \in SessionIDs : SessionInv(s, Messages', Operations', m_allSession'[s], told'[s])
  BY DispatchSessions
<1>2. FreshInv'
  <2>1. \A s \in SessionIDs : told'[s] # told[s] => m_allSession[s] # NoEntry
    BY DispatchSessions, NoEntryFields
  <2>2. m_sessionID' = m_sessionID /\ m_allSession' = m_allSession
    BY DEF DispatchMsg, loopVars
  <2> QED BY <2>1, <2>2 DEF ServerInv, FreshInv
<1>3. ExitInv'
  BY DispatchExit
<1>4. StageInv'
  <2>1. StopInv(Operations', m_start, m_serverStage)
    <3>1. CASE Head(Messages).type = "DIS_CONNECT"
      <4>1. /\ Operations' = Append(Operations, Release(Head(Messages).sessionID))
            /\ Head(Messages).sessionID \in SessionIDs
        BY <3>1, DispatchStreams DEF ServerInv
      <4>2. /\ Release(Head(Messages).sessionID) \in SessionOperation
            /\ Release(Head(Messages).sessionID).type # "STOP_SERVER"
        BY <4>1, OperationTypes DEF Release, OperationType
      <4>3. Operations \in Seq(SessionOperation) /\ StopInv(Operations, m_start, m_serverStage)
        BY StreamTypes DEF ServerInv, StageInv
      <4> QED BY <4>1, <4>2, <4>3, StopPush
    <3>2. CASE Head(Messages).type # "DIS_CONNECT"
      BY <3>2, DispatchStreams DEF ServerInv, StageInv
    <3> QED BY <3>1, <3>2
  <2>2. UNCHANGED <<m_start, m_serverStage, loop, m_server, app, idleRun, m_allSession,
                    m_operationDispatchQue>> /\ app = "polling"
    BY DEF DispatchMsg, loopVars
  <2> QED BY <2>1, <2>2, StageKeeps DEF ServerInv, TypeOK, StageInv
<1> QED BY <1>1, <1>2, <1>3, <1>4 DEF ServerInv

LEMMA CloseCallInv ==
    ASSUME ServerInv, TypeOK', CloseCall
    PROVE  ServerInv'
<1>1. Messages' = Messages /\ Operations' = Operations
  BY DEF CloseCall, Messages, Operations, loopVars
<1>2. /\ \A s \in SessionIDs : SessionInv(s, Messages', Operations', m_allSession'[s], told'[s])
      /\ FreshInv' /\ ExitInv'
  BY <1>1 DEF ServerInv, FreshInv, ExitInv, CloseCall, loopVars
<1>3. StageInv'
  BY <1>1, StageKeeps DEF ServerInv, TypeOK, StageInv, CloseCall, loopVars
<1> QED BY <1>2, <1>3 DEF ServerInv

(* Nothing is left in the streams of a server without sessions. *)
LEMMA NoSessionInv ==
    ASSUME NEW s, NEW M, NEW O, NEW d, NEW t, SessionInv(s, M, O, d, t), ~d.inMap
    PROVE  SessionInv(s, <<>>, <<>>, d, t)
<1>1. ~Gone(d) /\ DOMAIN <<>> = {}
  BY DEF Gone
<1> QED BY <1>1 DEF SessionInv, LeaveInv, ComeInv

LEMMA DeleteReturnsInv ==
    ASSUME ServerInv, TypeOK', DeleteReturns
    PROVE  ServerInv'
<1>1. /\ m_msgDispatchQue = <<>> /\ m_operationDispatchQue = <<>> /\ ~m_start
      /\ \A s \in SessionIDs : ~m_allSession[s].inMap
  BY DEF ServerInv, StageInv, DeleteReturns, InMap
<1>2. Messages' = <<>> /\ Operations' = <<>>
  BY <1>1 DEF DeleteReturns, Messages, Operations, loopVars
<1>3. \A s \in SessionIDs : SessionInv(s, Messages', Operations', m_allSession'[s], told'[s])
  BY <1>1, <1>2, NoSessionInv DEF ServerInv, DeleteReturns, loopVars
<1>4. DOMAIN Messages' = {} /\ DOMAIN Operations' = {}
  BY <1>2
<1>5. FreshInv' /\ ExitInv'
  BY <1>2, <1>4 DEF ServerInv, FreshInv, ExitInv, DeleteReturns, loopVars
<1>6. StopInv(Operations', m_start', m_serverStage')
  BY <1>1, <1>4 DEF StopInv, DeleteReturns
<1>7. StageInv'
  BY <1>1, <1>6 DEF ServerInv, StageInv, InMap, DeleteReturns, loopVars
<1> QED BY <1>3, <1>5, <1>7 DEF ServerInv

-----------------------------------------------------------------------------
(* The loop thread: operations.                                            *)

LEMMA ExecutingStreams ==
    ASSUME ServerInv, NEW type, Executing(type)
    PROVE  /\ Operations # <<>> /\ Head(Operations) = curOperation /\ Operations' = Tail(Operations)
           /\ Messages' = Messages /\ Operations \in Seq(SessionOperation)
           /\ loop = "running" /\ idleRun /\ curOperation.type = type
<1>1. /\ m_operationDispatchQue \in Seq(SessionOperation) /\ m_operationDispatchQue # <<>>
      /\ m_operationQue \in Seq(SessionOperation)
  BY DEF ServerInv, TypeOK, Executing
<1>2. /\ Operations # <<>> /\ Head(Operations) = curOperation
      /\ Tail(Operations) = Tail(m_operationDispatchQue) \o m_operationQue
  BY <1>1, HeadTailConcat DEF Operations, curOperation
<1>3. Operations' = Tail(Operations) /\ Messages' = Messages
  BY <1>2 DEF Executing, Operations, Messages, appVars
<1>4. loop = "running"
  BY DEF ServerInv, StageInv, Executing
<1> QED BY <1>2, <1>3, <1>4, StreamTypes DEF ServerInv, Executing

(* Only the sessions decide whether an operation keeps the invariant. *)
LEMMA ExecutingInv ==
    ASSUME ServerInv, TypeOK', NEW type, type # "STOP_SERVER", Executing(type),
           UNCHANGED <<m_serverStage, m_server>>,
           \A s \in SessionIDs :
              /\ SessionInv(s, Messages, Tail(Operations), m_allSession'[s], told[s])
              /\ m_allSession[s] = NoEntry => m_allSession'[s] = NoEntry
    PROVE  ServerInv'
<1>1. /\ Operations # <<>> /\ Operations' = Tail(Operations) /\ Messages' = Messages
      /\ Operations \in Seq(SessionOperation) /\ loop = "running" /\ idleRun
  BY ExecutingStreams
<1>2. UNCHANGED <<appVars, loop, idleRun, m_sessionID>>
  BY DEF Executing
<1>3. \A s \in SessionIDs : SessionInv(s, Messages', Operations', m_allSession'[s], told'[s])
  BY <1>1, <1>2 DEF appVars
<1>4. FreshInv' /\ ExitInv'
  BY <1>1, <1>2 DEF ServerInv, FreshInv, ExitInv, appVars
<1>5. StopInv(Operations', m_start, m_serverStage)
  BY <1>1, StopTail DEF ServerInv, StageInv
<1>6. StageInv'
  BY <1>1, <1>2, <1>5, StageKeeps DEF ServerInv, TypeOK, StageInv, appVars
<1> QED BY <1>3, <1>4, <1>6 DEF ServerInv

LEMMA ExecutedInv ==
    ASSUME ServerInv, TypeOK', NEW type \in {"SEND_DATA", "DIS_SESSION"}, Executing(type),
           NEW data, Executed(data), Moves(Target, data)
    PROVE  ServerInv'
<1>1. /\ Operations # <<>> /\ Head(Operations) = curOperation
      /\ Operations \in Seq(SessionOperation) /\ curOperation.type = type
  BY ExecutingStreams
<1>2. curOperation.sessionID \in SessionIDs /\ curOperation \in SessionOperation
  BY ExecutingType DEF ServerInv
<1>3. ASSUME NEW s \in SessionIDs
      PROVE  /\ SessionInv(s, Messages, Tail(Operations), m_allSession'[s], told[s])
             /\ m_allSession[s] = NoEntry => m_allSession'[s] = NoEntry
  <2>1. curOperation # Release(s)
    BY <1>1, <1>2, IsRelease
  <2>2. SessionInv(s, Messages, Tail(Operations), m_allSession[s], told[s])
    BY <1>1, <2>1, TakeInv DEF ServerInv
  <2>3. \/ m_allSession'[s] = m_allSession[s]
        \/ /\ s = curOperation.sessionID /\ m_allSession[s].inMap
           /\ m_allSession'[s] = data
    BY <1>2 DEF Executed, ServerInv, TypeOK
  <2> QED BY <2>2, <2>3, MovesSession, NoEntryFields DEF Target
<1>4. UNCHANGED <<m_serverStage, m_server>>
  BY DEF Executed
<1> QED BY <1>3, <1>4, ExecutingInv

LEMMA TargetSocket ==
    ASSUME ServerInv, NEW type, type # "STOP_SERVER", Executing(type)
    PROVE  Target \in serverSessionData /\ SocketInv(Target)
<1>1. curOperation.sessionID \in SessionIDs /\ Target \in serverSessionData
  BY ExecutingType DEF ServerInv
<1> QED BY <1>1 DEF ServerInv, SessionInv, Target

LEMMA ExecuteSendDataInv ==
    ASSUME ServerInv, TypeOK', ExecuteSendData
    PROVE  ServerInv'
<1>1. Executing("SEND_DATA")
  BY DEF ExecuteSendData
<1>2. PICK wrote \in BOOLEAN : Executed(ExecuteSend(Target, wrote))
  BY DEF ExecuteSendData
<1>3. Moves(Target, ExecuteSend(Target, wrote))
  BY <1>1, TargetSocket, DisconnectMoves
<1> QED BY <1>1, <1>2, <1>3, ExecutedInv

LEMMA ExecuteDisSessionInv ==
    ASSUME ServerInv, TypeOK', ExecuteDisSession
    PROVE  ServerInv'
<1>1. Executing("DIS_SESSION") /\ Executed(ExecuteDisconnect(Target))
  BY DEF ExecuteDisSession
<1>2. Moves(Target, ExecuteDisconnect(Target))
  BY <1>1, TargetSocket, DisconnectMoves
<1> QED BY <1>1, <1>2, ExecutedInv

LEMMA ExecuteReleaseInv ==
    ASSUME ServerInv, TypeOK', ExecuteRelease
    PROVE  /\ ServerInv'
           /\ \A s \in SessionIDs : m_allSession'[s] # m_allSession[s] =>
                 Head(Operations) = Release(s) /\ Gone(m_allSession[s])
<1> DEFINE type == "SEND_DIS_SESSION_MSG_TO_MAIN_THREAD"
<1>1. Executing(type) /\ Executed(NoEntry)
  BY DEF ExecuteRelease, Released
<1>2. /\ Operations # <<>> /\ Head(Operations) = curOperation
      /\ Operations \in Seq(SessionOperation) /\ curOperation.type = type
  BY <1>1, ExecutingStreams
<1>3. curOperation.sessionID \in SessionIDs /\ curOperation \in SessionOperation
  BY <1>1, ExecutingType DEF ServerInv
<1>4. ASSUME NEW s \in SessionIDs
      PROVE  /\ SessionInv(s, Messages, Tail(Operations), m_allSession'[s], told[s])
             /\ m_allSession[s] = NoEntry => m_allSession'[s] = NoEntry
             /\ m_allSession'[s] # m_allSession[s] =>
                   Head(Operations) = Release(s) /\ Gone(m_allSession[s])
  <2>1. CASE curOperation.sessionID = s
    <3>1. Head(Operations) = Release(s)
      BY <1>2, <1>3, <2>1, IsRelease
    <3>2. Gone(m_allSession[s]) /\ SessionInv(s, Messages, Tail(Operations), NoEntry, told[s])
      BY <1>2, <3>1, TakeReleaseInv DEF ServerInv
    <3>3. m_allSession'[s] = NoEntry
      BY <1>1, <2>1, <3>2 DEF Executed, Gone, ServerInv, TypeOK
    <3> QED BY <3>1, <3>2, <3>3
  <2>2. CASE curOperation.sessionID # s
    <3>1. curOperation # Release(s)
      BY <1>3, <2>2, IsRelease
    <3>2. SessionInv(s, Messages, Tail(Operations), m_allSession[s], told[s])
      BY <1>2, <3>1, TakeInv DEF ServerInv
    <3>3. m_allSession'[s] = m_allSession[s]
      BY <1>1, <1>3, <2>2 DEF Executed, ServerInv, TypeOK
    <3> QED BY <3>2, <3>3
  <2> QED BY <2>1, <2>2
<1>5. UNCHANGED <<m_serverStage, m_server>>
  BY <1>1 DEF Executed
<1>6. ServerInv'
  BY <1>1, <1>4, <1>5, ExecutingInv
<1> QED BY <1>4, <1>6

LEMMA DisconnectAllInv ==
    ASSUME ServerInv, DisconnectAll, NEW s \in SessionIDs
    PROVE  Moves(m_allSession[s], m_allSession'[s])
<1>1. m_allSession[s] \in serverSessionData /\ SocketInv(m_allSession[s])
  BY DEF ServerInv, TypeOK, SessionInv
<1>2. m_allSession'[s] \in {m_allSession[s], ExecuteDisconnect(m_allSession[s])}
  BY DEF DisconnectAll
<1> QED BY <1>1, <1>2, DisconnectMoves DEF Moves

LEMMA DisconnectAllFresh ==
    ASSUME DisconnectAll, NEW s \in SessionIDs, m_allSession[s] = NoEntry
    PROVE  m_allSession'[s] = NoEntry
  BY NoEntryFields DEF DisconnectAll

LEMMA ExecuteStopServerInv ==
    ASSUME ServerInv, TypeOK', ExecuteStopServer
    PROVE  ServerInv'
<1>1. Executing("STOP_SERVER")
  BY DEF ExecuteStopServer
<1>2. /\ Operations # <<>> /\ Head(Operations) = curOperation /\ Operations' = Tail(Operations)
      /\ Messages' = Messages /\ Operations \in Seq(SessionOperation)
      /\ loop = "running" /\ idleRun /\ curOperation.type = "STOP_SERVER"
  BY <1>1, ExecutingStreams
<1>3. UNCHANGED <<appVars, loop, idleRun, m_sessionID>>
  BY <1>1 DEF Executing
<1>4. ASSUME NEW s \in SessionIDs
      PROVE  SessionInv(s, Messages', Operations', m_allSession'[s], told'[s])
  <2>1. curOperation # Release(s)
    BY <1>2 DEF Release, Op
  <2>2. SessionInv(s, Messages, Tail(Operations), m_allSession[s], told[s])
    BY <1>2, <2>1, TakeInv DEF ServerInv
  <2>3. Moves(m_allSession[s], m_allSession'[s])
    BY DisconnectAllInv DEF ExecuteStopServer
  <2> QED BY <1>2, <1>3, <2>2, <2>3, MovesSession DEF appVars
<1>5. FreshInv'
  BY <1>3, DisconnectAllFresh DEF ServerInv, FreshInv, ExecuteStopServer, appVars
<1>6. ExitInv'
  BY <1>2, <1>3 DEF ServerInv, ExitInv, appVars
<1>7. /\ ~m_start /\ m_serverStage = "RUN"
      /\ \A i \in DOMAIN Operations' : Operations'[i].type # "STOP_SERVER"
  BY <1>2, StopTail DEF ServerInv, StageInv
<1>8. StopInv(Operations', m_start', m_serverStage')
  BY <1>3, <1>7 DEF StopInv, appVars
<1>9. StageInv'
  BY <1>2, <1>3, <1>7, <1>8 DEF ServerInv, StageInv, ExecuteStopServer, appVars
<1> QED BY <1>4, <1>5, <1>6, <1>9 DEF ServerInv

-----------------------------------------------------------------------------
(* The loop thread: the end of onIdleRun, and of run().                    *)

LEMMA IdleInv ==
    ASSUME ServerInv, TypeOK', IdleRun \/ IdleClear \/ IdleWaitSessionClose
    PROVE  ServerInv'
<1>1. /\ UNCHANGED <<appVars, m_operationQue, m_msgQue, m_operationDispatchQue, m_server,
                     m_sessionID>>
      /\ idleRun /\ ~idleRun' /\ m_operationDispatchQue = <<>> /\ loop = "running"
  BY DEF ServerInv, TypeOK, StageInv, IdleRun, IdleClear, IdleWaitSessionClose, IdleEnd
<1>2. Messages' = Messages /\ Operations' = Operations
  BY <1>1 DEF Messages, Operations, appVars
<1>3. ASSUME NEW s \in SessionIDs
      PROVE  /\ Moves(m_allSession[s], m_allSession'[s])
             /\ m_allSession[s] = NoEntry => m_allSession'[s] = NoEntry
  <2>1. m_allSession[s] \in serverSessionData /\ SocketInv(m_allSession[s])
    BY DEF ServerInv, TypeOK, SessionInv
  <2>2. Moves(m_allSession[s], m_allSession[s])
    BY <2>1 DEF Moves
  <2> QED BY <2>2, DisconnectAllInv, DisconnectAllFresh
         DEF IdleRun, IdleClear, IdleWaitSessionClose
<1>4. \A s \in SessionIDs : SessionInv(s, Messages', Operations', m_allSession'[s], told'[s])
  BY <1>1, <1>2, <1>3, MovesSession DEF ServerInv, appVars
<1>5. FreshInv'
  BY <1>1, <1>3 DEF ServerInv, FreshInv, appVars
<1>6. ExitInv'
  BY <1>1, <1>2, ExitKeeps DEF ServerInv, appVars
<1>7. CASE IdleRun
  <2>1. UNCHANGED <<m_serverStage, loop, m_allSession>>
    BY <1>7 DEF IdleRun
  <2>2. StageInv'
    BY <1>1, <1>2, <2>1, StageKeeps DEF ServerInv, TypeOK, StageInv, appVars
  <2> QED BY <1>4, <1>5, <1>6, <2>2 DEF ServerInv
<1>8. CASE IdleClear
  <2>1. m_serverStage = "CLEAR" /\ m_serverStage' = "WAIT_SESSION_CLOSE" /\ loop' = loop
    BY <1>8 DEF IdleClear
  <2>2. StopInv(Operations', m_start', m_serverStage')
    BY <1>1, <1>2, <2>1 DEF ServerInv, StageInv, StopInv, appVars
  <2>3. StageInv'
    BY <1>1, <2>1, <2>2 DEF ServerInv, StageInv, appVars
  <2> QED BY <1>4, <1>5, <1>6, <2>3 DEF ServerInv
<1>9. CASE IdleWaitSessionClose
  <2>1. /\ m_serverStage = "WAIT_SESSION_CLOSE" /\ UNCHANGED <<m_serverStage, m_allSession>>
        /\ loop' = loop \/ (loop' = "stopped" /\ NoSessionLeft)
    BY <1>9 DEF IdleWaitSessionClose
  <2>2. StopInv(Operations', m_start', m_serverStage')
    BY <1>1, <1>2, <2>1 DEF ServerInv, StageInv, appVars
  <2>3. StageInv'
    BY <1>1, <2>1, <2>2 DEF ServerInv, StageInv, InMap, NoSessionLeft, appVars
  <2> QED BY <1>4, <1>5, <1>6, <2>3 DEF ServerInv
<1> QED BY <1>7, <1>8, <1>9

LEMMA StreamsFrame ==
    ASSUME UNCHANGED <<m_msgDispatchQue, m_msgQue, m_operationDispatchQue, m_operationQue>>
    PROVE  Messages' = Messages /\ Operations' = Operations
  BY DEF Messages, Operations

LEMMA OnServerSocketCloseInv ==
    ASSUME ServerInv, TypeOK', OnServerSocketClose
    PROVE  ServerInv'
<1>1. Messages' = Messages /\ Operations' = Operations
  BY StreamsFrame DEF OnServerSocketClose, appVars
<1>2. /\ \A s \in SessionIDs : SessionInv(s, Messages', Operations', m_allSession'[s], told'[s])
      /\ FreshInv' /\ ExitInv'
  BY <1>1 DEF ServerInv, FreshInv, ExitInv, OnServerSocketClose, appVars
<1>3. m_serverStage = "WAIT_CLOSE_SERVER_SOCKET" /\ loop = "running"
  BY DEF ServerInv, TypeOK, ServerStage, StageInv, OnServerSocketClose, LoopFree
<1>4. StopInv(Operations', m_start', m_serverStage')
  BY <1>1, <1>3 DEF ServerInv, StageInv, StopInv, OnServerSocketClose, appVars
<1>5. StageInv'
  BY <1>3, <1>4 DEF ServerInv, StageInv, OnServerSocketClose, appVars
<1> QED BY <1>2, <1>5 DEF ServerInv

LEMMA RunReturnsInv ==
    ASSUME ServerInv, TypeOK', RunReturns
    PROVE  ServerInv'
<1>1. Messages' = Messages /\ Operations' = Operations
  BY StreamsFrame DEF RunReturns, appVars
<1>2. /\ \A s \in SessionIDs : SessionInv(s, Messages', Operations', m_allSession'[s], told'[s])
      /\ FreshInv'
  BY <1>1 DEF ServerInv, FreshInv, RunReturns, appVars
<1>3. ExitInv'
  BY <1>1, ExitKeeps DEF ServerInv, RunReturns, appVars
<1>4. m_serverStage = "WAIT_SESSION_CLOSE"
  BY DEF ServerInv, TypeOK, ServerStage, StageInv, RunReturns
<1>5. StopInv(Operations', m_start', m_serverStage')
  BY <1>1, <1>4 DEF ServerInv, StageInv, StopInv, RunReturns, appVars
<1>6. StageInv'
  BY <1>4, <1>5 DEF ServerInv, StageInv, InMap, RunReturns, appVars
<1> QED BY <1>2, <1>3, <1>6 DEF ServerInv

LEMMA PushExitLoopInv ==
    ASSUME ServerInv, TypeOK', PushExitLoop
    PROVE  ServerInv'
<1>1. Messages \in Seq(NetThreadMsg) /\ ExitLoop \in NetThreadMsg
  BY StreamTypes, ExitLoopType DEF ServerInv
<1>2. Messages' = Append(Messages, ExitLoop) /\ Operations' = Operations
  BY <1>1, ConcatAppend DEF ServerInv, TypeOK, Messages, Operations, PushExitLoop, appVars
<1>3. ASSUME NEW s \in SessionIDs
      PROVE  SessionInv(s, Messages', Operations', m_allSession'[s], told'[s])
  <2>1. ExitLoop.sessionID # s
    BY SessionIDsAreNat DEF ExitLoop, Msg
  <2> QED BY <1>1, <1>2, <2>1, OtherSaysInv DEF ServerInv, PushExitLoop, appVars
<1>4. FreshInv'
  BY DEF ServerInv, FreshInv, PushExitLoop, appVars
<1>5. StageInv'
  BY <1>2 DEF ServerInv, StageInv, InMap, PushExitLoop, appVars
<1>6. ExitInv'
  <2>1. /\ \A i \in DOMAIN Messages : Messages[i].type # "EXIT_LOOP"
        /\ ~closeServerTag' /\ ~closed'
    BY BeforeExit DEF ServerInv, PushExitLoop, appVars
  <2>2. /\ Len(Messages) \in Nat /\ DOMAIN Messages = 1 .. Len(Messages)
        /\ DOMAIN Messages' = 1 .. Len(Messages) + 1
        /\ \A i \in DOMAIN Messages : Messages'[i] = Messages[i]
    BY <1>1, <1>2, AppendIndex
  <2>3. Len(Messages') = Len(Messages) + 1
    BY <1>1, <1>2, AppendProperties
  <2>4. \A i \in DOMAIN Messages' : i \in DOMAIN Messages \/ i = Len(Messages')
    BY <2>2, <2>3
  <2>5. \A i \in DOMAIN Messages' : Messages'[i].type = "EXIT_LOOP" => i = Len(Messages')
    BY <2>1, <2>2, <2>4
  <2> QED BY <2>1, <2>5 DEF ExitInv, PushExitLoop
<1> QED BY <1>3, <1>4, <1>5, <1>6 DEF ServerInv

-----------------------------------------------------------------------------
(* The loop thread: callbacks.                                             *)

(* Only the sessions decide whether a callback keeps the invariant. *)
LEMMA CallbackStage ==
    ASSUME ServerInv, TypeOK', NEW s \in SessionIDs, NEW data, NEW msgs, Callback(s, data, msgs),
           \/ Messages' = Messages
           \/ \E m \in NetThreadMsg : m.type # "EXIT_LOOP" /\ Messages' = Append(Messages, m)
    PROVE  StageInv' /\ ExitInv'
<1>1. Operations' = Operations /\ loop = "running"
  BY DEF Callback, Operations, LoopFree
<1>2. ExitInv'
  BY <1>1, ExitKeeps DEF ServerInv, Callback, appVars
<1>3. StageInv'
  BY <1>1, StageKeeps DEF ServerInv, TypeOK, StageInv, Callback, appVars
<1> QED BY <1>2, <1>3

LEMMA CallbackEntries ==
    ASSUME TypeOK, NEW s \in SessionIDs, NEW data, NEW msgs, Callback(s, data, msgs)
    PROVE  /\ m_allSession'[s] = data
           /\ \A r \in SessionIDs \ {s} : m_allSession'[r] = m_allSession[r]
           /\ Operations' = Operations /\ told' = told
  BY DEF TypeOK, Callback, Operations, appVars

(* A callback that says nothing ... *)
LEMMA CallbackSilentInv ==
    ASSUME ServerInv, TypeOK', NEW s \in SessionIDs, NEW data, Callback(s, data, <<>>),
           Moves(m_allSession[s], data), m_allSession[s].inMap, UNCHANGED m_sessionID
    PROVE  ServerInv'
<1>1. Messages' = Messages
  BY ConcatEmptySeq DEF ServerInv, TypeOK, Messages, Callback, appVars
<1>2. /\ m_allSession'[s] = data
      /\ \A r \in SessionIDs \ {s} : m_allSession'[r] = m_allSession[r]
      /\ Operations' = Operations /\ told' = told
  BY CallbackEntries DEF ServerInv
<1>3. ASSUME NEW r \in SessionIDs
      PROVE  SessionInv(r, Messages', Operations', m_allSession'[r], told'[r])
  BY <1>1, <1>2, MovesSession DEF ServerInv
<1>4. FreshInv'
  BY <1>2, NoEntryFields DEF ServerInv, FreshInv
<1> QED BY <1>1, <1>3, <1>4, CallbackStage DEF ServerInv

(* ... and one that says one thing of its session.                         *)
LEMMA CallbackSaysInv ==
    ASSUME ServerInv, TypeOK', NEW s \in SessionIDs, NEW data,
           NEW type \in NetThreadMsgType \ {"EXIT_LOOP"}, Callback(s, data, <<Msg(type, s)>>),
           SessionInv(s, Append(Messages, Msg(type, s)), Operations, data, told[s]), FreshInv'
    PROVE  ServerInv' /\ Messages' = Append(Messages, Msg(type, s))
<1>1. /\ Msg(type, s) \in NetThreadMsg /\ Msg(type, s).type # "EXIT_LOOP"
      /\ Msg(type, s).sessionID = s
  BY MessageTypes
<1>2. Messages' = Append(Messages, Msg(type, s))
  <2>1. m_msgDispatchQue \in Seq(NetThreadMsg) /\ m_msgQue \in Seq(NetThreadMsg)
    BY DEF ServerInv, TypeOK
  <2>2. m_msgQue' = Append(m_msgQue, Msg(type, s))
    BY <1>1, <2>1, AppendIsConcat DEF Callback
  <2> QED BY <1>1, <2>1, <2>2, ConcatAppend DEF Messages, Callback, appVars
<1>3. /\ m_allSession'[s] = data
      /\ \A r \in SessionIDs \ {s} : m_allSession'[r] = m_allSession[r]
      /\ Operations' = Operations /\ told' = told
  BY CallbackEntries DEF ServerInv
<1>4. Messages \in Seq(NetThreadMsg)
  BY StreamTypes DEF ServerInv
<1>5. ASSUME NEW r \in SessionIDs
      PROVE  SessionInv(r, Messages', Operations', m_allSession'[r], told'[r])
  <2>1. CASE r = s
    BY <1>2, <1>3, <2>1
  <2>2. CASE r # s
    BY <1>1, <1>2, <1>3, <1>4, <2>2, OtherSaysInv DEF ServerInv
  <2> QED BY <2>1, <2>2
<1> QED BY <1>1, <1>2, <1>5, CallbackStage DEF ServerInv

LEMMA OnNewConnectInv ==
    ASSUME ServerInv, TypeOK', OnNewConnect
    PROVE  ServerInv'
<1> DEFINE s == m_sessionID
           m == Msg("NEW_CONNECT", s)
<1>1. s \in SessionIDs /\ s \in Nat
  BY NewcomerType, SessionIDsAreNat DEF ServerInv
<1>2. m_allSession[s] = NoEntry /\ told[s] = "none"
  BY <1>1 DEF ServerInv, FreshInv
<1>3. m \in NetThreadMsg /\ IsNew(m, s)
  BY <1>1, MessageTypes DEF NetThreadMsgType, IsNew
<1>4. SessionInv(s, Append(Messages, m), Operations, NewEntry, told[s])
  BY <1>1, <1>2, <1>3, StreamTypes, NewcomerInv DEF ServerInv
<1>5. Callback(s, NewEntry, <<m>>) /\ m_sessionID' = s + 1
  BY DEF OnNewConnect
<1>6. FreshInv'
  <2>1. /\ \A r \in SessionIDs \ {s} : m_allSession'[r] = m_allSession[r]
        /\ told' = told
    BY <1>1, <1>5, CallbackEntries DEF ServerInv
  <2>2. \A r \in SessionIDs : r >= m_sessionID' => r >= m_sessionID /\ r # s
    BY <1>1, <1>5, SessionIDsAreNat
  <2> QED BY <2>1, <2>2 DEF ServerInv, FreshInv
<1> QED BY <1>1, <1>4, <1>5, <1>6, CallbackSaysInv DEF NetThreadMsgType

LEMMA OnlineEntry ==
    ASSUME NEW data, SocketInv(data), data.isOnline \/ data.tcp = "open" \/ data.closing
    PROVE  data.inMap /\ ~Gone(data)
  BY NoEntryFields DEF SocketInv, Gone

LEMMA PeerInv ==
    ASSUME ServerInv, TypeOK', Peer
    PROVE  ServerInv'
<1>1. \A s \in SessionIDs : m_allSession[s] \in serverSessionData /\ SocketInv(m_allSession[s])
  BY DEF ServerInv, TypeOK, SessionInv
<1>2. ASSUME NEW s \in SessionIDs, OnSessionRecvData(s) PROVE ServerInv'
  <2> DEFINE m == Msg("RECV_DATA", s)
  <2>1. m_allSession[s].inMap /\ ~Gone(m_allSession[s])
    BY <1>1, <1>2, OnlineEntry DEF OnSessionRecvData
  <2>2. m \in NetThreadMsg /\ m.sessionID = s /\ m.type = "RECV_DATA"
    BY MessageTypes DEF NetThreadMsgType
  <2>3. Callback(s, m_allSession[s], <<m>>) /\ m_sessionID' = m_sessionID
    BY <1>2 DEF OnSessionRecvData
  <2> HIDE DEF m
  <2>4. SessionInv(s, Append(Messages, m), Operations, m_allSession[s], told[s])
    BY <2>1, <2>2, StreamTypes, ReceivedInv DEF ServerInv
  <2>5. FreshInv'
    BY <2>3, CallbackEntries DEF ServerInv, FreshInv
  <2> QED BY <2>3, <2>4, <2>5, CallbackSaysInv DEF NetThreadMsgType, m
<1>3. ASSUME NEW s \in SessionIDs, OnIllegalData(s) PROVE ServerInv'
  BY <1>1, <1>3, OnlineEntry, DisconnectMoves, CallbackSilentInv DEF OnIllegalData
<1>4. ASSUME NEW s \in SessionIDs, OnIllegalHeart(s) PROVE ServerInv'
  <2>1. Op("DIS_SESSION", s) \in SessionOperation /\ Op("DIS_SESSION", s).type = "DIS_SESSION"
    BY OperationTypes DEF OperationType
  <2> QED BY <1>4, <2>1, PushStepInv DEF OnIllegalHeart, appVars
<1>5. ASSUME NEW s \in SessionIDs, HeartbeatLost(s) PROVE ServerInv'
  BY <1>1, <1>5, OnlineEntry, DisconnectMoves, CallbackSilentInv DEF HeartbeatLost
<1>6. ASSUME NEW s \in SessionIDs, OnEof(s) PROVE ServerInv'
  BY <1>1, <1>6, OnlineEntry, DisconnectMoves, CallbackSilentInv DEF OnEof, Reading
<1> QED BY <1>2, <1>3, <1>4, <1>5, <1>6, OnNewConnectInv DEF Peer

LEMMA OnSessionCloseInv ==
    ASSUME ServerInv, TypeOK', NEW s \in SessionIDs, OnSessionClose(s)
    PROVE  ServerInv'
<1> DEFINE m    == Msg("DIS_CONNECT", s)
           data == m_allSession[s]
<1>1. data \in serverSessionData /\ SocketInv(data) /\ data.closing
  BY DEF ServerInv, TypeOK, SessionInv, OnSessionClose
<1>2. data.inMap /\ ~Gone(data) /\ Gone(Closed(data))
  BY <1>1, CloseEnds
<1>3. m \in NetThreadMsg /\ IsGoodbye(m, s)
  BY MessageTypes DEF NetThreadMsgType, IsGoodbye
<1>4. Callback(s, Closed(data), <<m>>) /\ m_sessionID' = m_sessionID
  BY DEF OnSessionClose, CloseMsgs
<1>5. FreshInv'
  BY <1>2, <1>4, CallbackEntries, NoEntryFields DEF ServerInv, FreshInv
<1> HIDE DEF m
<1>6. SessionInv(s, Append(Messages, m), Operations, Closed(data), told[s])
  BY <1>2, <1>3, StreamTypes, GoodbyeInv DEF ServerInv
<1> QED BY <1>4, <1>5, <1>6, CallbackSaysInv DEF NetThreadMsgType, m

-----------------------------------------------------------------------------
(* The invariant.                                                          *)

LEMMA UnchangedInv ==
    ASSUME ServerInv, UNCHANGED vars
    PROVE  ServerInv'
<1>1. TypeOK'
  BY TypeStep DEF ServerInv
<1>2. Messages' = Messages /\ Operations' = Operations
  BY StreamsFrame DEF vars, appVars, loopVars
<1>3. /\ \A s \in SessionIDs : SessionInv(s, Messages', Operations', m_allSession'[s], told'[s])
      /\ FreshInv' /\ ExitInv'
  BY <1>2 DEF ServerInv, FreshInv, ExitInv, vars, appVars, loopVars
<1>4. StageInv'
  BY <1>2 DEF ServerInv, StageInv, InMap, vars, appVars, loopVars
<1> QED BY <1>1, <1>3, <1>4 DEF ServerInv

LEMMA InvStep == ServerInv /\ [Next]_vars => ServerInv'
<1> SUFFICES ASSUME ServerInv, [Next]_vars PROVE ServerInv'
  OBVIOUS
<1>1. TypeOK'
  BY TypeStep DEF ServerInv
<1>2. CASE ApiCall
  BY <1>1, <1>2, ApiCallInv
<1>3. CASE UpdateFrame
  BY <1>1, <1>3, BatchInv, DispatchInv, CloseCallInv DEF UpdateFrame
<1>4. CASE DeleteReturns
  BY <1>1, <1>4, DeleteReturnsInv
<1>5. CASE OnIdleRun
  BY <1>1, <1>5, BatchInv, ExecuteSendDataInv, ExecuteDisSessionInv, ExecuteReleaseInv,
     ExecuteStopServerInv, IdleInv DEF OnIdleRun
<1>6. CASE OnServerSocketClose
  BY <1>1, <1>6, OnServerSocketCloseInv
<1>7. CASE Run
  BY <1>1, <1>7, RunReturnsInv, PushExitLoopInv DEF Run
<1>8. CASE Peer
  BY <1>1, <1>8, PeerInv
<1>9. CASE \E s \in SessionIDs : OnSessionClose(s)
  BY <1>1, <1>9, OnSessionCloseInv
<1>10. CASE UNCHANGED vars
  BY <1>10, UnchangedInv
<1> QED BY <1>2, <1>3, <1>4, <1>5, <1>6, <1>7, <1>8, <1>9, <1>10 DEF Next, Finished

(* Whatever the application calls and whatever the peers do, entries,      *)
(* streams, stages and the end of the server stay in step.                 *)
THEOREM Safety == Spec => []ServerInv
<1> QED BY InitInv, InvStep, PTL DEF Spec

-----------------------------------------------------------------------------
(* What follows from it.                                                   *)

LEMMA MessageIndex ==
    ASSUME ServerInv
    PROVE  /\ \A i \in DOMAIN Messages : i \in Nat /\ Messages[i] \in NetThreadMsg
           /\ \A i \in DOMAIN Operations : i \in Nat /\ Operations[i] \in SessionOperation
<1>1. Messages \in Seq(NetThreadMsg) /\ Operations \in Seq(SessionOperation)
  BY StreamTypes DEF ServerInv
<1> QED BY <1>1, LenProperties, ElementOfSeq

(* No message that updateFrame() still has to deliver names a session that *)
(* was freed: the pointer it hands to the application does not dangle.     *)
THEOREM MessagesDoNotDangle == Spec => []NoDanglingMessage
<1>1. ServerInv => NoDanglingMessage
  BY DEF ServerInv, SessionInv, LeaveInv, NoDanglingMessage, MsgsOf, InMap
<1> QED BY <1>1, Safety, PTL

(* A session says goodbye once, after all else that is said of it, and its *)
(* release is queued once, after the goodbye was heard.                    *)
THEOREM GoodbyeIsFinal == Spec => []LeavesOnceAndLast
<1>1. ServerInv => LeavesOnceAndLast
  <2> SUFFICES ASSUME ServerInv, NEW s \in SessionIDs
               PROVE  /\ Cardinality(Goodbyes(s)) + Cardinality(Releases(s)) <= 1
                      /\ \A i \in Goodbyes(s) : \A j \in MsgsOf(s) : j <= i
                      /\ Releases(s) # {} => MsgsOf(s) = {}
    BY DEF LeavesOnceAndLast
  <2>1. LeaveInv(s, Messages, Operations, m_allSession[s], told[s])
    BY DEF ServerInv, SessionInv
  <2>2. \A i \in Goodbyes(s) : i \in DOMAIN Messages /\ IsGoodbye(Messages[i], s)
    BY DEF Goodbyes, MsgsOf, IsGoodbye
  <2>3. \A i \in Releases(s) : i \in DOMAIN Operations /\ Operations[i] = Release(s)
    BY DEF Releases
  <2>4. \A i \in Goodbyes(s) : \A j \in MsgsOf(s) : j <= i
    BY <2>1, <2>2 DEF LeaveInv, MsgsOf
  <2>5. Releases(s) # {} => MsgsOf(s) = {}
    BY <2>1, <2>3 DEF LeaveInv, MsgsOf
  <2>6. \A i, j \in Goodbyes(s) : i = j
    <3>1. \A i \in Goodbyes(s) : i \in MsgsOf(s) /\ i \in Nat
      BY <2>2, MessageIndex DEF Goodbyes
    <3> QED BY <2>4, <3>1
  <2>7. \A i, j \in Releases(s) : i = j
    BY <2>1, <2>3 DEF LeaveInv
  <2>8. Goodbyes(s) = {} \/ Releases(s) = {}
    BY <2>5 DEF Goodbyes
  <2>9. /\ Cardinality(Goodbyes(s)) \in {0, 1} /\ Cardinality(Releases(s)) \in {0, 1}
        /\ Cardinality(Goodbyes(s)) = 0 \/ Cardinality(Releases(s)) = 0
    BY <2>6, <2>7, <2>8, AtMostOne
  <2> QED BY <2>4, <2>5, <2>9
<1> QED BY <1>1, Safety, PTL

(* Every session that is offline has its close pending, announced or       *)
(* answered: none keeps WAIT_SESSION_CLOSE waiting without a cause.        *)
THEOREM OfflineIsLeaving == Spec => []NoSessionLost
<1>1. ServerInv => NoSessionLost
  <2> SUFFICES ASSUME ServerInv, NEW s \in SessionIDs, InMap(s)
               PROVE  \/ m_allSession[s].tcp = "open" /\ m_allSession[s].isOnline
                      \/ m_allSession[s].closing
                      \/ Goodbyes(s) # {} \/ Releases(s) # {}
    BY DEF NoSessionLost
  <2>1. SocketInv(m_allSession[s]) /\ LeaveInv(s, Messages, Operations, m_allSession[s], told[s])
    BY DEF ServerInv, SessionInv
  <2>2. CASE Gone(m_allSession[s])
    BY <2>1, <2>2 DEF LeaveInv, Goodbyes, MsgsOf, Releases, IsGoodbye
  <2> QED BY <2>1, <2>2, NoEntryFields DEF SocketInv, InMap
<1> QED BY <1>1, Safety, PTL

(* The loop ends with the listening socket closed and every session freed. *)
THEOREM LoopEndsEmpty == Spec => []StopsEmpty
<1>1. ServerInv => StopsEmpty
  BY DEF ServerInv, TypeOK, ServerStage, StageInv, StopsEmpty
<1> QED BY <1>1, Safety, PTL

(* m_closeCall is the last callback the application gets. *)
THEOREM ExitIsLast == Spec => []ExitLoopLast
<1>1. ServerInv => ExitLoopLast
  BY ExitLoopType DEF ServerInv, ExitInv, ExitLoopLast
<1> QED BY <1>1, Safety, PTL

-----------------------------------------------------------------------------
(* Freeing.                                                                *)

(* Only an operation frees a session, and only when its turn has come. *)
LEMMA SessionsStay ==
    ASSUME ServerInv, [Next]_vars, NEW s \in SessionIDs, InMap(s), ~InMap(s)'
    PROVE  Head(Operations) = Release(s) /\ Operations # <<>> /\ Gone(m_allSession[s])
<1>1. m_allSession'[s] # m_allSession[s] /\ m_allSession'[s].inMap # m_allSession[s].inMap
  BY DEF InMap
<1>2. TypeOK'
  BY TypeStep DEF ServerInv
<1>3. CASE ExecuteRelease
  <2>1. Operations # <<>>
    BY <1>3, ExecutingStreams DEF ExecuteRelease
  <2> QED BY <1>1, <1>2, <1>3, <2>1, ExecuteReleaseInv
<1>4. CASE UNCHANGED m_allSession
  BY <1>1, <1>4
<1>5. ASSUME NEW type \in {"SEND_DATA", "DIS_SESSION"}, Executing(type), NEW data, Executed(data),
             Moves(Target, data)
      PROVE  FALSE
  <2>1. m_allSession'[s] = m_allSession[s] \/ (Target = m_allSession[s] /\ m_allSession'[s] = data)
    BY <1>5, ExecutingType DEF Executed, Target, ServerInv, TypeOK
  <2> QED BY <1>1, <1>5, <2>1 DEF Moves
<1>6. ASSUME ExecuteSendData \/ ExecuteDisSession PROVE FALSE
  <2>1. CASE ExecuteSendData
    <3>1. PICK wrote \in BOOLEAN : Executed(ExecuteSend(Target, wrote))
      BY <2>1 DEF ExecuteSendData
    <3>2. Executing("SEND_DATA") /\ Moves(Target, ExecuteSend(Target, wrote))
      BY <2>1, TargetSocket, DisconnectMoves DEF ExecuteSendData
    <3> QED BY <1>5, <3>1, <3>2
  <2>2. CASE ExecuteDisSession
    <3>1. Executing("DIS_SESSION") /\ Moves(Target, ExecuteDisconnect(Target))
      BY <2>2, TargetSocket, DisconnectMoves DEF ExecuteDisSession
    <3> QED BY <1>5, <2>2, <3>1 DEF ExecuteDisSession
  <2> QED BY <1>6, <2>1, <2>2
<1>7. ASSUME DisconnectAll PROVE FALSE
  BY <1>1, <1>7, DisconnectAllInv DEF Moves
<1>8. ASSUME NEW r \in SessionIDs, NEW data, NEW msgs, Callback(r, data, msgs),
             r = s => data.inMap
      PROVE  FALSE
  BY <1>1, <1>8, CallbackEntries DEF ServerInv, InMap
<1>9. ASSUME NEW r \in SessionIDs,
             \/ OnSessionRecvData(r) \/ OnIllegalData(r) \/ HeartbeatLost(r) \/ OnEof(r)
             \/ OnSessionClose(r)
      PROVE  FALSE
  <2>1. m_allSession[r] \in serverSessionData /\ SocketInv(m_allSession[r])
    BY DEF ServerInv, TypeOK, SessionInv
  <2>2. CASE OnSessionRecvData(r)
    BY <1>8, <2>2 DEF OnSessionRecvData, InMap
  <2>3. CASE OnIllegalData(r) \/ HeartbeatLost(r)
    BY <1>8, <2>1, <2>3, DisconnectMoves DEF OnIllegalData, HeartbeatLost, Moves, InMap
  <2>4. CASE OnEof(r)
    BY <1>8, <2>1, <2>4, DisconnectMoves DEF OnEof, Reading, Moves, InMap
  <2>5. CASE OnSessionClose(r)
    BY <1>8, <2>1, <2>5, CloseEnds DEF OnSessionClose, Gone
  <2> QED BY <1>9, <2>2, <2>3, <2>4, <2>5
<1>10. CASE OnNewConnect
  <2>1. m_sessionID \in SessionIDs /\ NewEntry.inMap
    BY <1>10, NewcomerType DEF ServerInv, NewEntry, NoEntry
  <2> QED BY <1>8, <1>10, <2>1 DEF OnNewConnect
<1>11. ASSUME \/ ApiCall \/ UpdateFrame \/ DeleteReturns \/ TakeOperations \/ IdleRun
              \/ IdleWaitSessionClose \/ OnServerSocketClose \/ Run \/ UNCHANGED vars
              \/ \E r \in SessionIDs : OnIllegalHeart(r)
       PROVE  UNCHANGED m_allSession
  BY <1>11 DEF ApiCall, StartServer, StopServer, Delete, Send, Disconnect, UpdateFrame,
     GetThreadMsg, DispatchMsg, CloseCall, DeleteReturns, TakeOperations, IdleRun,
     IdleWaitSessionClose, OnServerSocketClose, Run, RunReturns, PushExitLoop, OnIllegalHeart,
     vars, loopVars
<1> QED BY <1>3, <1>4, <1>6, <1>7, <1>9, <1>10, <1>11
        DEF Next, OnIdleRun, ExecuteStopServer, IdleClear, Peer, Finished

(* A session is freed only when libuv has nothing of its socket under way. *)
THEOREM FreedSessionIsQuiet == Spec => FreedWhenQuiet
<1>1. ASSUME ServerInv, [Next]_vars
      PROVE  [\A s \in SessionIDs :
                InMap(s) /\ ~InMap(s)' =>
                   ~m_allSession[s].closing /\ m_allSession[s].tcp = "null"]_vars
  BY <1>1, SessionsStay DEF Gone
<1> QED BY <1>1, Safety, PTL DEF Spec, FreedWhenQuiet

-----------------------------------------------------------------------------
(* Deleting.                                                               *)

(* Without the application polling no release is queued. *)
LEMMA JoiningStep ==
    ASSUME ServerInv, [Next]_vars, app = "joining", ~DeleteReturns
    PROVE  /\ app' = "joining"
           /\ \/ Operations' = Operations
              \/ Operations # <<>> /\ Operations' = Tail(Operations)
              \/ \E s \in SessionIDs : Operations' = Append(Operations, Op("DIS_SESSION", s))
<1>1. m_operationDispatchQue \in Seq(SessionOperation) /\ m_operationQue \in Seq(SessionOperation)
  BY DEF ServerInv, TypeOK
<1>2. ~ApiCall /\ ~UpdateFrame
  BY DEF ApiCall, StartServer, StopServer, Delete, Send, Disconnect, UpdateFrame, GetThreadMsg,
     DispatchMsg, CloseCall
<1>3. CASE UNCHANGED <<app, m_operationQue, m_operationDispatchQue>>
  BY <1>3 DEF Operations
<1>4. CASE TakeOperations
  <2>1. m_operationDispatchQue = <<>>
    BY <1>4 DEF ServerInv, StageInv, TakeOperations, LoopFree
  <2>2. Operations = m_operationQue /\ Operations' = m_operationQue
    BY <1>1, <1>4, <2>1, ConcatEmptySeq DEF TakeOperations, Operations
  <2> QED BY <1>4, <2>2 DEF TakeOperations, appVars
<1>5. ASSUME NEW type, Executing(type)
      PROVE  app' = "joining" /\ Operations # <<>> /\ Operations' = Tail(Operations)
  BY <1>5, ExecutingStreams DEF Executing, appVars
<1>6. ASSUME NEW s \in SessionIDs, OnIllegalHeart(s)
      PROVE  app' = "joining" /\ Operations' = Append(Operations, Op("DIS_SESSION", s))
  <2>1. Op("DIS_SESSION", s) \in SessionOperation
    BY OperationTypes DEF OperationType
  <2>2. /\ m_operationQue' = Append(m_operationQue, Op("DIS_SESSION", s))
        /\ UNCHANGED <<app, m_operationDispatchQue>>
    BY <1>6 DEF OnIllegalHeart, PushOperation, appVars, loopVars
  <2> QED BY <1>1, <2>1, <2>2, ConcatAppend DEF Operations
<1>7. ASSUME ExecuteSendData \/ ExecuteDisSession \/ ExecuteRelease \/ ExecuteStopServer
      PROVE  \E type : Executing(type)
  BY <1>7 DEF ExecuteSendData, ExecuteDisSession, ExecuteRelease, ExecuteStopServer
<1>8. ASSUME NEW s \in SessionIDs, NEW data, NEW msgs, Callback(s, data, msgs)
      PROVE  UNCHANGED <<app, m_operationQue, m_operationDispatchQue>>
  BY <1>8 DEF Callback, appVars
<1>9. ASSUME NEW s \in SessionIDs,
             \/ OnSessionRecvData(s) \/ OnIllegalData(s) \/ HeartbeatLost(s) \/ OnEof(s)
             \/ OnSessionClose(s)
      PROVE  UNCHANGED <<app, m_operationQue, m_operationDispatchQue>>
  BY <1>8, <1>9 DEF OnSessionRecvData, OnIllegalData, HeartbeatLost, OnEof, OnSessionClose
<1>10. ASSUME OnNewConnect PROVE UNCHANGED <<app, m_operationQue, m_operationDispatchQue>>
  BY <1>10 DEF OnNewConnect, Callback, appVars
<1>11. ASSUME IdleRun \/ IdleClear \/ IdleWaitSessionClose \/ OnServerSocketClose \/ Run
                 \/ UNCHANGED vars
       PROVE  UNCHANGED <<app, m_operationQue, m_operationDispatchQue>>
  BY <1>11 DEF IdleRun, IdleClear, IdleWaitSessionClose, IdleEnd, OnServerSocketClose, Run,
     RunReturns, PushExitLoop, vars, appVars, loopVars
<1> QED BY <1>2, <1>3, <1>4, <1>5, <1>6, <1>7, <1>9, <1>10, <1>11
        DEF Next, OnIdleRun, Peer, Finished

(* While ~TCPServer joins and a session needs the application to poll,     *)
(* every step leaves both as they are: the threads wait for each other.    *)
THEOREM JoinDeadlocks == Spec => DeleteDeadlocks
<1>1. ASSUME ServerInv, [Next]_vars, app = "joining", NEW s \in SessionIDs, NeedsPolling(s)
      PROVE  app' = "joining" /\ NeedsPolling(s)'
  <2>1. InMap(s) /\ \A i \in DOMAIN Operations : Operations[i] # Release(s)
    BY <1>1 DEF NeedsPolling, Releases
  <2>2. Operations \in Seq(SessionOperation)
    BY <1>1, StreamTypes DEF ServerInv
  <2>3. ~DeleteReturns
    BY <1>1, <2>1 DEF DeleteReturns, ServerInv, StageInv
  <2>4. InMap(s)'
    <3>1. Operations # <<>> => Head(Operations) # Release(s)
      BY <2>1, <2>2, TailIndex
    <3> QED BY <1>1, <2>1, <3>1, SessionsStay
  <2>5. \A i \in DOMAIN Operations' : Operations'[i] # Release(s)
    <3>1. CASE Operations' = Operations
      BY <2>1, <3>1
    <3>2. CASE Operations # <<>> /\ Operations' = Tail(Operations)
      <4>1. \A i \in DOMAIN Tail(Operations) : Tail(Operations)[i] # Release(s)
        BY <2>1, <2>2, <3>2, TailIndex
      <4> QED BY <3>2, <4>1
    <3>3. ASSUME NEW r \in SessionIDs, Operations' = Append(Operations, Op("DIS_SESSION", r))
          PROVE  \A i \in DOMAIN Operations' : Operations'[i] # Release(s)
      <4> DEFINE P == Append(Operations, Op("DIS_SESSION", r))
      <4>1. /\ Op("DIS_SESSION", r) \in SessionOperation
            /\ Op("DIS_SESSION", r) # Release(s)
        BY OperationTypes DEF OperationType, Op, Release
      <4>2. /\ Len(Operations) \in Nat /\ DOMAIN Operations = 1 .. Len(Operations)
            /\ DOMAIN P = 1 .. Len(Operations) + 1
            /\ \A i \in DOMAIN Operations : P[i] = Operations[i]
            /\ P[Len(Operations) + 1] = Op("DIS_SESSION", r)
        BY <2>2, <4>1, AppendIndex
      <4> HIDE DEF P
      <4>3. \A i \in DOMAIN P : i \in DOMAIN Operations \/ i = Len(Operations) + 1
        BY <4>2
      <4>4. \A i \in DOMAIN P : P[i] # Release(s)
        BY <2>1, <4>1, <4>2, <4>3
      <4>5. Operations' = P
        BY <3>3 DEF P
      <4> QED BY <4>4, <4>5
    <3> QED BY <1>1, <2>3, <3>1, <3>2, <3>3, JoiningStep
  <2>6. app' = "joining"
    BY <1>1, <2>3, JoiningStep
  <2> QED BY <2>4, <2>5, <2>6 DEF NeedsPolling, Releases
<1>2. ASSUME ServerInv, [Next]_vars
      PROVE  [app = "joining" /\ (\E s \in SessionIDs : NeedsPolling(s)) =>
                app' = "joining" /\ \E s \in SessionIDs : NeedsPolling(s)']_vars
  BY <1>1, <1>2
<1> QED BY <1>2, Safety, PTL DEF Spec, DeleteDeadlocks

-----------------------------------------------------------------------------
(* The contract.                                                           *)

LEMMA ContractInit == Init => Contract!Init
  BY DEF Init, Contract!Init

LEMMA DispatchContract ==
    ASSUME ServerInv, DispatchMsg
    PROVE  [Contract!Next]_(Contract!vars)
<1> DEFINE m == Head(Messages)
           s == m.sessionID
<1>1. /\ Messages # <<>> /\ m = Head(m_msgDispatchQue) /\ m \in NetThreadMsg
      /\ m.type # "EXIT_LOOP" => s \in SessionIDs
      /\ Messages \in Seq(NetThreadMsg)
  BY DispatchStreams, StreamTypes DEF ServerInv
<1>2. ~closed /\ app = "polling" /\ UNCHANGED <<m_start, app, closed>>
  BY <1>1 DEF ServerInv, ExitInv, DispatchMsg
<1>3. told' = IF m.type = "EXIT_LOOP" THEN told ELSE [told EXCEPT ![s] = Told(m.type)]
  BY <1>1 DEF DispatchMsg
<1> HIDE DEF m
<1>4. CASE m.type = "EXIT_LOOP"
  BY <1>2, <1>3, <1>4 DEF Contract!vars
<1>5. CASE m.type # "EXIT_LOOP"
  <2>1. s \in SessionIDs /\ m.type \in {"NEW_CONNECT", "RECV_DATA", "DIS_CONNECT"}
    BY <1>1, <1>5, AboutSession
  <2>2. /\ told[s] # "left" /\ told[s] \in {"none", "new", "talking", "left"}
        /\ m.type = "NEW_CONNECT" <=> told[s] = "none"
    <3>1. SessionInv(s, Messages, Operations, m_allSession[s], told[s])
      BY <2>1 DEF ServerInv
    <3>2. told[s] \in {"none", "new", "talking", "left"}
      BY <2>1 DEF ServerInv, TypeOK
    <3>3. told[s] # "left" /\ (IsNew(m, s) <=> told[s] = "none")
      BY <1>1, <3>1, HeardFrom DEF m
    <3> QED BY <3>2, <3>3 DEF IsNew
  <2>3. Contract!Tell(s, Told(m.type))
    BY <1>2, <1>3, <1>5 DEF Contract!Tell
  <2>4. CASE m.type = "NEW_CONNECT"
    BY <2>1, <2>2, <2>3, <2>4 DEF Told, Contract!NewConnect, Contract!Next
  <2>5. CASE m.type = "RECV_DATA"
    BY <2>1, <2>2, <2>3, <2>5 DEF Told, Contract!Received, Contract!Present, Contract!Next
  <2>6. CASE m.type = "DIS_CONNECT"
    BY <2>1, <2>2, <2>3, <2>6 DEF Told, Contract!Left, Contract!Present, Contract!Next
  <2> QED BY <2>1, <2>4, <2>5, <2>6
<1> QED BY <1>4, <1>5

LEMMA ContractStep ==
    ASSUME ServerInv, [Next]_vars
    PROVE  [Contract!Next]_(Contract!vars)
<1>1. CASE UNCHANGED <<told, m_start, app, closed>>
  BY <1>1 DEF Contract!vars
<1>2. CASE DispatchMsg
  BY <1>2, DispatchContract
<1>3. CASE StartServer
  BY <1>3 DEF StartServer, Contract!vars
<1>4. CASE StopServer
  BY <1>4 DEF StopServer, Contract!Stop, Contract!Next
<1>5. CASE Delete
  BY <1>5 DEF Delete, Contract!Stop, Contract!Next
<1>6. CASE CloseCall
  <2>1. loop = "exited"
    BY <1>6 DEF ServerInv, ExitInv, CloseCall
  <2>2. ~m_start /\ \A s \in SessionIDs : ~m_allSession[s].inMap
    BY <2>1 DEF ServerInv, StageInv, StopInv, InMap
  <2>3. \A s \in SessionIDs : told[s] \notin Contract!Present
    BY <2>2 DEF ServerInv, SessionInv, ComeInv, Contract!Present
  <2> QED BY <1>6, <2>2, <2>3 DEF CloseCall, Contract!Closed, Contract!Next
<1>7. CASE DeleteReturns
  <2>1. ~m_start
    BY <1>7 DEF ServerInv, StageInv, DeleteReturns
  <2> QED BY <1>7, <2>1 DEF DeleteReturns, Contract!Delete, Contract!Next
<1>8. ASSUME NEW s \in SessionIDs, Send(s) \/ Disconnect(s)
      PROVE  UNCHANGED <<told, m_start, app, closed>>
  BY <1>8 DEF Send, Disconnect, appVars
<1>9. ASSUME GetThreadMsg PROVE UNCHANGED <<told, m_start, app, closed>>
  BY <1>9 DEF GetThreadMsg
<1>10. ASSUME OnIdleRun \/ OnServerSocketClose \/ Run
       PROVE  UNCHANGED <<told, m_start, app, closed>>
  BY <1>10 DEF OnIdleRun, TakeOperations, ExecuteSendData, ExecuteDisSession, ExecuteRelease,
     ExecuteStopServer, Executing, IdleRun, IdleClear, IdleWaitSessionClose, IdleEnd,
     OnServerSocketClose, Run, RunReturns, PushExitLoop, appVars
<1>11. ASSUME Peer \/ \E s \in SessionIDs : OnSessionClose(s)
       PROVE  UNCHANGED <<told, m_start, app, closed>>
  BY <1>11 DEF Peer, OnNewConnect, OnSessionRecvData, OnIllegalData, OnIllegalHeart,
     HeartbeatLost, OnEof, OnSessionClose, Callback, appVars
<1>12. ASSUME UNCHANGED vars PROVE UNCHANGED <<told, m_start, app, closed>>
  BY <1>12 DEF vars, appVars
<1> QED BY <1>1, <1>2, <1>3, <1>4, <1>5, <1>6, <1>7, <1>8, <1>9, <1>10, <1>11, <1>12
        DEF Next, ApiCall, UpdateFrame, Finished

(* The server keeps what ServerContract promises: each session comes,      *)
(* talks and leaves, in this order and each on its own, and the server is  *)
(* closed when all that came have left.                                    *)
THEOREM KeepsContract == Spec => ContractSpec
<1>1. Init => Contract!Init
  BY ContractInit
<1>2. ServerInv /\ [Next]_vars => [Contract!Next]_(Contract!vars)
  BY ContractStep
<1> QED BY <1>1, <1>2, Safety, PTL DEF Spec, ContractSpec, Contract!Spec
=============================================================================
