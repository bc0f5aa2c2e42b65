---------------------------- MODULE P2PPeerProofs ----------------------------
(* The safety of P2PPeer, for any number of peers on either kind of network,  *)
(* any calls and any bounds: PeersInv is inductive.                           *)
(*                                                                            *)
(* The invariant says why two maps with keys of different kinds stay in step: *)
(* a request is filed under the public key of a peer that was called, a       *)
(* session under the key its datagrams carry, and between the two there is,   *)
(* per peer, at most one of each.  A walk that removes several sessions is    *)
(* proved about by induction over the walk (NatSetInduction).                 *)
EXTENDS P2PPeer, Streams

---------------------------------------------------------------------------
(* The invariant *)

\* The key that the datagrams of q carry, where l says if there is a local
\* network: At(lan, q) is Seen(q).
At(l, q) == <<q, IF l THEN "lan" ELSE "public">>
IsAt(l, k) == k = At(l, Owner(k))

\* Where the data of the request or session r of s goes
ViaOf(s, r) == IF s.mng[r].sendTo = NoKey THEN r ELSE s.mng[r].sendTo
Requested(s, r) == s.mng[r].state # "none"

\* A request is one for a peer in C, those called; it is sent to that peer, and
\* when it is connected there is a session.
RequestInv(l, s, C, r) ==
    IF Requested(s, r)
    THEN /\ r = Public(Owner(r)) /\ Owner(r) \in C
         /\ s.mng[r].sendTo \in {NoKey, At(l, Owner(r))}
         /\ s.mng[r].state = "CONNECT" => s.session[ViaOf(s, r)] = "kcp"
    ELSE s.mng[r] = NoRequest

\* A session has the key of its datagrams.
SessionInv(l, s, k) == s.session[k] # "none" => IsAt(l, k)

\* So has an accepted client, which is connected unless it was called, too.
AcceptInv(l, s, C, k) == IsAt(l, k) /\ (s.session[k] = "kcp" \/ Owner(k) \in C)

\* What was announced is connected, and whoever loses its session will find the
\* entry by which it was announced; a client called under its public key is
\* the exception.
OpenInv(l, s, C, k) ==
    \/ l /\ Owner(k) \in C
    \/ /\ k \in s.accept \/ Requested(s, k)
       /\ s.session[ViaOf(s, k)] = "kcp"

PeerInv(l, s, C) ==
    /\ s \in PeerStates
    /\ \A k \in Keys : RequestInv(l, s, C, k) /\ SessionInv(l, s, k)
    /\ \A k \in s.accept : AcceptInv(l, s, C, k)
    /\ \A k \in s.open : OpenInv(l, s, C, k)

\* What a datagram m tells
NetInv(l, m) ==
    /\ m.type \in {"PING", "PONG", "HELLO", "CREATE_KCP", "CREATE_KCP_RESULT",
                   "C2C_DISCONNECT"} => m.from \in Keys /\ IsAt(l, m.from)
    /\ m.type = "START_BURROW" => m.arg \in Keys
    /\ m.type = "CHECK_PEER" => \E p, q \in Peers : m.from = Public(p) /\ m.arg = Public(q)
    /\ m.type = "CHECK_PEER_RESULT" =>
          \E q \in Peers :
             /\ m.arg.toKey = Public(q)
             /\ \/ m.arg.code \in {0, 1} /\ m.arg.tarAddr = At(l, q)
                \/ m.arg.code = 2 /\ m.arg.tarAddr = Public(q)

Called(p) == {q \in Peers : HasCalled(p, q)}

\* The inductive invariant: types, every peer, and what is in flight
PeersInv ==
    /\ TypeOK
    /\ \A p \in Peers : PeerInv(lan, peer[p], Called(p))
    /\ \A m \in net : NetInv(lan, m)

---------------------------------------------------------------------------
(* Keys *)

\* A peer's keys are its own, and differ when there is a local network.
LEMMA KeyFacts ==
    ASSUME NEW l \in BOOLEAN
    PROVE  /\ NoKey \notin Keys
           /\ \A k \in Keys : Owner(k) \in Peers
           /\ \A q \in Peers : /\ Public(q) \in Keys /\ Owner(Public(q)) = q
                               /\ At(l, q) \in Keys /\ Owner(At(l, q)) = q
                               /\ IsAt(l, At(l, q))
                               /\ At(l, q) = Public(q) <=> ~l
  BY DEF NoKey, Keys, Owner, Public, At, IsAt

\* The bounds are numbers.
LEMMA Bounds == MaxTry \in Nat /\ MaxNoResponse \in Nat /\ MaxHello \in Nat /\ MaxNet \in Nat
                  /\ MaxCalls \in Nat /\ MaxHangups \in Nat /\ MaxStops \in Nat
  BY BoundsAssumption

\* A peer that was just made
LEMMA FreshInv ==
    ASSUME NEW l \in BOOLEAN, NEW C
    PROVE  PeerInv(l, Fresh, C)
  BY Bounds, KeyFacts DEF PeerInv, Fresh, PeerStates, RequestInv, SessionInv, NoRequest, Requests,
     NoBurrow, Burrows, Requested

\* Where data goes
LEMMA ViaIs ==
    ASSUME NEW l \in BOOLEAN, NEW s, NEW C, PeerInv(l, s, C)
    PROVE  \A r \in Keys : /\ ViaOf(s, r) \in Keys /\ Owner(ViaOf(s, r)) = Owner(r)
                           /\ ~l \/ ~Requested(s, r) => ViaOf(s, r) = r
                           /\ s.mng[r].sendTo \in Keys => ViaOf(s, r) = s.mng[r].sendTo
                           /\ Requested(s, r) => r = Public(Owner(r)) /\ Owner(r) \in C
<1>1. \A r \in Keys : RequestInv(l, s, C, r) /\ Owner(r) \in Peers
  BY KeyFacts DEF PeerInv
<1> QED BY <1>1, KeyFacts DEF RequestInv, ViaOf, NoRequest

\* The request that a session serves is the one for its peer.
LEMMA ServingIs ==
    ASSUME NEW l \in BOOLEAN, NEW s, NEW C, PeerInv(l, s, C), NEW k \in Keys, IsAt(l, k)
    PROVE  /\ \A r \in Serving(s, k) : /\ r \in Keys /\ Requested(s, r) /\ ViaOf(s, r) = k
                                       /\ r = Public(Owner(k)) /\ Owner(r) = Owner(k)
                                       /\ Owner(k) \in C
           /\ \A r \in Keys : Requested(s, r) /\ ViaOf(s, r) = k => r \in Serving(s, k)
           /\ ViaOf(s, k) = k
<1>1. l => ~Requested(s, k)
  <2>1. ASSUME l, Requested(s, k) PROVE FALSE
    <3>1. k = Public(Owner(k))
      BY <2>1, ViaIs
    <3>2. At(l, Owner(k)) # Public(Owner(k))
      BY <2>1, KeyFacts
    <3> QED BY <3>1, <3>2 DEF IsAt
  <2> QED BY <2>1
<1>2. ViaOf(s, k) = k
  BY <1>1, ViaIs
<1>3. ASSUME NEW r \in Serving(s, k)
      PROVE  r \in Keys /\ Requested(s, r) /\ ViaOf(s, r) = k
  <2>1. CASE Requested(s, k)
    BY <1>2, <1>3, <2>1 DEF Serving, Requested
  <2>2. CASE ~Requested(s, k)
    BY <1>3, <2>2, ViaIs DEF Serving, Requested
  <2> QED BY <2>1, <2>2
<1>4. ASSUME NEW r \in Keys, Requested(s, r), ViaOf(s, r) = k
      PROVE  r \in Serving(s, k)
  <2>1. CASE Requested(s, k)
    BY <1>1, <1>4, <2>1, ViaIs DEF Serving, Requested
  <2>2. CASE ~Requested(s, k)
    <3>1. s.mng[r].sendTo = k
      BY <1>4, <2>2 DEF ViaOf
    <3> QED BY <1>4, <2>2, <3>1 DEF Serving, Requested
  <2> QED BY <2>1, <2>2
<1> QED BY <1>2, <1>3, <1>4, ViaIs

---------------------------------------------------------------------------
(* The fields of a peer *)

\* What they hold
LEMMA PeerFields ==
    ASSUME NEW s \in PeerStates
    PROVE  /\ s.session \in [Keys -> {"none", "plain", "kcp"}]
           /\ s.noResponse \in [Keys -> 0 .. MaxNoResponse + 1]
           /\ s.mng \in [Keys -> Requests]
           /\ s.accept \in SUBSET Keys
           /\ s.burrow \in [Keys -> Burrows]
           /\ s.open \in SUBSET Keys
           /\ s.up \in BOOLEAN
  BY DEF PeerStates

\* Putting a value of its type into one of them
LEMMA PeerUpdates ==
    ASSUME NEW s \in PeerStates
    PROVE  /\ \A f \in [Keys -> {"none", "plain", "kcp"}] : [s EXCEPT !.session = f] \in PeerStates
           /\ \A f \in [Keys -> 0 .. MaxNoResponse + 1] : [s EXCEPT !.noResponse = f] \in PeerStates
           /\ \A f \in [Keys -> Requests] : [s EXCEPT !.mng = f] \in PeerStates
           /\ \A f \in SUBSET Keys : [s EXCEPT !.accept = f] \in PeerStates
           /\ \A f \in [Keys -> Burrows] : [s EXCEPT !.burrow = f] \in PeerStates
           /\ \A f \in SUBSET Keys : [s EXCEPT !.open = f] \in PeerStates
           /\ \A f \in BOOLEAN : [s EXCEPT !.up = f] \in PeerStates
<1> DEFINE S1 == [Keys -> {"none", "plain", "kcp"}]
           S2 == [Keys -> 0 .. MaxNoResponse + 1]
           S3 == [Keys -> Requests]
           S4 == SUBSET Keys
           S5 == [Keys -> Burrows]
<1>1. PeerStates = [up: BOOLEAN, session: S1, noResponse: S2, mng: S3, accept: S4, burrow: S5,
                    open: S4]
  BY DEF PeerStates
<1> HIDE DEF S1, S2, S3, S4, S5
<1>2. \A f \in S1 : [s EXCEPT !.session = f] \in PeerStates
  BY <1>1
<1>3. \A f \in S2 : [s EXCEPT !.noResponse = f] \in PeerStates
  BY <1>1
<1>4. \A f \in S3 : [s EXCEPT !.mng = f] \in PeerStates
  BY <1>1
<1>5. \A f \in S4 : [s EXCEPT !.accept = f] \in PeerStates
  BY <1>1
<1>6. \A f \in S5 : [s EXCEPT !.burrow = f] \in PeerStates
  BY <1>1
<1>7. \A f \in S4 : [s EXCEPT !.open = f] \in PeerStates
  BY <1>1
<1>8. \A f \in BOOLEAN : [s EXCEPT !.up = f] \in PeerStates
  BY <1>1
<1> USE DEF S1, S2, S3, S4, S5
<1> QED BY <1>2, <1>3, <1>4, <1>5, <1>6, <1>7, <1>8

---------------------------------------------------------------------------
(* The pipe's operations on one peer *)

\* Hearing from k
LEMMA RecvKeeps ==
    ASSUME NEW l \in BOOLEAN, NEW s, NEW C, PeerInv(l, s, C), NEW k \in Keys, IsAt(l, k)
    PROVE  PeerInv(l, RecvData(s, k), C)
<1> DEFINE t == RecvData(s, k)
<1>0. s \in PeerStates
  BY DEF PeerInv
<1>1. t \in PeerStates
  <2> DEFINE f == [s.session EXCEPT ![k] = IF @ = "none" THEN "plain" ELSE @]
             g == [s.noResponse EXCEPT ![k] = 0]
             a == [s EXCEPT !.session = f]
             b == [a EXCEPT !.noResponse = g]
  <2>1. f \in [Keys -> {"none", "plain", "kcp"}] /\ g \in [Keys -> 0 .. MaxNoResponse + 1]
    BY <1>0, PeerFields, Bounds
  <2>2. t = b
    BY <1>0 DEF PeerStates, RecvData
  <2> HIDE DEF f, g, a, b, t
  <2>3. a \in PeerStates
    BY <1>0, <2>1, PeerUpdates DEF a
  <2>4. b \in PeerStates
    BY <2>1, <2>3, PeerUpdates DEF b
  <2> QED BY <2>2, <2>4
<1>2. /\ t.mng = s.mng /\ t.accept = s.accept /\ t.open = s.open
      /\ \A j \in Keys : t.session[j] = s.session[j] \/ (j = k /\ s.session[j] = "none")
  BY DEF PeerInv, PeerStates, RecvData
<1> HIDE DEF t
<1>3. \A j \in Keys : s.session[j] = "kcp" => t.session[j] = "kcp"
  BY <1>2
<1>4. \A j \in Keys : ViaOf(t, j) = ViaOf(s, j) /\ Requested(t, j) = Requested(s, j)
  BY <1>2 DEF ViaOf, Requested
<1>5. \A j \in Keys : ViaOf(s, j) \in Keys
  BY ViaIs
<1>6. s.accept \subseteq Keys /\ s.open \subseteq Keys
  BY DEF PeerInv, PeerStates
<1>7. ASSUME NEW j \in Keys PROVE RequestInv(l, t, C, j) /\ SessionInv(l, t, j)
  <2>1. RequestInv(l, s, C, j) /\ SessionInv(l, s, j)
    BY DEF PeerInv
  <2> QED BY <1>2, <1>3, <1>4, <1>5, <2>1 DEF RequestInv, SessionInv
<1>8. ASSUME NEW j \in s.accept PROVE AcceptInv(l, t, C, j)
  BY <1>3, <1>6, <1>8 DEF PeerInv, AcceptInv
<1>9. ASSUME NEW j \in s.open PROVE OpenInv(l, t, C, j)
  <2>1. OpenInv(l, s, C, j)
    BY DEF PeerInv
  <2> QED BY <1>2, <1>3, <1>4, <1>5, <1>6, <2>1 DEF OpenInv
<1>10. PeerInv(l, t, C)
  BY <1>1, <1>2, <1>7, <1>8, <1>9 DEF PeerInv
<1> QED BY <1>10 DEF t

\* A peer whose requests, clients and sessions are those of another
LEMMA SamePeer ==
    ASSUME NEW l, NEW s, NEW C, PeerInv(l, s, C), NEW t \in PeerStates,
           t.mng = s.mng, t.accept = s.accept, t.open = s.open, t.session = s.session
    PROVE  PeerInv(l, t, C)
  BY DEF PeerInv, RequestInv, SessionInv, AcceptInv, OpenInv, Requested, ViaOf

\* A KCP session is made, and is announced to whoever asked for it.
LEMMA CreateKeeps ==
    ASSUME NEW l \in BOOLEAN, NEW s, NEW C, PeerInv(l, s, C), NEW k \in Keys, IsAt(l, k),
           NEW tag \in {0, 1}
    PROVE  PeerInv(l, CreateKcp(s, k, tag), C)
<1> SUFFICES ASSUME s.session[k] = "plain"
             PROVE  PeerInv(l, OnNewKcp([s EXCEPT !.session[k] = "kcp"], k, tag), C)
  BY DEF CreateKcp
<1> DEFINE t == [[s EXCEPT !.session[k] = "kcp"] EXCEPT !.burrow[k] = NoBurrow]
<1>0. s \in PeerStates
  BY DEF PeerInv
<1>1. t \in PeerStates
  <2> DEFINE f == [s.session EXCEPT ![k] = "kcp"]
             g == [s.burrow EXCEPT ![k] = NoBurrow]
             a == [s EXCEPT !.session = f]
             b == [a EXCEPT !.burrow = g]
  <2>1. NoBurrow \in Burrows
    BY Bounds DEF NoBurrow, Burrows
  <2>2. f \in [Keys -> {"none", "plain", "kcp"}] /\ g \in [Keys -> Burrows]
    BY <1>0, <2>1, PeerFields
  <2>3. t = b
    BY <1>0 DEF PeerStates
  <2> HIDE DEF f, g, a, b, t
  <2>4. a \in PeerStates
    BY <1>0, <2>2, PeerUpdates DEF a
  <2>5. b \in PeerStates
    BY <2>2, <2>4, PeerUpdates DEF b
  <2> QED BY <2>3, <2>5
<1>2. /\ t.mng = s.mng /\ t.accept = s.accept /\ t.open = s.open
      /\ t.session[k] = "kcp" /\ \A j \in Keys : j # k => t.session[j] = s.session[j]
  BY DEF PeerInv, PeerStates
<1>3. OnNewKcp([s EXCEPT !.session[k] = "kcp"], k, tag)
        = IF tag = 0
          THEN IF Serving(t, k) = {} THEN t
               ELSE ConnectSuc(t, CHOOSE r \in Serving(t, k) : TRUE, k)
          ELSE IF k \in t.accept THEN t
               ELSE Report([t EXCEPT !.accept = @ \cup {k}], k)
  BY DEF OnNewKcp
<1> HIDE DEF t
<1>4. PeerInv(l, t, C)
  <2>1. \A j \in Keys : s.session[j] = "kcp" => t.session[j] = "kcp"
    BY <1>2
  <2>2. \A j \in Keys : ViaOf(t, j) = ViaOf(s, j) /\ Requested(t, j) = Requested(s, j)
    BY <1>2 DEF ViaOf, Requested
  <2>3. \A j \in Keys : ViaOf(s, j) \in Keys
    BY ViaIs
  <2>4. s.accept \subseteq Keys /\ s.open \subseteq Keys
    BY DEF PeerInv, PeerStates
  <2>5. ASSUME NEW j \in Keys PROVE RequestInv(l, t, C, j) /\ SessionInv(l, t, j)
    <3>1. RequestInv(l, s, C, j) /\ SessionInv(l, s, j)
      BY DEF PeerInv
    <3> QED BY <1>2, <2>1, <2>2, <2>3, <3>1 DEF RequestInv, SessionInv
  <2>6. ASSUME NEW j \in s.accept PROVE AcceptInv(l, t, C, j)
    BY <2>1, <2>4, <2>6 DEF PeerInv, AcceptInv
  <2>7. ASSUME NEW j \in s.open PROVE OpenInv(l, t, C, j)
    <3>1. OpenInv(l, s, C, j)
      BY DEF PeerInv
    <3> QED BY <1>2, <2>1, <2>2, <2>3, <2>4, <3>1 DEF OpenInv
  <2> QED BY <1>1, <1>2, <2>5, <2>6, <2>7 DEF PeerInv
<1>5. CASE tag = 0 /\ Serving(t, k) # {}
  <2>1. PICK r \in Serving(t, k) : r = CHOOSE x \in Serving(t, k) : TRUE
    BY <1>5
  <2>2. r \in Keys /\ Requested(t, r) /\ ViaOf(t, r) = k
    BY <1>4, <2>1, ServingIs
  <2> DEFINE u == Report([t EXCEPT !.mng[r].state = "CONNECT"], r)
  <2>3. u \in PeerStates
    <3> DEFINE f == [t.mng EXCEPT ![r].state = "CONNECT"]
               a == [t EXCEPT !.mng = f]
               o == t.open \cup {r}
    <3>1. t.mng[r] \in Requests
      BY <1>1, <2>2, PeerFields
    <3>2. [t.mng[r] EXCEPT !.state = "CONNECT"] \in Requests
      BY <3>1 DEF Requests
    <3>3. f \in [Keys -> Requests] /\ o \in SUBSET Keys
      BY <1>1, <2>2, <3>2, PeerFields
    <3>4. u = [a EXCEPT !.open = o]
      BY <1>1 DEF Report, PeerStates
    <3> HIDE DEF f, a, o, u
    <3>5. a \in PeerStates
      BY <1>1, <3>3, PeerUpdates DEF a
    <3> QED BY <3>3, <3>4, <3>5, PeerUpdates
  <2>4. /\ u.accept = t.accept /\ u.session = t.session /\ u.open = t.open \cup {r}
        /\ \A j \in Keys : j # r => u.mng[j] = t.mng[j]
        /\ u.mng[r].state = "CONNECT" /\ u.mng[r].sendTo = t.mng[r].sendTo
    BY <1>1, <2>2 DEF Report, PeerStates, Requests
  <2> HIDE DEF u
  <2>5. \A j \in Keys : ViaOf(u, j) = ViaOf(t, j) /\ Requested(u, j) = Requested(t, j)
    BY <2>2, <2>4 DEF ViaOf, Requested
  <2>6. ASSUME NEW j \in Keys PROVE RequestInv(l, u, C, j) /\ SessionInv(l, u, j)
    <3>1. RequestInv(l, t, C, j) /\ SessionInv(l, t, j)
      BY <1>4 DEF PeerInv
    <3> QED BY <1>2, <2>2, <2>4, <2>5, <3>1 DEF RequestInv, SessionInv
  <2>7. ASSUME NEW j \in t.accept PROVE AcceptInv(l, u, C, j)
    BY <1>4, <2>4 DEF PeerInv, AcceptInv
  <2>8. ASSUME NEW j \in u.open PROVE OpenInv(l, u, C, j)
    <3>1. CASE j = r
      BY <1>2, <2>2, <2>4, <2>5, <3>1 DEF OpenInv
    <3>2. CASE j # r
      <4>1. j \in t.open /\ j \in Keys
        BY <2>4, <2>8, <3>2, <1>1 DEF PeerStates
      <4> QED BY <1>4, <2>4, <2>5, <4>1 DEF PeerInv, OpenInv
    <3> QED BY <3>1, <3>2
  <2>9. PeerInv(l, u, C)
    BY <2>3, <2>4, <2>6, <2>7, <2>8 DEF PeerInv
  <2>10. ConnectSuc(t, r, k) = t \/ ConnectSuc(t, r, k) = u
    BY DEF ConnectSuc, u
  <2> QED BY <1>3, <1>4, <1>5, <2>1, <2>9, <2>10
<1>6. CASE tag = 1 /\ k \notin t.accept
  <2> DEFINE u == Report([t EXCEPT !.accept = @ \cup {k}], k)
  <2>1. u \in PeerStates
    BY <1>1 DEF Report, PeerStates
  <2>2. /\ u.accept = t.accept \cup {k} /\ u.session = t.session /\ u.open = t.open \cup {k}
        /\ u.mng = t.mng
    BY <1>1 DEF Report, PeerStates
  <2> HIDE DEF u
  <2>3. \A j \in Keys : ViaOf(u, j) = ViaOf(t, j) /\ Requested(u, j) = Requested(t, j)
    BY <2>2 DEF ViaOf, Requested
  <2>4. ASSUME NEW j \in Keys PROVE RequestInv(l, u, C, j) /\ SessionInv(l, u, j)
    BY <1>4, <2>2, <2>3 DEF PeerInv, RequestInv, SessionInv
  <2>5. ASSUME NEW j \in u.accept PROVE AcceptInv(l, u, C, j)
    BY <1>2, <1>4, <2>2, <2>5 DEF PeerInv, AcceptInv
  <2>6. ViaOf(t, k) = k
    BY <1>4, ServingIs
  <2>7. ASSUME NEW j \in u.open PROVE OpenInv(l, u, C, j)
    <3>1. CASE j = k
      BY <1>2, <2>2, <2>3, <2>6, <3>1 DEF OpenInv
    <3>2. CASE j # k
      <4>1. j \in t.open /\ j \in Keys
        BY <2>2, <2>7, <3>2, <1>1 DEF PeerStates
      <4> QED BY <1>4, <2>2, <2>3, <4>1 DEF PeerInv, OpenInv
    <3> QED BY <3>1, <3>2
  <2>8. PeerInv(l, u, C)
    BY <2>1, <2>2, <2>4, <2>5, <2>7 DEF PeerInv
  <2> QED BY <1>3, <1>6, <2>8 DEF u
<1> QED BY <1>3, <1>4, <1>5, <1>6

\* Losing the session k: the entry under which it was announced is found.
LEMMA RemoveKeeps ==
    ASSUME NEW l \in BOOLEAN, NEW s, NEW C, PeerInv(l, s, C), NEW k \in Keys, IsAt(l, k)
    PROVE  PeerInv(l, RemoveSession(s, k), C)
<1> DEFINE t == OnRemoveSession(s, k)
           u == RemoveSession(s, k)
<1>0. s \in PeerStates /\ s.accept \subseteq Keys /\ s.open \subseteq Keys
  BY DEF PeerInv, PeerStates
<1>1. ASSUME t \in PeerStates, t.session = s.session
      PROVE  /\ u \in PeerStates /\ u.mng = t.mng /\ u.accept = t.accept /\ u.open = t.open
             /\ u.session[k] = "none" /\ \A j \in Keys : j # k => u.session[j] = s.session[j]
  <2> HIDE DEF t
  <2> DEFINE f == [t.session EXCEPT ![k] = "none"]
             g == [t.noResponse EXCEPT ![k] = 0]
             a == [t EXCEPT !.session = f]
             b == [a EXCEPT !.noResponse = g]
  <2>1. f \in [Keys -> {"none", "plain", "kcp"}] /\ g \in [Keys -> 0 .. MaxNoResponse + 1]
    BY <1>1, PeerFields, Bounds
  <2>2. u = b
    BY <1>1 DEF PeerStates, RemoveSession, t
  <2>3. b.mng = t.mng /\ b.accept = t.accept /\ b.open = t.open /\ b.session = f
    BY <1>1 DEF PeerStates
  <2>4. f[k] = "none" /\ \A j \in Keys : j # k => f[j] = s.session[j]
    BY <1>1, PeerFields
  <2> HIDE DEF f, g, a, b, u
  <2>5. a \in PeerStates
    BY <1>1, <2>1, PeerUpdates DEF a
  <2>6. b \in PeerStates
    BY <2>1, <2>5, PeerUpdates DEF b
  <2> QED BY <2>2, <2>3, <2>4, <2>6
<1>2. CASE Serving(s, k) # {}
  <2>1. PICK r \in Serving(s, k) : r = CHOOSE x \in Serving(s, k) : TRUE
    BY <1>2
  <2>2. r \in Keys /\ Requested(s, r) /\ ViaOf(s, r) = k /\ r = Public(Owner(k))
          /\ Owner(r) = Owner(k) /\ Owner(k) \in C
    BY <2>1, ServingIs
  <2>3. t = ReportLost([s EXCEPT !.mng[r] = NoRequest], r)
    BY <1>2, <2>1 DEF OnRemoveSession
  <2>4. t \in PeerStates /\ t.session = s.session /\ t.accept = s.accept
          /\ t.open = s.open \ {r} /\ t.mng = [s.mng EXCEPT ![r] = NoRequest]
    <3> DEFINE f == [s.mng EXCEPT ![r] = NoRequest]
               a == [s EXCEPT !.mng = f]
               o == s.open \ {r}
               b == [a EXCEPT !.open = o]
    <3>1. NoRequest \in Requests
      BY Bounds DEF NoRequest, Requests
    <3>2. f \in [Keys -> Requests] /\ o \in SUBSET Keys
      BY <1>0, <3>1, PeerFields
    <3>3. t = b
      BY <1>0, <2>3 DEF ReportLost, PeerStates
    <3>4. b.session = s.session /\ b.accept = s.accept /\ b.open = o /\ b.mng = f
      BY <1>0 DEF PeerStates
    <3> HIDE DEF a, b, t
    <3>5. a \in PeerStates
      BY <1>0, <3>2, PeerUpdates DEF a
    <3>6. b \in PeerStates
      BY <3>2, <3>5, PeerUpdates DEF b
    <3> QED BY <3>3, <3>4, <3>6
  <2>5. \A j \in Keys : j # r => t.mng[j] = s.mng[j]
    BY <2>4, <1>0 DEF PeerStates
  <2>6. t.mng[r] = NoRequest
    BY <2>2, <2>4, <1>0 DEF PeerStates
  <2> HIDE DEF t, u
  <2>7. /\ u \in PeerStates /\ u.accept = s.accept /\ u.open = s.open \ {r}
        /\ u.mng[r] = NoRequest /\ \A j \in Keys : j # r => u.mng[j] = s.mng[j]
        /\ u.session[k] = "none" /\ \A j \in Keys : j # k => u.session[j] = s.session[j]
    BY <1>1, <2>4, <2>5, <2>6
  <2>8. \A j \in Keys : j # r => ViaOf(u, j) = ViaOf(s, j) /\ Requested(u, j) = Requested(s, j)
    BY <2>7 DEF ViaOf, Requested
  <2>9. \A j \in Keys : Requested(s, j) /\ ViaOf(s, j) = k => j = r
    BY <2>2, ServingIs
  <2>10. \A j \in Keys : ViaOf(s, j) \in Keys /\ Owner(ViaOf(s, j)) = Owner(j)
    BY ViaIs
  <2>11. ~l => \A j \in Keys : ViaOf(s, j) = j
    BY ViaIs
  <2>12. ASSUME NEW j \in Keys PROVE RequestInv(l, u, C, j) /\ SessionInv(l, u, j)
    <3>1. RequestInv(l, s, C, j) /\ SessionInv(l, s, j)
      BY DEF PeerInv
    <3>2. SessionInv(l, u, j)
      BY <2>7, <3>1 DEF SessionInv
    <3>3. CASE j = r
      BY <2>7, <3>2, <3>3 DEF RequestInv, Requested, NoRequest
    <3>4. CASE j # r
      BY <2>7, <2>8, <2>9, <2>10, <3>1, <3>2, <3>4 DEF RequestInv
    <3> QED BY <3>3, <3>4
  <2>13. ASSUME NEW j \in s.accept PROVE AcceptInv(l, u, C, j)
    <3>1. AcceptInv(l, s, C, j) /\ j \in Keys
      BY <1>0 DEF PeerInv
    <3> QED BY <2>2, <2>7, <3>1 DEF AcceptInv
  <2>14. ASSUME NEW j \in u.open PROVE OpenInv(l, u, C, j)
    <3>1. OpenInv(l, s, C, j) /\ j \in Keys /\ j # r
      BY <1>0, <2>7, <2>14 DEF PeerInv
    <3>2. CASE ViaOf(s, j) = k
      BY <2>2, <2>10, <2>11, <3>1, <3>2 DEF OpenInv
    <3>3. CASE ViaOf(s, j) # k
      BY <2>7, <2>8, <2>10, <3>1, <3>3 DEF OpenInv
    <3> QED BY <3>2, <3>3
  <2>15. PeerInv(l, u, C)
    BY <2>7, <2>12, <2>13, <2>14 DEF PeerInv
  <2> QED BY <2>15 DEF u
<1>3. CASE Serving(s, k) = {}
  <2>1. t = IF k \in s.accept THEN ReportLost([s EXCEPT !.accept = @ \ {k}], k) ELSE s
    BY <1>3 DEF OnRemoveSession
  <2>2. t \in PeerStates /\ t.session = s.session /\ t.mng = s.mng
          /\ t.accept = s.accept \ {k}
          /\ t.open = IF k \in s.accept THEN s.open \ {k} ELSE s.open
    <3>1. CASE k \notin s.accept
      BY <1>0, <2>1, <3>1
    <3>2. CASE k \in s.accept
      <4> DEFINE A == s.accept \ {k}
                 a == [s EXCEPT !.accept = A]
                 o == s.open \ {k}
                 b == [a EXCEPT !.open = o]
      <4>1. A \in SUBSET Keys /\ o \in SUBSET Keys
        BY <1>0
      <4>2. t = b
        BY <1>0, <2>1, <3>2 DEF ReportLost, PeerStates
      <4>3. b.session = s.session /\ b.accept = A /\ b.open = o /\ b.mng = s.mng
        BY <1>0 DEF PeerStates
      <4> HIDE DEF a, b, t
      <4>4. a \in PeerStates
        BY <1>0, <4>1, PeerUpdates DEF a
      <4>5. b \in PeerStates
        BY <4>1, <4>4, PeerUpdates DEF b
      <4> QED BY <3>2, <4>2, <4>3, <4>5
    <3> QED BY <3>1, <3>2
  <2> HIDE DEF t, u
  <2>3. /\ u \in PeerStates /\ u.mng = s.mng /\ u.accept = s.accept \ {k}
        /\ u.open = IF k \in s.accept THEN s.open \ {k} ELSE s.open
        /\ u.session[k] = "none" /\ \A j \in Keys : j # k => u.session[j] = s.session[j]
    BY <1>1, <2>2
  <2>4. \A j \in Keys : ViaOf(u, j) = ViaOf(s, j) /\ Requested(u, j) = Requested(s, j)
    BY <2>3 DEF ViaOf, Requested
  <2>5. \A j \in Keys : ~(Requested(s, j) /\ ViaOf(s, j) = k)
    BY <1>3, ServingIs
  <2>6. \A j \in Keys : ViaOf(s, j) \in Keys /\ (ViaOf(s, j) = k => j = k)
    BY <2>5, ViaIs
  <2>7. ~Requested(s, k)
    BY <2>5, ServingIs
  <2>8. ASSUME NEW j \in Keys PROVE RequestInv(l, u, C, j) /\ SessionInv(l, u, j)
    <3>1. RequestInv(l, s, C, j) /\ SessionInv(l, s, j)
      BY DEF PeerInv
    <3> QED BY <2>3, <2>4, <2>5, <2>6, <3>1 DEF RequestInv, SessionInv
  <2>9. ASSUME NEW j \in u.accept PROVE AcceptInv(l, u, C, j)
    <3>1. AcceptInv(l, s, C, j) /\ j \in Keys /\ j # k
      BY <1>0, <2>3, <2>9 DEF PeerInv
    <3> QED BY <2>3, <3>1 DEF AcceptInv
  <2>10. ASSUME NEW j \in u.open PROVE OpenInv(l, u, C, j)
    <3>1. OpenInv(l, s, C, j) /\ j \in Keys
      BY <1>0, <2>3, <2>10 DEF PeerInv
    <3>2. CASE j = k
      BY <2>3, <2>7, <2>10, <3>1, <3>2 DEF OpenInv
    <3>3. CASE j # k
      BY <2>3, <2>4, <2>6, <3>1, <3>3 DEF OpenInv
    <3> QED BY <3>2, <3>3
  <2>11. PeerInv(l, u, C)
    BY <2>3, <2>8, <2>9, <2>10 DEF PeerInv
  <2> QED BY <2>11 DEF u
<1> QED BY <1>2, <1>3

---------------------------------------------------------------------------
(* A walk that removes several sessions *)

\* The states that the walk goes through
Walk(s, order, g, n) ==
    g = [i \in 0 .. n |-> IF i = 0 THEN s ELSE RemoveSession(g[i - 1], order[i])]

\* There is such a function ...
LEMMA WalkExists ==
    ASSUME NEW s, NEW order, NEW n \in Nat
    PROVE  \E g : Walk(s, order, g, n)
<1> DEFINE S == {m \in Nat : \E g : Walk(s, order, g, m)}
<1>1. 0 \in S
  <2> DEFINE g == [i \in 0 .. 0 |-> s]
  <2>1. g = [i \in 0 .. 0 |-> IF i = 0 THEN s ELSE RemoveSession(g[i - 1], order[i])]
    OBVIOUS
  <2> QED BY <2>1 DEF Walk
<1>2. ASSUME NEW m \in Nat, m \in S PROVE m + 1 \in S
  <2>1. PICK g : Walk(s, order, g, m)
    BY <1>2
  <2>2. g = [i \in 0 .. m |-> IF i = 0 THEN s ELSE RemoveSession(g[i - 1], order[i])]
    BY <2>1 DEF Walk
  <2> DEFINE h == [i \in 0 .. m + 1 |-> IF i <= m THEN g[i] ELSE RemoveSession(g[m], order[m + 1])]
             d == [i \in 0 .. m + 1 |-> IF i = 0 THEN s ELSE RemoveSession(h[i - 1], order[i])]
  <2>3. ASSUME NEW i \in 0 .. m + 1 PROVE h[i] = d[i]
    <3>1. CASE i = 0
      <4>1. h[i] = g[0] /\ d[i] = s /\ 0 \in 0 .. m
        BY <3>1
      <4> HIDE DEF h, d
      <4> QED BY <2>2, <4>1
    <3>2. CASE i # 0 /\ i <= m
      <4>1. h[i] = g[i] /\ d[i] = RemoveSession(h[i - 1], order[i]) /\ h[i - 1] = g[i - 1]
              /\ i \in 0 .. m
        BY <3>2
      <4> HIDE DEF h, d
      <4> QED BY <2>2, <3>2, <4>1
    <3>3. CASE i = m + 1
      <4>1. h[i] = RemoveSession(g[m], order[m + 1]) /\ h[m] = g[m]
              /\ d[i] = RemoveSession(h[i - 1], order[i]) /\ i - 1 = m
        BY <3>3
      <4> HIDE DEF h, d
      <4> QED BY <3>3, <4>1
    <3> QED BY <3>1, <3>2, <3>3
  <2>4. h = d
    <3>1. h = [i \in 0 .. m + 1 |-> h[i]] /\ d = [i \in 0 .. m + 1 |-> d[i]]
      OBVIOUS
    <3> HIDE DEF h, d
    <3> QED BY <2>3, <3>1
  <2>5. Walk(s, order, h, m + 1)
    BY <2>4 DEF Walk
  <2> HIDE DEF h, d
  <2> QED BY <2>5
<1> HIDE DEF S
<1>3. Nat \subseteq S
  BY <1>1, <1>2, NatSetInduction
<1> QED BY <1>3 DEF S

\* ... and the end of one is what the walk leaves.
LEMMA WalkIs ==
    ASSUME NEW s, NEW order, Len(order) \in Nat
    PROVE  \E g : Walk(s, order, g, Len(order)) /\ RemoveSessions(s, order) = g[Len(order)]
<1> DEFINE g == CHOOSE f : Walk(s, order, f, Len(order))
<1>1. Walk(s, order, g, Len(order))
  BY WalkExists
<1>2. RemoveSessions(s, order) = g[Len(order)]
  BY DEF RemoveSessions, Walk
<1> HIDE DEF g
<1> QED BY <1>1, <1>2

\* A property that each removal keeps is kept by the walk.
LEMMA RemovalsKeep ==
    ASSUME NEW l \in BOOLEAN, NEW s, NEW C, PeerInv(l, s, C),
           NEW K \in SUBSET Keys, \A k \in K : IsAt(l, k), NEW order \in Seq(K)
    PROVE  PeerInv(l, RemoveSessions(s, order), C)
<1>1. Len(order) \in Nat /\ \A i \in 1 .. Len(order) : order[i] \in K
  OBVIOUS
<1>2. PICK g : Walk(s, order, g, Len(order)) /\ RemoveSessions(s, order) = g[Len(order)]
  BY <1>1, WalkIs
<1> DEFINE S == {i \in Nat : i <= Len(order) => PeerInv(l, g[i], C)}
<1>3. \A i \in 0 .. Len(order) :
         g[i] = IF i = 0 THEN s ELSE RemoveSession(g[i - 1], order[i])
  BY <1>2, Zenon DEF Walk
<1>4. 0 \in S
  <2>1. g[0] = s
    BY <1>1, <1>3
  <2> QED BY <2>1
<1>5. ASSUME NEW i \in Nat, i \in S PROVE i + 1 \in S
  <2>1. CASE i + 1 <= Len(order)
    <3>1. g[i + 1] = RemoveSession(g[i], order[i + 1]) /\ order[i + 1] \in K /\ i <= Len(order)
      <4>1. i + 1 \in 0 .. Len(order) /\ i + 1 # 0 /\ (i + 1) - 1 = i
              /\ i + 1 \in 1 .. Len(order) /\ i <= Len(order)
        BY <1>1, <2>1
      <4> QED BY <1>1, <1>3, <4>1
    <3>2. PeerInv(l, g[i], C)
      BY <1>5, <3>1
    <3>3. PeerInv(l, g[i + 1], C)
      BY <3>1, <3>2, RemoveKeeps
    <3> QED BY <3>3
  <2>2. CASE ~(i + 1 <= Len(order))
    BY <2>2
  <2> QED BY <2>1, <2>2
<1> HIDE DEF S
<1>6. Nat \subseteq S
  BY <1>4, <1>5, NatSetInduction
<1> QED BY <1>1, <1>2, <1>6 DEF S

\* There are finitely many keys.
LEMMA KeysFinite == IsFiniteSet(Keys)
<1>1. IsFiniteSet({"public", "lan"})
  <2>1. IsFiniteSet({} \cup {"public"}) /\ IsFiniteSet(({} \cup {"public"}) \cup {"lan"})
    BY FS_EmptySet, FS_AddElement
  <2>2. ({} \cup {"public"}) \cup {"lan"} = {"public", "lan"}
    OBVIOUS
  <2> QED BY <2>1, <2>2
<1> QED BY <1>1, PeersAssumption, FS_Product DEF Keys

\* An order of a finite set of keys is a sequence of them.
LEMMA OrderType ==
    ASSUME NEW K \in SUBSET Keys, NEW order \in SetToSeqs(K)
    PROVE  order \in Seq(K)
<1>1. IsFiniteSet(Keys)
  BY KeysFinite
<1>2. Cardinality(K) \in Nat
  BY <1>1, FS_Subset, FS_CardinalityType
<1>3. order \in [1 .. Cardinality(K) -> K]
  BY DEF SetToSeqs
<1> QED BY <1>2, <1>3

---------------------------------------------------------------------------
(* The other operations on one peer *)

\* Making a hole leaves requests, clients and sessions alone.
LEMMA BurrowKeeps ==
    ASSUME NEW l \in BOOLEAN, NEW s, NEW C, PeerInv(l, s, C), NEW k \in Keys,
           NEW isClient \in BOOLEAN
    PROVE  PeerInv(l, StartBurrow(s, k, isClient), C)
<1> DEFINE t == StartBurrow(s, k, isClient)
           f == IF s.burrow[k].sending THEN [s.burrow EXCEPT ![k].sendCount = 0]
                ELSE [s.burrow EXCEPT ![k] = [sending |-> TRUE, sendCount |-> 0,
                                              isClient |-> isClient]]
<1>0. s \in PeerStates
  BY DEF PeerInv
<1>1. f \in [Keys -> Burrows]
  <2>1. s.burrow \in [Keys -> Burrows] /\ s.burrow[k] \in Burrows
    BY <1>0, PeerFields
  <2>2. [s.burrow[k] EXCEPT !.sendCount = 0] \in Burrows
    BY <2>1, Bounds DEF Burrows
  <2>3. [sending |-> TRUE, sendCount |-> 0, isClient |-> isClient] \in Burrows
    BY Bounds DEF Burrows
  <2> QED BY <2>1, <2>2, <2>3
<1>2. t = [s EXCEPT !.burrow = f]
  BY <1>0 DEF StartBurrow, PeerStates
<1>3. t.mng = s.mng /\ t.accept = s.accept /\ t.open = s.open /\ t.session = s.session
  BY <1>0 DEF StartBurrow, PeerStates
<1> HIDE DEF t, f
<1>4. t \in PeerStates
  BY <1>0, <1>1, <1>2, PeerUpdates
<1>5. PeerInv(l, t, C)
  BY <1>3, <1>4, SamePeer
<1> QED BY <1>5 DEF t

\* A request r turns into d, or ends; what is open then was before.
LEMMA RequestKeeps ==
    ASSUME NEW l \in BOOLEAN, NEW s, NEW C, PeerInv(l, s, C), NEW t \in PeerStates, NEW D,
           t.session = s.session, t.accept = s.accept, t.open \subseteq s.open, C \subseteq D,
           \A r \in Keys : RequestInv(l, t, D, r),
           \A r \in t.open : \/ t.mng[r] = s.mng[r]
                             \/ l /\ Owner(r) \in C
                             \/ ~l /\ (r \in s.accept \/ Requested(t, r))
    PROVE  PeerInv(l, t, D)
<1>1. s \in PeerStates /\ t.open \subseteq Keys /\ s.accept \subseteq Keys
  BY PeerFields DEF PeerInv
<1>2. \A r \in Keys : SessionInv(l, t, r)
  BY DEF PeerInv, SessionInv
<1>3. \A k \in t.accept : AcceptInv(l, t, D, k)
  BY DEF PeerInv, AcceptInv
<1>4. ASSUME NEW k \in t.open PROVE OpenInv(l, t, D, k)
  <2>1. OpenInv(l, s, C, k) /\ k \in Keys
    BY <1>1, <1>4 DEF PeerInv
  <2>2. CASE t.mng[k] = s.mng[k]
    BY <2>1, <2>2 DEF OpenInv, Requested, ViaOf
  <2>3. CASE l /\ Owner(k) \in C
    BY <2>3 DEF OpenInv
  <2>4. CASE ~l /\ (k \in s.accept \/ Requested(t, k))
    <3>1. ViaOf(s, k) = k
      BY <2>1, <2>4, ViaIs
    <3>2. RequestInv(l, t, D, k)
      BY <2>1
    <3>3. ViaOf(t, k) = k
      BY <2>1, <2>4, <3>2, KeyFacts DEF RequestInv, Requested, ViaOf, NoRequest
    <3> QED BY <2>1, <2>4, <3>1, <3>3 DEF OpenInv
  <2> QED BY <1>4, <2>2, <2>3, <2>4
<1> QED BY <1>2, <1>3, <1>4 DEF PeerInv

\* One request r turns into d, or ends.
LEMMA RequestTurns ==
    ASSUME NEW l \in BOOLEAN, NEW s, NEW C, PeerInv(l, s, C), NEW t \in PeerStates, NEW D,
           NEW r \in Keys, NEW d,
           t.session = s.session, t.accept = s.accept, t.open \subseteq s.open, C \subseteq D,
           t.mng = [s.mng EXCEPT ![r] = d], RequestInv(l, t, D, r),
           r \in t.open => \/ d = s.mng[r]
                           \/ l /\ Owner(r) \in C
                           \/ ~l /\ (r \in s.accept \/ d.state # "none")
    PROVE  PeerInv(l, t, D)
<1>1. s.mng \in [Keys -> Requests] /\ t.open \subseteq Keys
  BY PeerFields DEF PeerInv
<1>2. t.mng[r] = d /\ \A j \in Keys : j # r => t.mng[j] = s.mng[j]
  BY <1>1
<1>3. ASSUME NEW j \in Keys, j # r PROVE RequestInv(l, t, D, j)
  <2>1. RequestInv(l, s, C, j)
    BY DEF PeerInv
  <2> QED BY <1>2, <1>3, <2>1 DEF RequestInv, Requested, ViaOf
<1>4. \A j \in Keys : RequestInv(l, t, D, j)
  BY <1>3
<1>5. ASSUME NEW j \in t.open
      PROVE  \/ t.mng[j] = s.mng[j]
             \/ l /\ Owner(j) \in C
             \/ ~l /\ (j \in s.accept \/ Requested(t, j))
  BY <1>1, <1>2, <1>5 DEF Requested
<1> QED BY <1>4, <1>5, RequestKeeps

---------------------------------------------------------------------------
(* Steps *)

\* A peer that called more keeps its invariant.
LEMMA MoreCalled ==
    ASSUME NEW l, NEW s, NEW C, NEW D, C \subseteq D, PeerInv(l, s, C)
    PROVE  PeerInv(l, s, D)
  BY DEF PeerInv, RequestInv, AcceptInv, OpenInv

\* The state of one peer turns into t, and net' is in flight.
LEMMA StepKeeps ==
    ASSUME PeersInv, UNCHANGED lan, NEW p \in Peers, NEW t, peer' = [peer EXCEPT ![p] = t],
           PeerInv(lan, t, Called(p)'), \A q \in Peers : Called(q) \subseteq Called(q)',
           IsFiniteSet(net') /\ Cardinality(net') <= MaxNet,
           \A m \in net' : NetInv(lan, m),
           calls' \in [Calls -> 0 .. MaxCalls], hangups' \in 0 .. MaxHangups,
           stops' \in 0 .. MaxStops
    PROVE  PeersInv'
<1>1. peer \in [Peers -> PeerStates] /\ t \in PeerStates /\ lan' = lan /\ lan \in BOOLEAN
  BY DEF PeersInv, TypeOK, PeerInv
<1>2. peer' \in [Peers -> PeerStates]
  BY <1>1
<1>3. ASSUME NEW q \in Peers PROVE PeerInv(lan, peer'[q], Called(q)')
  <2>1. CASE q = p
    BY <1>1, <2>1
  <2>2. CASE q # p
    <3>1. peer'[q] = peer[q] /\ PeerInv(lan, peer[q], Called(q))
      BY <1>1, <2>2 DEF PeersInv
    <3> QED BY <3>1, MoreCalled
  <2> QED BY <2>1, <2>2
<1>4. TypeOK'
  BY <1>1, <1>2 DEF TypeOK
<1> QED BY <1>1, <1>3, <1>4 DEF PeersInv

\* The same for a step without a call
LEMMA QuietStepKeeps ==
    ASSUME PeersInv, UNCHANGED <<lan, calls, hangups>>, stops' \in 0 .. MaxStops,
           NEW p \in Peers, NEW t, peer' = [peer EXCEPT ![p] = t],
           PeerInv(lan, t, Called(p)),
           IsFiniteSet(net') /\ Cardinality(net') <= MaxNet,
           \A m \in net' : NetInv(lan, m)
    PROVE  PeersInv'
<1>1. \A q \in Peers : Called(q)' = Called(q)
  BY DEF Called, HasCalled
<1> QED BY <1>1, StepKeeps DEF PeersInv, TypeOK

\* What is sent is in flight with what was, less what arrived.
LEMMA SendKeeps ==
    ASSUME PeersInv, NEW gone, NEW ms, IsFiniteSet(ms), \A m \in ms : NetInv(lan, m),
           Send(gone, ms)
    PROVE  /\ IsFiniteSet(net') /\ Cardinality(net') <= MaxNet
           /\ \A m \in net' : NetInv(lan, m)
<1>1. PICK arriving \in SUBSET ms :
         net' = (net \ gone) \cup arriving /\ Cardinality(net') <= MaxNet
  BY DEF Send
<1>2. IsFiniteSet(net) /\ \A m \in net : NetInv(lan, m)
  BY DEF PeersInv, TypeOK
<1>3. IsFiniteSet(arriving) /\ IsFiniteSet(net \ gone)
  BY <1>2, FS_Subset
<1>4. IsFiniteSet(net')
  BY <1>1, <1>3, FS_Union
<1>5. \A m \in net' : NetInv(lan, m)
  BY <1>1, <1>2
<1> QED BY <1>1, <1>4, <1>5

\* No datagram, one, two: finitely many, and each tells what it must.
LEMMA NothingSent == IsFiniteSet({}) /\ \A m \in {} : NetInv(lan, m)
  BY FS_EmptySet

LEMMA OneSent == \A m : NetInv(lan, m) => IsFiniteSet({m}) /\ \A x \in {m} : NetInv(lan, x)
  BY FS_Singleton

LEMMA TwoSent ==
    ASSUME NEW m, NEW n, NetInv(lan, m), NetInv(lan, n)
    PROVE  IsFiniteSet({m, n}) /\ \A x \in {m, n} : NetInv(lan, x)
<1>1. IsFiniteSet({m} \cup {n})
  BY FS_Singleton, FS_AddElement
<1>2. {m} \cup {n} = {m, n}
  OBVIOUS
<1> QED BY <1>1, <1>2

\* What a peer sends carries its key.
LEMMA ToNet ==
    ASSUME PeersInv, NEW p \in Peers, NEW k, NEW arg,
           NEW type \in {"PING", "PONG", "HELLO", "CREATE_KCP", "CREATE_KCP_RESULT",
                         "C2C_DISCONNECT"}
    PROVE  NetInv(lan, To(p, type, k, arg))
<1>1. Seen(p) = At(lan, p) /\ At(lan, p) \in Keys /\ IsAt(lan, At(lan, p))
  BY KeyFacts DEF Seen, At, PeersInv, TypeOK
<1>2. To(p, type, k, arg).type = type /\ To(p, type, k, arg).from = Seen(p)
  BY DEF To, Datagram
<1> QED BY <1>1, <1>2 DEF NetInv

\* One datagram for each of several keys
LEMMA ToMany ==
    ASSUME NEW K \in SUBSET Keys, NEW ms, NEW f \in Surjection(K, ms),
           \A k \in K : NetInv(lan, f[k])
    PROVE  IsFiniteSet(ms) /\ \A m \in ms : NetInv(lan, m)
<1>1. IsFiniteSet(ms)
  BY KeysFinite, FS_Subset, FS_Surjection
<1>2. \A m \in ms : \E k \in K : m = f[k]
  BY DEF Surjection
<1> QED BY <1>1, <1>2

---------------------------------------------------------------------------
(* What holds at the start *)

\* The invariant holds at first.
LEMMA InitInv == Init => PeersInv
<1> SUFFICES ASSUME Init PROVE PeersInv
  OBVIOUS
<1>1. lan \in BOOLEAN /\ \A p \in Peers : peer[p] = Fresh
  BY DEF Init
<1>2. ASSUME NEW p \in Peers PROVE PeerInv(lan, peer[p], Called(p))
  BY <1>1, FreshInv
<1>3. peer \in [Peers -> PeerStates]
  <2>1. \A p \in Peers : peer[p] \in PeerStates
    BY <1>2 DEF PeerInv
  <2> QED BY <2>1 DEF Init
<1>4. IsFiniteSet(net) /\ Cardinality(net) <= MaxNet
  BY FS_EmptySet, Bounds DEF Init
<1>5. TypeOK
  BY <1>3, <1>4, Bounds DEF TypeOK, Init
<1> QED BY <1>2, <1>5 DEF PeersInv, Init

---------------------------------------------------------------------------
(* The actions of the network *)

\* A step without a call, whose datagrams ms follow those in gone
LEMMA ReactKeeps ==
    ASSUME PeersInv, UNCHANGED <<lan, calls, hangups>>, stops' \in 0 .. MaxStops,
           NEW p \in Peers, NEW t, peer' = [peer EXCEPT ![p] = t],
           PeerInv(lan, t, Called(p)),
           NEW gone, NEW ms, IsFiniteSet(ms), \A m \in ms : NetInv(lan, m), Send(gone, ms)
    PROVE  PeersInv'
<1>1. /\ IsFiniteSet(net') /\ Cardinality(net') <= MaxNet
      /\ \A m \in net' : NetInv(lan, m)
  BY SendKeeps
<1> QED BY <1>1, QuietStepKeeps

\* One that changes the flight alone
LEMMA FlightKeeps ==
    ASSUME PeersInv, Unbounded, UNCHANGED peer,
           IsFiniteSet(net'), Cardinality(net') <= MaxNet, \A m \in net' : NetInv(lan, m)
    PROVE  PeersInv'
<1>1. \A q \in Peers : Called(q)' = Called(q)
  BY DEF Called, HasCalled, Unbounded
<1>2. TypeOK'
  BY DEF PeersInv, TypeOK, Unbounded
<1>3. lan' = lan /\ \A q \in Peers : PeerInv(lan, peer[q], Called(q))
  BY DEF PeersInv, Unbounded
<1> QED BY <1>1, <1>2, <1>3 DEF PeersInv

\* What a peer knows when a datagram arrives
LEMMA Heard ==
    ASSUME PeersInv, NEW p \in Peers, NEW m, NEW type, Receives(p, m, type)
    PROVE  /\ m.type = type /\ NetInv(lan, m)
           /\ PeerInv(lan, peer[p], Called(p)) /\ peer[p] \in PeerStates
           /\ lan \in BOOLEAN /\ stops \in 0 .. MaxStops
  BY DEF PeersInv, TypeOK, Receives, PeerInv

\* A datagram from another peer tells its key.
LEMMA HeardFrom ==
    ASSUME PeersInv, NEW p \in Peers, NEW m,
           NEW type \in {"PING", "PONG", "HELLO", "CREATE_KCP", "CREATE_KCP_RESULT",
                         "C2C_DISCONNECT"},
           Receives(p, m, type)
    PROVE  /\ m.from \in Keys /\ IsAt(lan, m.from)
           /\ PeerInv(lan, RecvData(peer[p], m.from), Called(p))
           /\ lan \in BOOLEAN /\ stops \in 0 .. MaxStops
<1>1. m.from \in Keys /\ IsAt(lan, m.from)
  BY Heard DEF NetInv
<1> QED BY <1>1, Heard, RecvKeeps

\* A datagram for a peer that has stopped is lost.
LEMMA UnheardKeeps ==
    ASSUME PeersInv, NEW m, Unheard(m)
    PROVE  PeersInv'
<1>1. IsFiniteSet(net) /\ Cardinality(net) <= MaxNet /\ net' = net \ {m}
  BY DEF PeersInv, TypeOK, Unheard
<1>2. IsFiniteSet(net') /\ Cardinality(net') <= Cardinality(net)
        /\ Cardinality(net) \in Nat /\ Cardinality(net') \in Nat
  BY <1>1, FS_Subset, FS_CardinalityType
<1>3. Cardinality(net') <= MaxNet
  BY <1>1, <1>2, Bounds
<1>4. \A n \in net' : NetInv(lan, n)
  BY <1>1 DEF PeersInv
<1> QED BY <1>2, <1>3, <1>4, FlightKeeps DEF Unheard

\* A PING makes a session and is answered.
LEMMA OnPingKeeps ==
    ASSUME PeersInv, NEW p \in Peers, NEW m, OnPing(p, m)
    PROVE  PeersInv'
<1>1. Receives(p, m, "PING") /\ Unbounded
        /\ peer' = [peer EXCEPT ![p] = RecvData(peer[p], m.from)]
        /\ Send({m}, {To(p, "PONG", m.from, "")})
  BY DEF OnPing
<1>2. PeerInv(lan, RecvData(peer[p], m.from), Called(p)) /\ stops \in 0 .. MaxStops
  BY <1>1, HeardFrom
<1>3. NetInv(lan, To(p, "PONG", m.from, ""))
  BY ToNet
<1> QED BY <1>1, <1>2, <1>3, OneSent, ReactKeeps DEF Unbounded

\* A PONG makes a session.
LEMMA OnPongKeeps ==
    ASSUME PeersInv, NEW p \in Peers, NEW m, OnPong(p, m)
    PROVE  PeersInv'
<1>1. Receives(p, m, "PONG") /\ Unbounded
        /\ peer' = [peer EXCEPT ![p] = RecvData(peer[p], m.from)]
        /\ Send({m}, {})
  BY DEF OnPong
<1>2. PeerInv(lan, RecvData(peer[p], m.from), Called(p)) /\ stops \in 0 .. MaxStops
  BY <1>1, HeardFrom
<1> QED BY <1>1, <1>2, NothingSent, ReactKeeps DEF Unbounded

\* A HELLO makes a session and, from a client, an offer.
LEMMA OnHelloKeeps ==
    ASSUME PeersInv, NEW p \in Peers, NEW m, OnHello(p, m)
    PROVE  PeersInv'
<1>1. PICK ms \in {{}, {To(p, "CREATE_KCP", m.from, "")}} :
         Receives(p, m, "HELLO") /\ Unbounded
           /\ peer' = [peer EXCEPT ![p] = RecvData(peer[p], m.from)]
           /\ Send({m}, ms)
  BY DEF OnHello
<1>2. PeerInv(lan, RecvData(peer[p], m.from), Called(p)) /\ stops \in 0 .. MaxStops
  BY <1>1, HeardFrom
<1>3. NetInv(lan, To(p, "CREATE_KCP", m.from, ""))
  BY ToNet
<1>4. IsFiniteSet(ms) /\ \A x \in ms : NetInv(lan, x)
  BY <1>3, NothingSent, OneSent
<1> QED BY <1>1, <1>2, <1>4, ReactKeeps DEF Unbounded

\* An offer makes the KCP session of a request.
LEMMA OnCreateKcpKeeps ==
    ASSUME PeersInv, NEW p \in Peers, NEW m, OnCreateKcp(p, m)
    PROVE  PeersInv'
<1>1. Receives(p, m, "CREATE_KCP") /\ Unbounded
        /\ peer' = [peer EXCEPT ![p] = CreateKcp(RecvData(peer[p], m.from), m.from, 0)]
        /\ Send({m}, {To(p, "CREATE_KCP_RESULT", m.from, "")})
  BY DEF OnCreateKcp
<1>2. /\ m.from \in Keys /\ IsAt(lan, m.from) /\ lan \in BOOLEAN /\ stops \in 0 .. MaxStops
      /\ PeerInv(lan, RecvData(peer[p], m.from), Called(p))
  BY <1>1, HeardFrom
<1>3. PeerInv(lan, CreateKcp(RecvData(peer[p], m.from), m.from, 0), Called(p))
  BY <1>2, CreateKeeps
<1>4. NetInv(lan, To(p, "CREATE_KCP_RESULT", m.from, ""))
  BY ToNet
<1> QED BY <1>1, <1>2, <1>3, <1>4, OneSent, ReactKeeps DEF Unbounded

\* Its acceptance makes the KCP session of a client.
LEMMA OnCreateKcpResultKeeps ==
    ASSUME PeersInv, NEW p \in Peers, NEW m, OnCreateKcpResult(p, m)
    PROVE  PeersInv'
<1>1. Receives(p, m, "CREATE_KCP_RESULT") /\ Unbounded
        /\ peer' = [peer EXCEPT ![p] = CreateKcp(RecvData(peer[p], m.from), m.from, 1)]
        /\ Send({m}, {})
  BY DEF OnCreateKcpResult
<1>2. /\ m.from \in Keys /\ IsAt(lan, m.from) /\ lan \in BOOLEAN /\ stops \in 0 .. MaxStops
      /\ PeerInv(lan, RecvData(peer[p], m.from), Called(p))
  BY <1>1, HeardFrom
<1>3. PeerInv(lan, CreateKcp(RecvData(peer[p], m.from), m.from, 1), Called(p))
  BY <1>2, CreateKeeps
<1> QED BY <1>1, <1>2, <1>3, NothingSent, ReactKeeps DEF Unbounded

\* A C2C_DISCONNECT removes the session it made or found.
LEMMA OnDisconnectKeeps ==
    ASSUME PeersInv, NEW p \in Peers, NEW m, OnDisconnect(p, m)
    PROVE  PeersInv'
<1>1. Receives(p, m, "C2C_DISCONNECT") /\ Unbounded
        /\ peer' = [peer EXCEPT ![p] = RemoveSession(RecvData(peer[p], m.from), m.from)]
        /\ Send({m}, {})
  BY DEF OnDisconnect
<1>2. /\ m.from \in Keys /\ IsAt(lan, m.from) /\ lan \in BOOLEAN /\ stops \in 0 .. MaxStops
      /\ PeerInv(lan, RecvData(peer[p], m.from), Called(p))
  BY <1>1, HeardFrom
<1>3. PeerInv(lan, RemoveSession(RecvData(peer[p], m.from), m.from), Called(p))
  BY <1>2, RemoveKeeps
<1> QED BY <1>1, <1>2, <1>3, NothingSent, ReactKeeps DEF Unbounded

---------------------------------------------------------------------------
(* The actions of the turn server *)

\* The first HELLO of a hole
LEMMA FirstHelloNet ==
    ASSUME PeersInv, NEW p \in Peers, NEW k, NEW isClient
    PROVE  /\ IsFiniteSet(FirstHello(p, k, isClient))
           /\ \A m \in FirstHello(p, k, isClient) : NetInv(lan, m)
<1>1. NetInv(lan, To(p, "HELLO", k, isClient))
  BY ToNet
<1> QED BY <1>1, NothingSent, OneSent DEF FirstHello

\* The turn server has a hole made for a caller.
LEMMA OnStartBurrowKeeps ==
    ASSUME PeersInv, NEW p \in Peers, NEW m, OnStartBurrow(p, m)
    PROVE  PeersInv'
<1>1. Receives(p, m, "START_BURROW") /\ Unbounded
        /\ peer' = [peer EXCEPT ![p] = StartBurrow(peer[p], m.arg, FALSE)]
        /\ Send({m}, FirstHello(p, m.arg, FALSE))
  BY DEF OnStartBurrow
<1>2. m.arg \in Keys /\ PeerInv(lan, peer[p], Called(p)) /\ lan \in BOOLEAN
        /\ stops \in 0 .. MaxStops
  BY <1>1, Heard DEF NetInv
<1>3. PeerInv(lan, StartBurrow(peer[p], m.arg, FALSE), Called(p))
  BY <1>2, BurrowKeeps
<1> QED BY <1>1, <1>2, <1>3, FirstHelloNet, ReactKeeps DEF Unbounded

\* An answer for a request that is gone changes no peer.
LEMMA OnLateCheckResultKeeps ==
    ASSUME PeersInv, NEW p \in Peers, NEW m, OnLateCheckResult(p, m)
    PROVE  PeersInv'
<1>1. Send({m}, {})
  BY DEF OnLateCheckResult
<1>2. IsFiniteSet(net') /\ Cardinality(net') <= MaxNet /\ \A n \in net' : NetInv(lan, n)
  BY <1>1, NothingSent, SendKeeps
<1> QED BY <1>2, FlightKeeps DEF OnLateCheckResult

\* The request that is answered
LEMMA Checked ==
    ASSUME PeersInv, NEW p \in Peers, NEW m, CheckResult(p, m)
    PROVE  /\ PeerInv(lan, peer[p], Called(p)) /\ peer[p] \in PeerStates
           /\ lan \in BOOLEAN /\ stops \in 0 .. MaxStops
           /\ m.arg.toKey \in Keys /\ Owner(m.arg.toKey) \in Called(p)
           /\ m.arg.toKey = Public(Owner(m.arg.toKey))
           /\ \/ m.arg.code \in {0, 1} /\ m.arg.tarAddr = At(lan, Owner(m.arg.toKey))
              \/ m.arg.code = 2 /\ m.arg.tarAddr = m.arg.toKey
           /\ m.arg.tarAddr \in Keys
<1>1. Receives(p, m, "CHECK_PEER_RESULT") /\ Requested(peer[p], m.arg.toKey)
  BY DEF CheckResult, Requested
<1>2. /\ PeerInv(lan, peer[p], Called(p)) /\ peer[p] \in PeerStates
      /\ lan \in BOOLEAN /\ stops \in 0 .. MaxStops
  BY <1>1, Heard
<1>3. PICK q \in Peers :
         /\ m.arg.toKey = Public(q)
         /\ \/ m.arg.code \in {0, 1} /\ m.arg.tarAddr = At(lan, q)
            \/ m.arg.code = 2 /\ m.arg.tarAddr = Public(q)
  BY <1>1, Heard DEF NetInv
<1>4. m.arg.toKey \in Keys /\ Owner(m.arg.toKey) = q /\ m.arg.tarAddr \in Keys
  BY <1>2, <1>3, KeyFacts
<1>5. Owner(m.arg.toKey) \in Called(p)
  BY <1>1, <1>2, <1>4, ViaIs
<1> QED BY <1>2, <1>3, <1>4, <1>5

\* The request gets the address of its peer, and a hole is made to it.
LEMMA DigForPeerKeeps ==
    ASSUME PeersInv, NEW p \in Peers, NEW m, DigForPeer(p, m)
    PROVE  PeersInv'
<1> DEFINE s == peer[p]
           r == m.arg.toKey
           k == m.arg.tarAddr
           d == [state |-> "CONNECTING", try |-> 0, sendTo |-> k]
           f == [s.mng EXCEPT ![r] = d]
           t == [s EXCEPT !.mng = f]
<1>1. /\ CheckResult(p, m) /\ m.arg.code \in {0, 1} /\ Unbounded
      /\ peer' = [peer EXCEPT ![p] = StartBurrow(t, k, TRUE)]
      /\ Send({m}, FirstHello(p, k, TRUE))
  BY DEF DigForPeer
<1>2. /\ PeerInv(lan, s, Called(p)) /\ s \in PeerStates
      /\ lan \in BOOLEAN /\ stops \in 0 .. MaxStops
      /\ r \in Keys /\ Owner(r) \in Called(p) /\ r = Public(Owner(r))
      /\ k = At(lan, Owner(r)) /\ k \in Keys
  BY <1>1, Checked
<1>3. d \in Requests
  BY <1>2, Bounds DEF Requests
<1>4. f \in [Keys -> Requests] /\ f[r] = d
  BY <1>2, <1>3, PeerFields
<1>5. t \in PeerStates /\ t.session = s.session /\ t.accept = s.accept /\ t.open = s.open
        /\ t.mng = f
  <2> HIDE DEF f, s
  <2>1. t \in PeerStates
    BY <1>2, <1>4, PeerUpdates
  <2>2. /\ t.session = s.session /\ t.accept = s.accept /\ t.open = s.open
        /\ t.mng = f
    BY <1>2 DEF PeerStates
  <2> QED BY <2>1, <2>2
<1>6. RequestInv(lan, t, Called(p), r)
  <2> HIDE DEF f, t, s, r, k
  <2> QED BY <1>2, <1>4, <1>5 DEF RequestInv, Requested
<1>7. d.state # "none"
  OBVIOUS
<1>8. PeerInv(lan, t, Called(p))
  <2> HIDE DEF t, d
  <2> QED BY <1>2, <1>5, <1>6, <1>7, RequestTurns
<1>9. PeerInv(lan, StartBurrow(t, k, TRUE), Called(p))
  <2> HIDE DEF t, k
  <2> QED BY <1>2, <1>8, BurrowKeeps
<1> HIDE DEF t, k, s
<1> QED BY <1>1, <1>2, <1>9, FirstHelloNet, ReactKeeps DEF Unbounded

\* A request is answered, and the application is told or not.
LEMMA AnsweredKeeps ==
    ASSUME PeersInv, NEW p \in Peers, NEW m, CheckResult(p, m), Unbounded,
           NEW o, o \subseteq peer[p].open,
           m.arg.toKey \in o => lan \/ m.arg.toKey \in peer[p].accept,
           peer' = [peer EXCEPT ![p] = [Answered(p, m) EXCEPT !.open = o]],
           Send({m}, {})
    PROVE  PeersInv'
<1> DEFINE s == peer[p]
           r == m.arg.toKey
           f == [s.mng EXCEPT ![r] = NoRequest]
           a == [s EXCEPT !.mng = f]
           t == [a EXCEPT !.open = o]
<1>1. /\ PeerInv(lan, s, Called(p)) /\ s \in PeerStates
      /\ lan \in BOOLEAN /\ stops \in 0 .. MaxStops
      /\ r \in Keys /\ Owner(r) \in Called(p)
  BY Checked
<1>2. f \in [Keys -> Requests] /\ f[r] = NoRequest /\ o \in SUBSET Keys
  <2>1. NoRequest \in Requests
    BY Bounds DEF NoRequest, Requests
  <2> QED BY <1>1, <2>1, PeerFields
<1>3. t \in PeerStates /\ t.session = s.session /\ t.accept = s.accept /\ t.open = o
        /\ t.mng = f
  <2>1. a \in PeerStates
    BY <1>1, <1>2, PeerUpdates
  <2>2. t \in PeerStates
    <3> HIDE DEF a
    <3> QED BY <1>2, <2>1, PeerUpdates
  <2>3. t.session = s.session /\ t.accept = s.accept /\ t.open = o /\ t.mng = f
    <3> HIDE DEF f
    <3> QED BY <1>1 DEF PeerStates
  <2> HIDE DEF t
  <2> QED BY <2>2, <2>3
<1>4. peer' = [peer EXCEPT ![p] = t]
  BY DEF Answered
<1>5. RequestInv(lan, t, Called(p), r)
  <2> HIDE DEF f, t, s, r
  <2> QED BY <1>2, <1>3 DEF RequestInv, Requested, NoRequest
<1>6. PeerInv(lan, t, Called(p))
  <2>1. r \in t.open => \/ lan /\ Owner(r) \in Called(p)
                        \/ ~lan /\ r \in s.accept
    BY <1>1, <1>3
  <2>2. t.open \subseteq s.open
    BY <1>3
  <2> HIDE DEF t, r
  <2> QED BY <1>1, <1>3, <1>5, <2>1, <2>2, RequestTurns
<1> HIDE DEF t
<1> QED BY <1>1, <1>4, <1>6, NothingSent, ReactKeeps DEF Unbounded

\* The request ends, and is not open any more.
LEMMA PeerNotFoundKeeps ==
    ASSUME PeersInv, NEW p \in Peers, NEW m, PeerNotFound(p, m)
    PROVE  PeersInv'
<1> DEFINE o == peer[p].open \ {m.arg.toKey}
<1>1. CheckResult(p, m) /\ Unbounded /\ Send({m}, {})
        /\ peer' = [peer EXCEPT ![p] = ReportLost(Answered(p, m), m.arg.toKey)]
  BY DEF PeerNotFound
<1>2. peer[p] \in PeerStates
  BY <1>1, Checked
<1>3. ReportLost(Answered(p, m), m.arg.toKey) = [Answered(p, m) EXCEPT !.open = o]
  BY <1>2 DEF ReportLost, Answered, PeerStates
<1>4. peer' = [peer EXCEPT ![p] = [Answered(p, m) EXCEPT !.open = o]]
  BY <1>1, <1>3
<1>5. o \subseteq peer[p].open /\ m.arg.toKey \notin o
  OBVIOUS
<1> HIDE DEF o
<1> QED BY <1>1, <1>4, <1>5, AnsweredKeeps

\* The request ends; what is open is the client, which stays.
LEMMA RefusedAsClientKeeps ==
    ASSUME PeersInv, NEW p \in Peers, NEW m, RefusedAsClient(p, m)
    PROVE  PeersInv'
<1>1. CheckResult(p, m) /\ Unbounded /\ Send({m}, {})
        /\ peer' = [peer EXCEPT ![p] = Answered(p, m)]
        /\ m.arg.tarAddr \in peer[p].accept
  BY DEF RefusedAsClient
<1>2. peer[p] \in PeerStates
  BY <1>1, Checked
<1>3. Answered(p, m) = [Answered(p, m) EXCEPT !.open = peer[p].open]
  BY <1>2 DEF Answered, PeerStates
<1>4. ~lan => m.arg.tarAddr = m.arg.toKey
  BY <1>1, Checked, KeyFacts
<1>5. peer' = [peer EXCEPT ![p] = [Answered(p, m) EXCEPT !.open = peer[p].open]]
  BY <1>1, <1>3
<1> QED BY <1>1, <1>4, <1>5, AnsweredKeeps

\* The turn server answers with keys of the peer that was asked for.
LEMMA CheckPeerKeeps ==
    ASSUME PeersInv, NEW m, CheckPeer(m)
    PROVE  PeersInv'
<1> DEFINE Answer(code, tarAddr) ==
              Datagram("CHECK_PEER_RESULT", Turn, m.from,
                       [code |-> code, toKey |-> m.arg, tarAddr |-> tarAddr])
           burrow == Datagram("START_BURROW", Turn, m.arg, Public(Owner(m.from)))
<1>1. m \in net /\ m.type = "CHECK_PEER" /\ Unbounded /\ UNCHANGED peer /\ lan \in BOOLEAN
  BY DEF CheckPeer, PeersInv, TypeOK
<1>2. PICK p, q \in Peers : m.from = Public(p) /\ m.arg = Public(q)
  BY <1>1 DEF PeersInv, NetInv
<1>3. /\ Public(p) \in Keys /\ Owner(m.from) = p /\ Owner(m.arg) = q
      /\ ~lan => Public(q) = At(lan, q)
      /\ Seen(q) = At(lan, q)
  BY <1>1, <1>2, KeyFacts DEF Seen, At
<1>4. ASSUME NEW code, NEW tarAddr,
             \/ code \in {0, 1} /\ tarAddr = At(lan, q)
             \/ code = 2 /\ tarAddr = Public(q)
      PROVE  NetInv(lan, Answer(code, tarAddr))
  BY <1>2, <1>4 DEF NetInv, Datagram
<1>5. NetInv(lan, burrow)
  BY <1>2, <1>3 DEF NetInv, Datagram
<1>6. IsFiniteSet(net') /\ Cardinality(net') <= MaxNet /\ \A n \in net' : NetInv(lan, n)
  <2>1. CASE ~lan /\ Send({m}, {Answer(0, m.arg), burrow})
    <3>1. NetInv(lan, Answer(0, m.arg))
      BY <1>2, <1>3, <1>4, <2>1
    <3> HIDE DEF Answer, burrow
    <3>2. PICK n, b : n = Answer(0, m.arg) /\ b = burrow
      OBVIOUS
    <3>3. IsFiniteSet({n, b}) /\ \A x \in {n, b} : NetInv(lan, x)
      BY <1>5, <3>1, <3>2, TwoSent
    <3> QED BY <2>1, <3>2, <3>3, SendKeeps
  <2>2. CASE lan /\ Send({m}, {Answer(1, Seen(Owner(m.arg)))})
    <3>1. NetInv(lan, Answer(1, Seen(Owner(m.arg))))
      BY <1>3, <1>4
    <3> HIDE DEF Answer
    <3> QED BY <2>2, <3>1, OneSent, SendKeeps
  <2>3. CASE Send({m}, {Answer(2, m.arg)})
    <3>1. NetInv(lan, Answer(2, m.arg))
      BY <1>2, <1>4
    <3> HIDE DEF Answer
    <3> QED BY <2>3, <3>1, OneSent, SendKeeps
  <2> QED BY <2>1, <2>2, <2>3 DEF CheckPeer
<1> QED BY <1>1, <1>6, FlightKeeps

---------------------------------------------------------------------------
(* The timers *)

\* onTimerRun gives up requests, which are not open any more, and counts others.
LEMMA OnTimerKeeps ==
    ASSUME PeersInv, NEW p \in Peers, OnTimer(p)
    PROVE  PeersInv'
<1> DEFINE s == peer[p]
           Digging == {k \in Keys : s.burrow[k].sending /\ s.burrow[k].sendCount < MaxHello}
           GivenUp == {r \in Waiting(s) : s.mng[r].try > MaxTry}
           Dug(k) == [s.burrow[k] EXCEPT !.sendCount = @ + 1]
           Tried(r) == [s.mng[r] EXCEPT !.try = @ + 1]
           b == [k \in Keys |-> IF k \in Digging THEN Dug(k) ELSE NoBurrow]
           f == [r \in Keys |-> IF r \in GivenUp THEN NoRequest
                                ELSE IF r \in Waiting(s) THEN Tried(r) ELSE s.mng[r]]
           o == s.open \ GivenUp
           x == [s EXCEPT !.burrow = b]
           y == [x EXCEPT !.mng = f]
           t == [y EXCEPT !.open = o]
           ms == {To(p, "HELLO", k, s.burrow[k].isClient) : k \in Digging}
<1>1. /\ PeerInv(lan, s, Called(p)) /\ s \in PeerStates
      /\ lan \in BOOLEAN /\ stops \in 0 .. MaxStops
  BY DEF PeersInv, TypeOK, PeerInv
<1>2. b \in [Keys -> Burrows]
  <2>1. NoBurrow \in Burrows
    BY Bounds DEF NoBurrow, Burrows
  <2>2. ASSUME NEW k \in Digging PROVE Dug(k) \in Burrows
    <3>1. s.burrow[k] \in Burrows /\ s.burrow[k].sendCount < MaxHello
      BY <1>1, PeerFields
    <3> HIDE DEF s
    <3> QED BY <3>1, Bounds DEF Burrows
  <2> HIDE DEF Digging, Dug
  <2> QED BY <2>1, <2>2
<1>3. f \in [Keys -> Requests]
  <2>1. NoRequest \in Requests
    BY Bounds DEF NoRequest, Requests
  <2>2. \A r \in Keys : s.mng[r] \in Requests
    BY <1>1, PeerFields
  <2>3. ASSUME NEW r \in Waiting(s), r \notin GivenUp PROVE Tried(r) \in Requests
    <3>1. s.mng[r] \in Requests /\ ~(s.mng[r].try > MaxTry)
      BY <2>2, <2>3 DEF Waiting
    <3> HIDE DEF s
    <3> QED BY <3>1, Bounds DEF Requests
  <2> HIDE DEF GivenUp, Tried
  <2> QED BY <2>1, <2>2, <2>3
<1>4. o \subseteq s.open /\ o \in SUBSET Keys
  BY <1>1, PeerFields
<1>5. t \in PeerStates /\ t.session = s.session /\ t.accept = s.accept /\ t.open = o /\ t.mng = f
  <2> HIDE DEF b, f, o, s
  <2>1. x \in PeerStates
    BY <1>1, <1>2, PeerUpdates
  <2>2. y \in PeerStates
    <3> HIDE DEF x
    <3> QED BY <1>3, <2>1, PeerUpdates
  <2>3. t \in PeerStates
    <3> HIDE DEF y
    <3> QED BY <1>4, <2>2, PeerUpdates
  <2>4. t.session = s.session /\ t.accept = s.accept /\ t.open = o /\ t.mng = f
    BY <1>1 DEF PeerStates
  <2> QED BY <2>3, <2>4
<1>6. peer' = [peer EXCEPT ![p] = t]
  <2>1. t = [s EXCEPT !.burrow = b, !.mng = f, !.open = o]
    OBVIOUS
  <2>2. peer' = [peer EXCEPT ![p] = [s EXCEPT !.burrow = b,
                   !.mng = [r \in Keys |-> IF r \in GivenUp THEN NoRequest
                                           ELSE IF r \in Waiting(s) THEN Tried(r) ELSE @[r]],
                   !.open = @ \ GivenUp]]
    BY DEF OnTimer
  <2>3. [s EXCEPT !.burrow = b,
                  !.mng = [r \in Keys |-> IF r \in GivenUp THEN NoRequest
                                           ELSE IF r \in Waiting(s) THEN Tried(r) ELSE @[r]],
                   !.open = @ \ GivenUp] = t
    <3> HIDE DEF b, GivenUp, Tried, s
    <3> QED BY <1>1 DEF PeerStates
  <2> QED BY <2>2, <2>3
<1>7. ASSUME NEW r \in Keys PROVE RequestInv(lan, t, Called(p), r)
  <2>1. RequestInv(lan, s, Called(p), r)
    BY <1>1 DEF PeerInv
  <2>2. s.mng[r] \in Requests
    BY <1>1, PeerFields
  <2>3. CASE r \in GivenUp
    <3>1. t.mng[r] = NoRequest
      BY <1>5, <2>3
    <3> HIDE DEF t
    <3> QED BY <3>1 DEF RequestInv, Requested, NoRequest
  <2>4. CASE r \notin GivenUp /\ r \in Waiting(s)
    <3>1. t.mng[r] = Tried(r) /\ Tried(r).state = s.mng[r].state
            /\ Tried(r).sendTo = s.mng[r].sendTo
      BY <1>5, <2>2, <2>4 DEF Requests
    <3>2. s.mng[r].state \in {"CHECKING", "CONNECTING"}
      BY <2>4 DEF Waiting
    <3> HIDE DEF t, Tried, s
    <3> QED BY <2>1, <3>1, <3>2 DEF RequestInv, Requested
  <2>5. CASE r \notin Waiting(s)
    <3>1. t.mng[r] = s.mng[r] /\ t.session = s.session
      BY <1>5, <2>5
    <3> HIDE DEF t, s
    <3> QED BY <2>1, <3>1 DEF RequestInv, Requested, ViaOf
  <2> QED BY <2>3, <2>4, <2>5
<1>8. ASSUME NEW r \in t.open
      PROVE  t.mng[r] = s.mng[r] \/ (~lan /\ Requested(t, r))
               \/ (lan /\ Owner(r) \in Called(p))
  <2>1. r \in Keys /\ r \notin GivenUp
    BY <1>4, <1>5
  <2>2. s.mng[r] \in Requests
    BY <1>1, <2>1, PeerFields
  <2>3. CASE r \in Waiting(s)
    <3>1. t.mng[r] = Tried(r) /\ Tried(r).state = s.mng[r].state
      BY <1>5, <2>1, <2>2, <2>3 DEF Requests
    <3>2. s.mng[r].state \in {"CHECKING", "CONNECTING"}
      BY <2>3 DEF Waiting
    <3>3. Requested(t, r) /\ Requested(s, r)
      <4> HIDE DEF t, s, Tried
      <4> QED BY <3>1, <3>2 DEF Requested
    <3>4. Owner(r) \in Called(p)
      <4> HIDE DEF s
      <4> QED BY <1>1, <2>1, <3>3, ViaIs
    <3> QED BY <1>1, <3>3, <3>4
  <2>4. CASE r \notin Waiting(s)
    BY <1>5, <2>1, <2>4
  <2> QED BY <2>3, <2>4
<1>9. PeerInv(lan, t, Called(p))
  <2>1. t.open \subseteq s.open
    BY <1>4, <1>5
  <2> HIDE DEF t, s
  <2> QED BY <1>1, <1>5, <1>7, <1>8, <2>1, RequestKeeps
<1>10. IsFiniteSet(ms) /\ \A m \in ms : NetInv(lan, m)
  <2> DEFINE g == [k \in Digging |-> To(p, "HELLO", k, s.burrow[k].isClient)]
  <2>1. Digging \in SUBSET Keys
    OBVIOUS
  <2>2. g \in Surjection(Digging, ms)
          /\ \A k \in Digging : g[k] = To(p, "HELLO", k, s.burrow[k].isClient)
    BY DEF Surjection
  <2> HIDE DEF Digging, ms, g
  <2>3. \A k \in Digging : NetInv(lan, g[k])
    BY <2>2, ToNet
  <2> QED BY <2>1, <2>2, <2>3, ToMany
<1>11. Send({}, ms)
  BY DEF OnTimer
<1>12. UNCHANGED <<lan, calls, hangups>> /\ stops' \in 0 .. MaxStops
  BY <1>1 DEF OnTimer, Unbounded
<1> HIDE DEF t, ms
<1> QED BY <1>6, <1>9, <1>10, <1>11, <1>12, ReactKeeps

\* heartCheck counts for the living sessions and removes the dead ones.
LEMMA HeartCheckKeeps ==
    ASSUME PeersInv, NEW p \in Peers, NEW late, HeartCheck(p, late)
    PROVE  PeersInv'
<1> DEFINE s == peer[p]
           Probed == late \ Dead(s)
           Counted == [k \in Keys |-> s.noResponse[k] + IF k \in Probed THEN 1 ELSE 0]
           t == [s EXCEPT !.noResponse = Counted]
           ms == {To(p, "PING", k, "") : k \in Probed}
<1>1. /\ PeerInv(lan, s, Called(p)) /\ s \in PeerStates
      /\ lan \in BOOLEAN /\ stops \in 0 .. MaxStops
  BY DEF PeersInv, TypeOK, PeerInv
<1>2. late \subseteq Sessions(s) /\ Sessions(s) \subseteq Keys /\ Dead(s) \subseteq Sessions(s)
  BY DEF HeartCheck, Sessions, Dead
<1>3. Counted \in [Keys -> 0 .. MaxNoResponse + 1]
  <2>1. ASSUME NEW k \in Keys
        PROVE  s.noResponse[k] + (IF k \in Probed THEN 1 ELSE 0) \in 0 .. MaxNoResponse + 1
    <3>1. s.noResponse[k] \in 0 .. MaxNoResponse + 1
      BY <1>1, PeerFields
    <3>2. k \in Probed => ~(s.noResponse[k] > MaxNoResponse)
      BY <1>2 DEF Dead
    <3> HIDE DEF s, Probed
    <3> QED BY <3>1, <3>2, Bounds
  <2> HIDE DEF Probed, s
  <2> QED BY <2>1
<1>4. t \in PeerStates /\ t.session = s.session /\ t.accept = s.accept /\ t.open = s.open
        /\ t.mng = s.mng
  <2> HIDE DEF Counted, s
  <2>1. t \in PeerStates
    BY <1>1, <1>3, PeerUpdates
  <2>2. t.session = s.session /\ t.accept = s.accept /\ t.open = s.open /\ t.mng = s.mng
    BY <1>1 DEF PeerStates
  <2> QED BY <2>1, <2>2
<1>5. PeerInv(lan, t, Called(p))
  <2> HIDE DEF t, s
  <2> QED BY <1>1, <1>4, SamePeer
<1>6. PICK order \in SetToSeqs(Dead(s)) :
         peer' = [peer EXCEPT ![p] = RemoveSessions(t, order)]
  BY DEF HeartCheck
<1>7. \A k \in Sessions(s) : IsAt(lan, k)
  BY <1>1, <1>2 DEF PeerInv, SessionInv, Sessions
<1>8. PeerInv(lan, RemoveSessions(t, order), Called(p))
  <2>1. PICK K \in SUBSET Keys : K = Dead(s)
    BY <1>2
  <2>2. order \in Seq(K) /\ \A k \in K : IsAt(lan, k)
    BY <1>2, <1>6, <1>7, <2>1, OrderType
  <2> HIDE DEF t
  <2> QED BY <1>1, <1>5, <2>1, <2>2, RemovalsKeep
<1>9. IsFiniteSet(ms) /\ \A m \in ms : NetInv(lan, m)
  <2> DEFINE g == [k \in Probed |-> To(p, "PING", k, "")]
  <2>1. Probed \in SUBSET Keys
    BY <1>2
  <2>2. g \in Surjection(Probed, ms) /\ \A k \in Probed : g[k] = To(p, "PING", k, "")
    BY DEF Surjection
  <2> HIDE DEF Probed, ms, g
  <2>3. \A k \in Probed : NetInv(lan, g[k])
    BY <2>2, ToNet
  <2> QED BY <2>1, <2>2, <2>3, ToMany
<1>10. Send({}, ms) /\ UNCHANGED <<lan, calls, hangups>> /\ stops' \in 0 .. MaxStops
  BY <1>1 DEF HeartCheck, Unbounded
<1> HIDE DEF t, ms
<1> QED BY <1>6, <1>8, <1>9, <1>10, ReactKeeps

---------------------------------------------------------------------------
(* The application's actions *)

\* stop removes every session, and then nothing is open.
LEMMA StopKeeps ==
    ASSUME PeersInv, NEW p \in Peers, Stop(p)
    PROVE  PeersInv'
<1> DEFINE s == peer[p]
           ms == {To(p, "C2C_DISCONNECT", k, "") : k \in Sessions(s)}
<1>1. /\ PeerInv(lan, s, Called(p)) /\ lan \in BOOLEAN /\ stops \in 0 .. MaxStops
  BY DEF PeersInv, TypeOK
<1>2. PICK order \in SetToSeqs(Sessions(s)) :
         peer' = [peer EXCEPT ![p] = [RemoveSessions(s, order) EXCEPT !.up = FALSE, !.open = {}]]
  BY DEF Stop
<1>3. PICK K \in SUBSET Keys : K = Sessions(s)
  BY DEF Sessions
<1>4. order \in Seq(K) /\ \A k \in K : IsAt(lan, k)
  BY <1>1, <1>2, <1>3, OrderType DEF PeerInv, SessionInv, Sessions
<1>5. PICK r : r = RemoveSessions(s, order)
  OBVIOUS
<1>6. PeerInv(lan, r, Called(p)) /\ r \in PeerStates
  <2>1. PeerInv(lan, r, Called(p))
    <3> HIDE DEF s
    <3> QED BY <1>1, <1>4, <1>5, RemovalsKeep
  <2> QED BY <2>1 DEF PeerInv
<1> DEFINE x == [r EXCEPT !.up = FALSE]
           t == [x EXCEPT !.open = {}]
<1>7. t \in PeerStates /\ t.session = r.session /\ t.accept = r.accept /\ t.open = {}
        /\ t.mng = r.mng
  <2>1. x \in PeerStates
    BY <1>6, PeerUpdates
  <2>2. t \in PeerStates
    <3> HIDE DEF x
    <3> QED BY <2>1, PeerUpdates
  <2>3. t.session = r.session /\ t.accept = r.accept /\ t.open = {} /\ t.mng = r.mng
    BY <1>6 DEF PeerStates
  <2> QED BY <2>2, <2>3
<1>8. peer' = [peer EXCEPT ![p] = t]
  BY <1>2, <1>5, <1>6 DEF PeerStates
<1> HIDE DEF t
<1>9. PeerInv(lan, t, Called(p))
  BY <1>6, <1>7 DEF PeerInv, RequestInv, SessionInv, AcceptInv, Requested, ViaOf
<1>10. IsFiniteSet(ms) /\ \A m \in ms : NetInv(lan, m)
  <2> DEFINE g == [k \in Sessions(s) |-> To(p, "C2C_DISCONNECT", k, "")]
  <2>1. g \in Surjection(Sessions(s), ms)
          /\ \A k \in Sessions(s) : g[k] = To(p, "C2C_DISCONNECT", k, "")
    BY DEF Surjection
  <2> HIDE DEF ms, g
  <2>2. \A k \in Sessions(s) : NetInv(lan, g[k])
    BY <2>1, ToNet
  <2> QED BY <1>3, <2>1, <2>2, ToMany
<1>11. Send({}, ms) /\ UNCHANGED <<lan, calls, hangups>>
  BY DEF Stop
<1>12. stops' \in 0 .. MaxStops
  <2>1. stops < MaxStops /\ stops' = stops + 1
    BY DEF Stop
  <2> QED BY <1>1, <2>1, Bounds
<1> HIDE DEF ms
<1> QED BY <1>8, <1>9, <1>10, <1>11, <1>12, ReactKeeps

\* A call that is made is remembered.
LEMMA CallCounts ==
    ASSUME PeersInv, NEW p \in Peers, NEW q \in Peers, ConnectToPeer(p, q)
    PROVE  /\ \A r \in Peers : Called(r) \subseteq Called(r)'
           /\ q \in Called(p)'
           /\ calls' \in [Calls -> 0 .. MaxCalls]
<1>1. /\ calls \in [Calls -> 0 .. MaxCalls] /\ <<p, q>> \in Calls /\ calls[<<p, q>>] < MaxCalls
      /\ calls' = [calls EXCEPT ![<<p, q>>] = calls[<<p, q>>] + 1]
  BY DEF PeersInv, TypeOK, ConnectToPeer
<1>2. PICK c \in Calls : c = <<p, q>>
  BY <1>1
<1>3. calls[c] + 1 \in 1 .. MaxCalls
  BY <1>1, <1>2, Bounds
<1>4. calls' \in [Calls -> 0 .. MaxCalls] /\ calls'[c] > 0
        /\ \A d \in Calls : d # c => calls'[d] = calls[d]
  BY <1>1, <1>2, <1>3
<1>5. \A d \in Calls : calls[d] > 0 => calls'[d] > 0
  BY <1>4
<1> QED BY <1>1, <1>2, <1>4, <1>5 DEF Called, HasCalled

\* A call makes a request for a public key, under which no client is filed on a
\* local network.
LEMMA ConnectToPeerKeeps ==
    ASSUME PeersInv, NEW p \in Peers, NEW q \in Peers, ConnectToPeer(p, q)
    PROVE  PeersInv'
<1> DEFINE s == peer[p]
           k == Public(q)
           d == [NoRequest EXCEPT !.state = "CHECKING"]
           f == [s.mng EXCEPT ![k] = d]
           m == Datagram("CHECK_PEER", Public(p), Turn, k)
<1>1. /\ PeerInv(lan, s, Called(p)) /\ s \in PeerStates /\ peer \in [Peers -> PeerStates]
      /\ lan \in BOOLEAN /\ stops \in 0 .. MaxStops /\ hangups \in 0 .. MaxHangups
      /\ k \in Keys /\ Owner(k) = q
  BY KeyFacts DEF PeersInv, TypeOK, PeerInv
<1>2. UNCHANGED lan /\ hangups' \in 0 .. MaxHangups /\ stops' \in 0 .. MaxStops
  BY <1>1 DEF ConnectToPeer
<1>3. CASE s.mng[k].state # "none"
  <2>1. UNCHANGED <<peer, net>>
    BY <1>3 DEF ConnectToPeer
  <2>2. peer' = [peer EXCEPT ![p] = peer[p]]
    BY <1>1, <2>1
  <2>3. PeerInv(lan, s, Called(p)')
    <3> HIDE DEF s
    <3> QED BY <1>1, CallCounts, MoreCalled
  <2>4. IsFiniteSet(net') /\ Cardinality(net') <= MaxNet /\ \A n \in net' : NetInv(lan, n)
    BY <2>1 DEF PeersInv, TypeOK
  <2> QED BY <1>2, <2>2, <2>3, <2>4, CallCounts, StepKeeps
<1>4. CASE s.mng[k].state = "none"
  <2> DEFINE t == [s EXCEPT !.mng = f]
  <2>1. peer' = [peer EXCEPT ![p] = t] /\ Send({}, {m})
    <3>1. peer' = [peer EXCEPT ![p].mng[k] = d] /\ Send({}, {m})
      BY <1>4 DEF ConnectToPeer
    <3>2. peer' = [peer EXCEPT ![p] = [s EXCEPT !.mng = [@ EXCEPT ![k] = d]]]
      BY <3>1
    <3> QED BY <1>1, <3>1, <3>2
  <2>2. d \in Requests /\ d.state = "CHECKING" /\ d.sendTo = NoKey
    BY Bounds DEF NoRequest, Requests
  <2>3. f \in [Keys -> Requests] /\ f[k] = d
    <3> HIDE DEF d, k
    <3> QED BY <1>1, <2>2, PeerFields
  <2>4. t \in PeerStates /\ t.session = s.session /\ t.accept = s.accept /\ t.open = s.open
          /\ t.mng = f
    <3> HIDE DEF f, s
    <3>1. t \in PeerStates
      BY <1>1, <2>3, PeerUpdates
    <3>2. t.session = s.session /\ t.accept = s.accept /\ t.open = s.open /\ t.mng = f
      BY <1>1 DEF PeerStates
    <3> QED BY <3>1, <3>2
  <2>5. Called(p) \subseteq Called(p)' /\ q \in Called(p)'
    BY CallCounts
  <2>6. RequestInv(lan, t, Called(p)', k)
    <3>1. k = Public(Owner(k))
      BY <1>1
    <3> HIDE DEF t, f, d, k
    <3> QED BY <1>1, <2>2, <2>3, <2>4, <2>5, <3>1 DEF RequestInv, Requested
  <2>7. k \in t.open => \/ lan /\ Owner(k) \in Called(p)
                        \/ ~lan /\ (k \in s.accept \/ d.state # "none")
    <3>1. k \in s.open => OpenInv(lan, s, Called(p), k)
      BY <1>1 DEF PeerInv
    <3>2. k \in s.accept => IsAt(lan, k)
      BY <1>1 DEF PeerInv, AcceptInv
    <3>3. ~Requested(s, k)
      BY <1>4 DEF Requested
    <3>4. IsAt(lan, k) => ~lan
      BY <1>1, KeyFacts DEF IsAt
    <3>5. t.open = s.open
      BY <2>4
    <3> HIDE DEF t, d, k, s
    <3> QED BY <1>1, <2>2, <3>1, <3>2, <3>3, <3>4, <3>5 DEF OpenInv
  <2>8. PeerInv(lan, t, Called(p)')
    <3> HIDE DEF t, d, k, s
    <3>1. t.open \subseteq s.open
      BY <2>4
    <3>2. PICK D : D = Called(p)'
      OBVIOUS
    <3> QED BY <1>1, <2>3, <2>4, <2>5, <2>6, <2>7, <3>1, RequestTurns DEF f
  <2>9. NetInv(lan, m)
    BY <1>1 DEF NetInv, Datagram
  <2>10. PICK n : n = m
    OBVIOUS
  <2>11. IsFiniteSet({n}) /\ \A y \in {n} : NetInv(lan, y)
    BY <2>9, <2>10, OneSent
  <2>12. IsFiniteSet(net') /\ Cardinality(net') <= MaxNet /\ \A y \in net' : NetInv(lan, y)
    <3> HIDE DEF m
    <3> QED BY <2>1, <2>10, <2>11, SendKeeps
  <2> HIDE DEF t
  <2> QED BY <1>2, <2>1, <2>8, <2>12, CallCounts, StepKeeps
<1> QED BY <1>3, <1>4

\* disconnect only tells the other peer.
LEMMA DisconnectKeeps ==
    ASSUME PeersInv, NEW p \in Peers, NEW k, Disconnect(p, k)
    PROVE  PeersInv'
<1>1. UNCHANGED <<lan, peer, calls, stops>> /\ hangups < MaxHangups /\ hangups' = hangups + 1
  BY DEF Disconnect
<1>2. hangups \in 0 .. MaxHangups
  BY DEF PeersInv, TypeOK
<1>3. hangups' \in 0 .. MaxHangups
  BY <1>1, <1>2, Bounds
<1>4. PICK ms \in {{}, {To(p, "C2C_DISCONNECT", k, "")}} : Send({}, ms)
  BY DEF Disconnect
<1>5. NetInv(lan, To(p, "C2C_DISCONNECT", k, ""))
  BY ToNet
<1>6. IsFiniteSet(ms) /\ \A x \in ms : NetInv(lan, x)
  BY <1>5, NothingSent, OneSent
<1>7. IsFiniteSet(net') /\ Cardinality(net') <= MaxNet /\ \A n \in net' : NetInv(lan, n)
  BY <1>4, <1>6, SendKeeps
<1>8. peer' = [peer EXCEPT ![p] = peer[p]] /\ stops' \in 0 .. MaxStops
        /\ calls' \in [Calls -> 0 .. MaxCalls]
  BY <1>1 DEF PeersInv, TypeOK
<1>9. \A q \in Peers : Called(q)' = Called(q)
  BY <1>1 DEF Called, HasCalled
<1>10. PeerInv(lan, peer[p], Called(p)')
  BY <1>9 DEF PeersInv
<1> QED BY <1>1, <1>3, <1>7, <1>8, <1>9, <1>10, StepKeeps

---------------------------------------------------------------------------
(* The specification *)

\* Every step keeps the invariant.
LEMMA InvStep == PeersInv /\ [Next]_vars => PeersInv'
<1> SUFFICES ASSUME PeersInv, [Next]_vars PROVE PeersInv'
  OBVIOUS
<1>1. ASSUME NEW m \in net, Unheard(m) PROVE PeersInv'
  BY <1>1, UnheardKeeps
<1>2. ASSUME NEW m \in net, CheckPeer(m) PROVE PeersInv'
  BY <1>2, CheckPeerKeeps
<1>3. ASSUME NEW p \in Peers, NEW m \in net, Arrives(p, m) PROVE PeersInv'
  <2>1. CASE OnPing(p, m)
    BY <2>1, OnPingKeeps
  <2>2. CASE OnPong(p, m)
    BY <2>2, OnPongKeeps
  <2>3. CASE OnHello(p, m)
    BY <2>3, OnHelloKeeps
  <2>4. CASE OnCreateKcp(p, m)
    BY <2>4, OnCreateKcpKeeps
  <2>5. CASE OnCreateKcpResult(p, m)
    BY <2>5, OnCreateKcpResultKeeps
  <2>6. CASE OnDisconnect(p, m)
    BY <2>6, OnDisconnectKeeps
  <2>7. CASE OnStartBurrow(p, m)
    BY <2>7, OnStartBurrowKeeps
  <2>8. CASE OnLateCheckResult(p, m)
    BY <2>8, OnLateCheckResultKeeps
  <2>9. CASE DigForPeer(p, m)
    BY <2>9, DigForPeerKeeps
  <2>10. CASE PeerNotFound(p, m)
    BY <2>10, PeerNotFoundKeeps
  <2>11. CASE RefusedAsClient(p, m)
    BY <2>11, RefusedAsClientKeeps
  <2> QED BY <1>3, <2>1, <2>2, <2>3, <2>4, <2>5, <2>6, <2>7, <2>8, <2>9, <2>10, <2>11
          DEF Arrives
<1>4. ASSUME NEW p \in Peers, OnTimer(p) PROVE PeersInv'
  BY <1>4, OnTimerKeeps
<1>5. ASSUME NEW p \in Peers, NEW late, HeartCheck(p, late) PROVE PeersInv'
  BY <1>5, HeartCheckKeeps
<1>6. ASSUME NEW p \in Peers, NEW q \in Peers, ConnectToPeer(p, q) PROVE PeersInv'
  BY <1>6, ConnectToPeerKeeps
<1>7. ASSUME NEW p \in Peers, NEW k \in Keys, Disconnect(p, k) PROVE PeersInv'
  BY <1>7, DisconnectKeeps
<1>8. ASSUME NEW p \in Peers, Stop(p) PROVE PeersInv'
  BY <1>8, StopKeeps
<1>9. CASE UNCHANGED vars
  BY <1>9 DEF vars, PeersInv, TypeOK, Called, HasCalled
<1> QED BY <1>1, <1>2, <1>3, <1>4, <1>5, <1>6, <1>7, <1>8, <1>9 DEF Next

\* The invariant holds in every reachable state.
THEOREM Safety == Spec => []PeersInv
  BY InitInv, InvStep, PTL DEF Spec

\* The variables keep their types: sendCount, tryConnectCount and
\* noResponseCount stay within the limits that onTimerRun and heartCheck set.
THEOREM TypeCorrect == Spec => []TypeOK
<1>1. PeersInv => TypeOK
  BY DEF PeersInv
<1> QED BY <1>1, Safety, PTL

\* A request that is CONNECT has a KCP session.
THEOREM RequestsHaveKcp == Spec => []ConnectedHasKcp
<1>1. PeersInv => ConnectedHasKcp
  <2> SUFFICES ASSUME PeersInv, NEW p \in Peers, NEW r \in Keys,
                      peer[p].mng[r].state = "CONNECT"
               PROVE  peer[p].session[Via(p, r)] = "kcp"
    BY DEF ConnectedHasKcp
  <2>1. RequestInv(lan, peer[p], Called(p), r) /\ Via(p, r) = ViaOf(peer[p], r)
    BY DEF PeersInv, PeerInv, Via, ViaOf
  <2> QED BY <2>1 DEF RequestInv, Requested
<1> QED BY <1>1, Safety, PTL

\* What a peer's application takes for connected is connected, except for a
\* client of its own network that it called, too.
THEOREM AnnouncedIsReal == Spec => []OpenIsReal
<1>1. PeersInv => OpenIsReal
  <2> SUFFICES ASSUME PeersInv, NEW p \in Peers, NEW k \in peer[p].open
               PROVE  \/ peer[p].session[Via(p, k)] = "kcp"
                      \/ lan /\ HasCalled(p, Owner(k))
    BY DEF OpenIsReal
  <2>1. OpenInv(lan, peer[p], Called(p), k) /\ Via(p, k) = ViaOf(peer[p], k)
    BY DEF PeersInv, PeerInv, Via, ViaOf
  <2> QED BY <2>1 DEF OpenInv, Called
<1> QED BY <1>1, Safety, PTL

\* A client that is served is connected, unless this peer called it itself.
THEOREM ClientsHaveKcp == Spec => []ServedHasKcp
<1>1. PeersInv => ServedHasKcp
  <2> SUFFICES ASSUME PeersInv, NEW p \in Peers, NEW k \in peer[p].accept
               PROVE  peer[p].session[k] = "kcp" \/ HasCalled(p, Owner(k))
    BY DEF ServedHasKcp
  <2>1. AcceptInv(lan, peer[p], Called(p), k)
    BY DEF PeersInv, PeerInv
  <2> QED BY <2>1 DEF AcceptInv, Called
<1> QED BY <1>1, Safety, PTL
=============================================================================
