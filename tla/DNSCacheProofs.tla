---------------------------- MODULE DNSCacheProofs ----------------------------
(***************************************************************************)
(* The properties of DNSCache for any threads, hosts, ports and times.     *)
(***************************************************************************)
EXTENDS DNSCache, SequenceTheorems, TLAPS

(* Nodes are numbered as they are made, no thread's clock is ahead, and a  *)
(* thread that does nothing has nothing of a host.                         *)
Numbered ==
    /\ \A h \in Hosts : cache[h].node <= nodes
    /\ \A t \in Threads :
        /\ thread[t].node <= nodes /\ thread[t].cur <= now
        /\ thread[t].pc # "idle" => thread[t].host \in Hosts
        /\ thread[t].pc = "idle" => thread[t].host = "none" /\ since[t] = {}
        /\ Holds(t) => thread[t].node > 0

(* What a thread points to is there, and is its own, while nobody else     *)
(* changed its host.                                                       *)
UndisturbedOf(t) ==
    Holds(t) /\ since[t] = {} =>
        /\ Live(t)
        /\ thread[t].at \in DOMAIN cache[thread[t].host].ports
        /\ thread[t].pc = "copy" =>
               cache[thread[t].host].ports[thread[t].at] = thread[t].port

(* An entry in use is fresh while nobody else set its time.                *)
FreshOf(t) ==
    Holds(t) /\ Alive(t) /\ "timed" \notin since[t] =>
        now - cache[thread[t].host].time < StaleAfter

(* The inductive invariant.                                                *)
IInv ==
    /\ TypeOK
    /\ Numbered
    /\ \A t \in Threads : UndisturbedOf(t) /\ FreshOf(t)

-----------------------------------------------------------------------------
(* Type correctness.                                                       *)

Entries == [node : Nat, moves : Nat, ports : Seq(Nat), time : Nat]
Steps == {"idle", "write", "copy", "resolve", "insert", "append"}
ThreadStates ==
    [pc : Steps, host : Hosts \cup {"none"}, port : Nat, node : Nat, moves : Nat,
     at : Nat, cur : Nat, left : Nat]

(* A port written into a vector leaves its other ports and its length.     *)
LEMMA PortWritten ==
    ASSUME NEW ports \in Seq(Nat), NEW at, NEW port \in Nat
    PROVE  /\ [ports EXCEPT ![at] = port] \in Seq(Nat)
           /\ Len([ports EXCEPT ![at] = port]) = Len(ports)
<1>1. ports \in [1 .. Len(ports) -> Nat] /\ Len(ports) \in Nat
  OBVIOUS
<1>2. [ports EXCEPT ![at] = port] \in [1 .. Len(ports) -> Nat]
  BY <1>1
<1> QED BY <1>1, <1>2, SeqDef

(* An address appended leaves the node, the time and the other addresses.  *)
LEMMA AppendedEntry ==
    ASSUME NEW entry \in Entries
    PROVE  /\ Appended(entry) \in Entries
           /\ Appended(entry).node = entry.node /\ Appended(entry).time = entry.time
           /\ Appended(entry).ports = Append(entry.ports, NoPort)
           /\ ~Full(Len(entry.ports)) => Appended(entry).moves = entry.moves
<1> DEFINE moves == IF Full(Len(entry.ports)) THEN entry.moves + 1 ELSE entry.moves
           ports == Append(entry.ports, NoPort)
<1>1. moves \in Nat
  BY DEF Entries
<1>2. ports \in Seq(Nat)
  BY DEF Entries, NoPort
<1>3. Appended(entry) = [node |-> entry.node, moves |-> moves, ports |-> ports,
                         time |-> entry.time]
  <2> HIDE DEF moves, ports
  <2>1. entry = [node |-> entry.node, moves |-> entry.moves, ports |-> entry.ports,
                 time |-> entry.time]
    BY DEF Entries
  <2>2. Appended(entry) = [entry EXCEPT !.ports = ports, !.moves = moves]
    BY DEF Appended, ports, moves
  <2> QED BY <2>1, <2>2
<1>4. entry.node \in Nat /\ entry.time \in Nat
  BY DEF Entries
<1> HIDE DEF ports
<1>5. Appended(entry) \in Entries
  BY <1>1, <1>2, <1>3, <1>4 DEF Entries
<1> QED BY <1>3, <1>5 DEF ports

LEMMA InitType == Init => IInv
<1> SUFFICES ASSUME Init PROVE IInv
  OBVIOUS
<1>1. Absent \in Entries /\ Idle \in ThreadStates
  BY DEF Absent, Entry, Idle, Entries, ThreadStates, Steps, NoPort
<1>2. TypeOK
  BY <1>1 DEF Init, TypeOK, Entries, ThreadStates, Steps
<1>3. Numbered
  BY DEF Init, Numbered, Absent, Entry, Idle, Holds
<1>4. \A t \in Threads : UndisturbedOf(t) /\ FreshOf(t)
  BY DEF Init, UndisturbedOf, FreshOf, Holds, Idle
<1> QED BY <1>2, <1>3, <1>4 DEF IInv

(* What others do to a host is noted with the threads that use it.         *)
LEMMA DisturbsType ==
    ASSUME TypeOK, NEW t \in Threads, NEW h, NEW what \in SUBSET {"changed", "timed"},
           Disturbs(t, h, what)
    PROVE  since' \in [Threads -> SUBSET {"changed", "timed"}]
  BY DEF TypeOK, Disturbs

LEMMA TypeStep == TypeOK /\ Numbered /\ [Next]_vars => TypeOK'
<1> SUFFICES ASSUME TypeOK, Numbered, [Next]_vars PROVE TypeOK'
  OBVIOUS
<1> USE CacheAssumption
<1>0. /\ cache \in [Hosts -> Entries] /\ thread \in [Threads -> ThreadStates]
      /\ Absent \in Entries /\ Idle \in ThreadStates
      /\ nodes \in Nat /\ lastClear \in Nat /\ now \in Nat
      /\ since \in [Threads -> SUBSET {"changed", "timed"}]
  BY DEF TypeOK, Absent, Entry, Idle, Entries, ThreadStates, Steps, NoPort
<1> DEFINE Typed ==
        /\ cache' \in [Hosts -> Entries] /\ thread' \in [Threads -> ThreadStates]
        /\ nodes' \in Nat /\ lastClear' \in Nat /\ now' \in Nat
        /\ since' \in [Threads -> SUBSET {"changed", "timed"}]
<1>a. SUFFICES Typed
  BY DEF TypeOK, Entries, ThreadStates, Steps
<1>1. ASSUME NEW t \in Threads, ThreadNext(t) PROVE Typed
  <2>h. thread[t].pc # "idle" => thread[t].host \in Hosts
    BY DEF Numbered
  <2>1. ASSUME NEW h \in Hosts, NEW p \in Ports, Hit(t, h, p) PROVE Typed
    <3>1. PICK i \in DOMAIN cache[h].ports :
              thread' = [thread EXCEPT ![t] = [Idle EXCEPT
                      !.pc = "write", !.host = h, !.port = p,
                      !.node = cache[h].node, !.moves = cache[h].moves, !.at = i]]
      BY <2>1 DEF Hit
    <3>2. i \in Nat /\ cache[h] \in Entries
      BY <1>0 DEF Entries
    <3>3. thread' \in [Threads -> ThreadStates]
      BY <1>0, <3>1, <3>2 DEF Entries, ThreadStates, Steps, Idle
    <3>4. cache' \in [Hosts -> Entries]
      BY <1>0, <2>1 DEF Hit, Refreshed, Entries
    <3> QED BY <1>0, <2>1, <3>3, <3>4 DEF Hit
  <2>2. ASSUME NEW h \in Hosts, NEW p \in Ports, Miss(t, h, p) PROVE Typed
    BY <1>0, <2>2 DEF Miss, ThreadStates, Steps, Idle
  <2>3. CASE WritePort(t)
    <3> DEFINE h == thread[t].host
    <3>1. h \in Hosts /\ cache[h] \in Entries /\ thread[t] \in ThreadStates
      BY <1>0, <2>3, <2>h DEF WritePort
    <3>2. [cache[h].ports EXCEPT ![thread[t].at] = thread[t].port] \in Seq(Nat)
      BY <3>1, PortWritten DEF Entries, ThreadStates
    <3>3. cache' \in [Hosts -> Entries]
      BY <1>0, <2>3, <3>1, <3>2 DEF WritePort, Entries
    <3>4. thread' \in [Threads -> ThreadStates]
      BY <1>0, <2>3 DEF WritePort, ThreadStates, Steps
    <3> QED BY <1>0, <2>3, <3>3, <3>4, DisturbsType DEF WritePort
  <2>4. CASE Copy(t)
    BY <1>0, <2>4 DEF Copy, Returns
  <2>5. CASE Resolve(t)
    <3>1. Addresses[thread[t].host] \in Nat
      BY <2>5, <2>h DEF Resolve
    <3>2. [thread[t] EXCEPT !.pc = "insert", !.cur = now,
                            !.left = Addresses[thread[t].host]] \in ThreadStates
      BY <1>0, <3>1 DEF ThreadStates, Steps
    <3>3. thread' \in [Threads -> ThreadStates]
      BY <1>0, <2>5, <3>2 DEF Resolve
    <3> QED BY <1>0, <2>5, <3>3 DEF Resolve
  <2>6. CASE ResolveFails(t)
    BY <1>0, <2>6 DEF ResolveFails, Returns
  <2>7. CASE Insert(t)
    <3> DEFINE h == thread[t].host
    <3>1. h \in Hosts /\ thread[t] \in ThreadStates /\ cache[h] \in Entries
      BY <1>0, <2>7, <2>h DEF Insert
    <3>2. \A n \in Nat : [thread[t] EXCEPT !.pc = "append", !.node = n] \in ThreadStates
      BY <3>1 DEF ThreadStates, Steps
    <3>3. thread[t].cur \in Nat /\ cache[h].node \in Nat
      BY <3>1 DEF ThreadStates, Entries
    <3>4. CASE Present(h)
      <4>1. [cache[h] EXCEPT !.time = thread[t].cur] \in Entries
        BY <3>1, <3>3 DEF Entries
      <4>2. cache' = [cache EXCEPT ![h] = [cache[h] EXCEPT !.time = thread[t].cur]]
        BY <1>0, <2>7, <3>4 DEF Insert
      <4>3. thread' = [thread EXCEPT ![t] =
                           [thread[t] EXCEPT !.pc = "append", !.node = cache[h].node]]
        BY <1>0, <2>7, <3>4 DEF Insert
      <4>4. since' \in [Threads -> SUBSET {"changed", "timed"}]
        BY <2>7, <3>4, DisturbsType DEF Insert
      <4> QED BY <1>0, <2>7, <3>1, <3>2, <3>3, <3>4, <4>1, <4>2, <4>3, <4>4 DEF Insert
    <3>5. CASE ~Present(h)
      <4>1. Entry(nodes + 1, thread[t].cur) \in Entries
        BY <1>0, <3>3 DEF Entries, Entry
      <4>2. cache' = [cache EXCEPT ![h] = Entry(nodes + 1, thread[t].cur)]
        BY <2>7, <3>5 DEF Insert
      <4>3. thread' = [thread EXCEPT ![t] =
                           [thread[t] EXCEPT !.pc = "append", !.node = nodes + 1]]
        BY <1>0, <2>7, <3>5 DEF Insert
      <4>4. nodes' = nodes + 1 /\ UNCHANGED <<lastClear, now, since>>
        BY <2>7, <3>5 DEF Insert
      <4>5. nodes + 1 \in Nat
        BY <1>0
      <4> QED BY <1>0, <3>1, <3>2, <4>1, <4>2, <4>3, <4>4, <4>5
    <3> QED BY <3>4, <3>5
  <2>8. CASE AppendAddress(t)
    <3> DEFINE h == thread[t].host
    <3>1. h \in Hosts /\ cache[h] \in Entries /\ thread[t] \in ThreadStates
      BY <1>0, <2>8, <2>h DEF AppendAddress
    <3>3. Appended(cache[h]) \in Entries
      BY <3>1, AppendedEntry
    <3>4. cache' \in [Hosts -> Entries]
      BY <1>0, <2>8, <3>1, <3>3 DEF AppendAddress
    <3>5. thread[t].left - 1 \in Nat
      BY <2>8, <3>1 DEF AppendAddress, ThreadStates
    <3>6. thread' \in [Threads -> ThreadStates]
      <4>1. PICK x : x = [thread[t] EXCEPT !.left = thread[t].left - 1]
        OBVIOUS
      <4>2. x \in ThreadStates
        BY <3>1, <3>5, <4>1 DEF ThreadStates
      <4>3. thread' = [thread EXCEPT ![t] = x]
        BY <2>8, <4>1 DEF AppendAddress
      <4> QED BY <1>0, <4>2, <4>3
    <3>7. since' \in [Threads -> SUBSET {"changed", "timed"}]
      <4> DEFINE what == IF Alive(t) /\ Full(Len(cache[h].ports)) THEN {"changed"} ELSE {}
      <4>1. Disturbs(t, h, what)
        BY <2>8 DEF AppendAddress
      <4>2. what \in SUBSET {"changed", "timed"}
        OBVIOUS
      <4> HIDE DEF h, what
      <4> QED BY <1>0, <4>1, <4>2 DEF Disturbs
    <3> QED BY <1>0, <2>8, <3>4, <3>6, <3>7 DEF AppendAddress
  <2>9. CASE Purge(t)
    <3>1. cache' \in [Hosts -> Entries]
      BY <1>0, <2>9 DEF Purge
    <3>2. thread' \in [Threads -> ThreadStates] /\ lastClear' \in Nat
      BY <1>0, <2>9 DEF Purge, Returns, ThreadStates
    <3>3. since' \in [Threads -> SUBSET {"changed", "timed"}]
      BY <1>0, <2>9 DEF Purge
    <3> QED BY <1>0, <2>9, <3>1, <3>2, <3>3 DEF Purge
  <2> QED BY <1>1, <2>1, <2>2, <2>3, <2>4, <2>5, <2>6, <2>7, <2>8, <2>9 DEF ThreadNext
<1>2. ASSUME NEW hosts, Erase(hosts) PROVE Typed
  <2>1. cache' \in [Hosts -> Entries]
    BY <1>0, <1>2 DEF Erase
  <2>2. since' \in [Threads -> SUBSET {"changed", "timed"}]
    BY <1>0, <1>2 DEF Erase
  <2> QED BY <1>0, <1>2, <2>1, <2>2 DEF Erase
<1>3. CASE Second
  BY <1>0, <1>3 DEF Second
<1>4. CASE UNCHANGED vars
  BY <1>0, <1>4 DEF vars
<1> QED BY <1>1, <1>2, <1>3, <1>4 DEF Next, ClearCache, ClearAll

-----------------------------------------------------------------------------
(* The invariant is inductive.                                             *)

(* What a step leaves to a thread u that it is not a step of.              *)
Spares(u) ==
    LET h == thread[u].host IN
    /\ thread'[u] = thread[u]
    /\ since[u] \subseteq since'[u]
    /\ since'[u] = {} =>
           /\ cache'[h].node = cache[h].node /\ cache'[h].moves = cache[h].moves
           /\ \A i \in DOMAIN cache[h].ports :
                  i \in DOMAIN cache'[h].ports /\ cache'[h].ports[i] = cache[h].ports[i]
    /\ cache'[h].node = thread[u].node /\ "timed" \notin since'[u] =>
           \/ cache'[h].node = cache[h].node /\ cache'[h].time = cache[h].time /\ now' = now
           \/ now' - cache'[h].time < StaleAfter

LEMMA SparedThread ==
    ASSUME NEW u \in Threads, UndisturbedOf(u), FreshOf(u), Holds(u) => Spares(u),
           thread'[u] = thread[u]
    PROVE  UndisturbedOf(u)' /\ FreshOf(u)'
<1>1. UndisturbedOf(u)'
  BY DEF UndisturbedOf, Spares, Holds, Live
<1>2. FreshOf(u)'
  BY DEF FreshOf, Spares, Holds, Alive
<1> QED BY <1>1, <1>2

(* A thread that holds nothing after its step has nothing to keep.         *)
LEMMA HoldsNothing ==
    ASSUME NEW t, thread'[t].pc \notin {"write", "copy"}
    PROVE  UndisturbedOf(t)' /\ FreshOf(t)'
  BY DEF UndisturbedOf, FreshOf, Holds

(* Who is disturbed.                                                       *)
LEMMA Disturbed ==
    ASSUME TypeOK, NEW t \in Threads, NEW h, NEW what, Disturbs(t, h, what)
    PROVE  /\ since'[t] = since[t]
           /\ \A u \in Threads \ {t} :
                  since'[u] = IF thread[u].host = h THEN since[u] \cup what ELSE since[u]
  BY DEF TypeOK, Disturbs

LEMMA HitStep ==
    ASSUME IInv, TypeOK', NEW t \in Threads, NEW h \in Hosts, NEW p \in Ports, Hit(t, h, p)
    PROVE  Numbered' /\ \A u \in Threads : UndisturbedOf(u)' /\ FreshOf(u)'
<1> USE CacheAssumption DEF IInv
<1>1. PICK i \in DOMAIN cache[h].ports :
          thread' = [thread EXCEPT ![t] = [Idle EXCEPT
                  !.pc = "write", !.host = h, !.port = p,
                  !.node = cache[h].node, !.moves = cache[h].moves, !.at = i]]
  BY DEF Hit
<1>2. /\ thread'[t] = [pc |-> "write", host |-> h, port |-> p, node |-> cache[h].node,
                       moves |-> cache[h].moves, at |-> i, cur |-> 0, left |-> 0]
      /\ \A u \in Threads \ {t} : thread'[u] = thread[u]
  BY <1>1 DEF Idle, TypeOK
<1>3. /\ cache'[h] = [cache[h] EXCEPT !.time = now]
      /\ \A g \in Hosts \ {h} : cache'[g] = cache[g]
      /\ nodes' = nodes /\ now' = now /\ since' = since
  BY DEF Hit, Refreshed, TypeOK
<1>4. /\ cache'[h].node = cache[h].node /\ cache'[h].moves = cache[h].moves
      /\ cache'[h].ports = cache[h].ports /\ cache'[h].time = now
  BY <1>3 DEF TypeOK
<1>5. cache[h].node \in Nat /\ cache[h].node # 0 /\ now \in Nat /\ 0 < StaleAfter
  <2>1. cache[h].node # 0
    BY DEF Hit, Present
  <2> QED BY <2>1 DEF TypeOK
<1>6. since[t] = {}
  BY DEF Hit, Starts, Numbered
<1>7. Numbered'
  <2>1. \A g \in Hosts : cache'[g].node <= nodes'
    BY <1>3, <1>4 DEF Numbered
  <2>2. thread'[t].node <= nodes' /\ thread'[t].cur <= now' /\ thread'[t].node > 0
    BY <1>2, <1>3, <1>5 DEF Numbered
  <2> QED BY <1>2, <1>3, <2>1, <2>2 DEF Numbered, Holds
<1>8. UndisturbedOf(t)' /\ FreshOf(t)'
  <2>1. UndisturbedOf(t)'
    BY <1>2, <1>4 DEF UndisturbedOf, Live
  <2>2. now' - cache'[thread'[t].host].time < StaleAfter
    <3>1. thread'[t].host = h
      BY <1>2
    <3>2. now' = now /\ cache'[h].time = now
      BY <1>3, <1>4
    <3>3. now - now < StaleAfter
      BY <1>5
    <3> QED BY <3>1, <3>2, <3>3
  <2> QED BY <2>1, <2>2 DEF FreshOf
<1>9. ASSUME NEW u \in Threads \ {t}, Holds(u) PROVE Spares(u)
  <2>1. thread[u].host \in Hosts
    BY <1>9 DEF Numbered, Holds
  <2>2. now' - cache'[h].time < StaleAfter
    BY <1>3, <1>4, <1>5
  <2>3. CASE thread[u].host = h
    BY <1>2, <1>3, <1>4, <2>2, <2>3 DEF Spares
  <2>4. CASE thread[u].host # h
    BY <1>2, <1>3, <2>1, <2>4 DEF Spares
  <2> QED BY <2>3, <2>4
<1> QED BY <1>2, <1>7, <1>8, <1>9, SparedThread

LEMMA WritePortStep ==
    ASSUME IInv, TypeOK', NEW t \in Threads, WritePort(t)
    PROVE  Numbered' /\ \A u \in Threads : UndisturbedOf(u)' /\ FreshOf(u)'
<1> USE CacheAssumption DEF IInv
<1> DEFINE h == thread[t].host
<1>1. h \in Hosts /\ thread[t].port \in Nat /\ cache[h].ports \in Seq(Nat)
  BY DEF WritePort, Numbered, TypeOK
<1>2. /\ thread'[t] = [thread[t] EXCEPT !.pc = "copy"]
      /\ \A u \in Threads \ {t} : thread'[u] = thread[u]
      /\ nodes' = nodes /\ now' = now
  BY DEF WritePort, TypeOK
<1>3. /\ since'[t] = since[t]
      /\ \A u \in Threads \ {t} :
             since'[u] = IF thread[u].host = h THEN since[u] \cup {"changed"} ELSE since[u]
  BY Disturbed DEF WritePort
<1>4. /\ \A g \in Hosts : cache'[g].node = cache[g].node /\ cache'[g].moves = cache[g].moves
                          /\ cache'[g].time = cache[g].time
      /\ \A g \in Hosts \ {h} : cache'[g] = cache[g]
      /\ Live(t) => cache'[h].ports = [cache[h].ports EXCEPT ![thread[t].at] = thread[t].port]
  <2>1. CASE Live(t)
    <3>1. cache' = [cache EXCEPT ![h].ports[thread[t].at] = thread[t].port]
      BY <2>1 DEF WritePort
    <3>2. cache'[h] = [cache[h] EXCEPT !.ports =
                           [cache[h].ports EXCEPT ![thread[t].at] = thread[t].port]]
      BY <1>1, <3>1 DEF TypeOK
    <3>3. \A g \in Hosts \ {h} : cache'[g] = cache[g]
      BY <3>1 DEF TypeOK
    <3>4. cache[h] \in Entries
      BY <1>1 DEF TypeOK, Entries
    <3> HIDE DEF h
    <3>5. /\ cache'[h].node = cache[h].node /\ cache'[h].moves = cache[h].moves
          /\ cache'[h].time = cache[h].time
          /\ cache'[h].ports = [cache[h].ports EXCEPT ![thread[t].at] = thread[t].port]
      BY <3>2, <3>4 DEF Entries
    <3> QED BY <3>3, <3>5
  <2>2. CASE ~Live(t)
    BY <2>2 DEF WritePort
  <2> QED BY <2>1, <2>2
<1>5. /\ thread'[t].pc = "copy" /\ thread'[t].host = h /\ thread'[t].port = thread[t].port
      /\ thread'[t].node = thread[t].node /\ thread'[t].moves = thread[t].moves
      /\ thread'[t].at = thread[t].at /\ thread'[t].cur = thread[t].cur
  BY <1>2 DEF TypeOK
<1>6. Numbered'
  <2>1. thread[t].pc = "write" /\ thread[t].node > 0
    BY DEF WritePort, Numbered, Holds
  <2>2. \A g \in Hosts : cache'[g].node <= nodes'
    BY <1>2, <1>4 DEF Numbered
  <2>3. thread'[t].node <= nodes' /\ thread'[t].cur <= now'
    BY <1>2, <1>5 DEF Numbered
  <2>4. ASSUME NEW u \in Threads \ {t}
        PROVE  /\ thread'[u].node <= nodes' /\ thread'[u].cur <= now'
               /\ thread'[u].pc # "idle" => thread'[u].host \in Hosts
               /\ thread'[u].pc = "idle" => thread'[u].host = "none" /\ since'[u] = {}
               /\ Holds(u)' => thread'[u].node > 0
    <3>1. thread'[u] = thread[u] /\ nodes' = nodes /\ now' = now
      BY <1>2
    <3>2. ASSUME thread[u].pc = "idle" PROVE thread[u].host = "none" /\ since'[u] = {}
      <4>1. thread[u].host = "none" /\ since[u] = {}
        BY <3>2 DEF Numbered
      <4>2. thread[u].host # h
        BY <1>1, <4>1
      <4> QED BY <1>3, <4>1, <4>2
    <3> QED BY <3>1, <3>2 DEF Numbered, Holds
  <2> QED BY <1>1, <1>5, <2>1, <2>2, <2>3, <2>4 DEF Numbered, Holds
<1>7. UndisturbedOf(t)'
  <2> SUFFICES ASSUME since[t] = {}
               PROVE  /\ Live(t)' /\ thread[t].at \in DOMAIN cache'[h].ports
                      /\ cache'[h].ports[thread[t].at] = thread[t].port
    BY <1>3, <1>5 DEF UndisturbedOf
  <2>1. Live(t) /\ thread[t].at \in DOMAIN cache[h].ports
    BY DEF UndisturbedOf, WritePort, Holds
  <2>2. cache'[h].node = thread'[t].node /\ cache'[h].moves = thread'[t].moves
    BY <1>1, <1>4, <1>5, <2>1 DEF Live
  <2>3. cache'[h].ports = [cache[h].ports EXCEPT ![thread[t].at] = thread[t].port]
    BY <1>4, <2>1
  <2>4. /\ thread[t].at \in DOMAIN cache'[h].ports
        /\ cache'[h].ports[thread[t].at] = thread[t].port
    BY <2>1, <2>3
  <2> QED BY <1>5, <2>2, <2>4 DEF Live
<1>8. FreshOf(t)'
  <2>1. Holds(t)
    BY DEF WritePort, Holds
  <2>2. Alive(t)' => Alive(t)
    BY <1>1, <1>4, <1>5 DEF Alive
  <2>3. cache'[thread'[t].host].time = cache[thread[t].host].time
    BY <1>1, <1>4, <1>5
  <2> QED BY <1>2, <1>3, <2>1, <2>2, <2>3 DEF FreshOf
<1>9. ASSUME NEW u \in Threads \ {t}, Holds(u) PROVE Spares(u)
  <2>1. thread[u].host \in Hosts
    BY <1>9 DEF Numbered, Holds
  <2> QED BY <1>2, <1>3, <1>4, <2>1 DEF Spares
<1> QED BY <1>2, <1>6, <1>7, <1>8, <1>9, SparedThread

(* Steps that leave the cache alone.                                       *)
LEMMA ThreadOnly ==
    ASSUME IInv, NEW t \in Threads, UNCHANGED <<cache, nodes, now>>,
           \A u \in Threads \ {t} : thread'[u] = thread[u] /\ since'[u] = since[u],
           thread'[t].pc \notin {"write", "copy"},
           thread'[t].node <= nodes, thread'[t].cur <= now,
           thread'[t].pc # "idle" => thread'[t].host \in Hosts,
           thread'[t].pc = "idle" => thread'[t].host = "none" /\ since'[t] = {}
    PROVE  Numbered' /\ \A u \in Threads : UndisturbedOf(u)' /\ FreshOf(u)'
<1> USE DEF IInv
<1>1. Numbered'
  BY DEF Numbered, Holds
<1>2. UndisturbedOf(t)' /\ FreshOf(t)'
  BY HoldsNothing
<1>3. ASSUME NEW u \in Threads \ {t}, Holds(u) PROVE Spares(u)
  BY DEF Spares
<1> QED BY <1>1, <1>2, <1>3, SparedThread

LEMMA LookupSteps ==
    ASSUME IInv, NEW t \in Threads,
           \/ \E h \in Hosts, p \in Ports : Miss(t, h, p)
           \/ Copy(t) \/ Resolve(t) \/ ResolveFails(t)
    PROVE  Numbered' /\ \A u \in Threads : UndisturbedOf(u)' /\ FreshOf(u)'
<1>1. nodes \in Nat /\ now \in Nat /\ thread[t].node <= nodes /\ thread[t].cur <= now
  BY DEF IInv, TypeOK, Numbered
<1>2. ASSUME NEW h \in Hosts, NEW p \in Ports, Miss(t, h, p)
      PROVE  Numbered' /\ \A u \in Threads : UndisturbedOf(u)' /\ FreshOf(u)'
  <2>1. thread'[t] = [Idle EXCEPT !.pc = "resolve", !.host = h, !.port = p]
    BY <1>2 DEF Miss, IInv, TypeOK
  <2>2. /\ thread'[t].pc = "resolve" /\ thread'[t].host = h
        /\ thread'[t].node = 0 /\ thread'[t].cur = 0
    BY <2>1 DEF Idle
  <2>3. \A u \in Threads \ {t} : thread'[u] = thread[u] /\ since'[u] = since[u]
    BY <1>2 DEF Miss, IInv, TypeOK
  <2>4. UNCHANGED <<cache, nodes, now>>
    BY <1>2 DEF Miss
  <2> QED BY <1>1, <2>2, <2>3, <2>4, ThreadOnly
<1>3. ASSUME Copy(t) \/ ResolveFails(t)
      PROVE  Numbered' /\ \A u \in Threads : UndisturbedOf(u)' /\ FreshOf(u)'
  <2>1. thread'[t] = Idle /\ since'[t] = {} /\ UNCHANGED <<cache, nodes, now>>
    BY <1>3 DEF Copy, ResolveFails, Returns, IInv, TypeOK
  <2>2. \A u \in Threads \ {t} : thread'[u] = thread[u] /\ since'[u] = since[u]
    BY <1>3 DEF Copy, ResolveFails, Returns, IInv, TypeOK
  <2>3. /\ Idle.pc = "idle" /\ Idle.host = "none" /\ Idle.node = 0 /\ Idle.cur = 0
    BY DEF Idle
  <2> QED BY <1>1, <2>1, <2>2, <2>3, ThreadOnly
<1>4. ASSUME Resolve(t)
      PROVE  Numbered' /\ \A u \in Threads : UndisturbedOf(u)' /\ FreshOf(u)'
  <2>1. /\ thread'[t].pc = "insert" /\ thread'[t].host = thread[t].host
        /\ thread'[t].node = thread[t].node /\ thread'[t].cur = now
        /\ \A u \in Threads \ {t} : thread'[u] = thread[u]
    BY <1>4 DEF Resolve, IInv, TypeOK
  <2>2. thread[t].host \in Hosts
    BY <1>4 DEF Resolve, IInv, Numbered
  <2> QED BY <1>1, <1>4, <2>1, <2>2, ThreadOnly DEF Resolve
<1> QED BY <1>2, <1>3, <1>4

(* Steps of t that leave it without a pointer: what is left to show.       *)
LEMMA Others ==
    ASSUME IInv, NEW t \in Threads,
           \A u \in Threads \ {t} : thread'[u] = thread[u] /\ (Holds(u) => Spares(u)),
           \A u \in Threads \ {t} : thread[u].pc = "idle" => since'[u] = {},
           \A g \in Hosts : cache'[g].node <= nodes',
           nodes' \in Nat, nodes <= nodes', now' = now,
           thread'[t].pc \notin {"write", "copy"},
           thread'[t].node <= nodes', thread'[t].cur <= now,
           thread'[t].pc # "idle" => thread'[t].host \in Hosts,
           thread'[t].pc = "idle" => thread'[t].host = "none" /\ since'[t] = {}
    PROVE  Numbered' /\ \A u \in Threads : UndisturbedOf(u)' /\ FreshOf(u)'
<1> USE DEF IInv
<1>1. \A u \in Threads : thread[u].node \in Nat /\ nodes \in Nat
  BY DEF TypeOK
<1>2. \A u \in Threads \ {t} : thread[u].node <= nodes'
  BY <1>1 DEF Numbered
<1>3. \A u \in Threads \ {t} :
          /\ thread'[u].node <= nodes' /\ thread'[u].cur <= now'
          /\ thread'[u].pc # "idle" => thread'[u].host \in Hosts
          /\ thread'[u].pc = "idle" => thread'[u].host = "none" /\ since'[u] = {}
          /\ Holds(u)' => thread'[u].node > 0
  BY <1>2 DEF Numbered, Holds
<1>4. Numbered'
  BY <1>3 DEF Numbered, Holds
<1>5. UndisturbedOf(t)' /\ FreshOf(t)'
  BY HoldsNothing
<1> QED BY <1>4, <1>5, SparedThread

LEMMA InsertStep ==
    ASSUME IInv, NEW t \in Threads, Insert(t)
    PROVE  Numbered' /\ \A u \in Threads : UndisturbedOf(u)' /\ FreshOf(u)'
<1> USE CacheAssumption DEF IInv
<1> DEFINE h == thread[t].host
<1>1. /\ h \in Hosts /\ cache[h] \in Entries /\ thread[t] \in ThreadStates
      /\ nodes \in Nat /\ now \in Nat /\ now' = now
  BY DEF Insert, Numbered, TypeOK, Entries, ThreadStates, Steps
<1>2. \A g \in Hosts : cache[g].node \in Nat /\ cache[g].node <= nodes
  BY DEF Numbered, TypeOK
<1>3. CASE Present(h)
  <2>1. cache' = [cache EXCEPT ![h] = [cache[h] EXCEPT !.time = thread[t].cur]]
    BY <1>3, <1>1 DEF Insert, TypeOK
  <2>2. /\ cache'[h] = [cache[h] EXCEPT !.time = thread[t].cur]
        /\ \A g \in Hosts \ {h} : cache'[g] = cache[g]
    BY <1>1, <2>1 DEF TypeOK
  <2>3. thread' = [thread EXCEPT ![t] =
                       [thread[t] EXCEPT !.pc = "append", !.node = cache[h].node]]
    BY <1>3 DEF Insert, TypeOK
  <2>4. /\ thread'[t] = [thread[t] EXCEPT !.pc = "append", !.node = cache[h].node]
        /\ \A u \in Threads \ {t} : thread'[u] = thread[u]
    BY <2>3 DEF TypeOK
  <2>5. nodes' = nodes /\ Disturbs(t, h, {"timed"})
    BY <1>3 DEF Insert
  <2>6. \A u \in Threads \ {t} :
            since'[u] = IF thread[u].host = h THEN since[u] \cup {"timed"} ELSE since[u]
    BY <2>5, Disturbed
  <2> HIDE DEF h
  <2>7. /\ cache'[h].node = cache[h].node /\ cache'[h].moves = cache[h].moves
        /\ cache'[h].ports = cache[h].ports
    BY <1>1, <2>2 DEF Entries
  <2>8. /\ thread'[t].pc = "append" /\ thread'[t].host = thread[t].host
        /\ thread'[t].node = cache[h].node /\ thread'[t].cur = thread[t].cur
    BY <1>1, <2>4 DEF ThreadStates
  <2>9. ASSUME NEW u \in Threads \ {t}, Holds(u) PROVE Spares(u)
    <3>1. thread[u].host \in Hosts
      BY <2>9 DEF Numbered, Holds
    <3>2. CASE thread[u].host = h
      BY <1>1, <2>4, <2>6, <2>7, <3>2 DEF Spares
    <3>3. CASE thread[u].host # h
      BY <1>1, <2>2, <2>4, <2>6, <3>1, <3>3 DEF Spares
    <3> QED BY <3>2, <3>3
  <2>10. \A u \in Threads \ {t} : thread[u].pc = "idle" => since'[u] = {}
    BY <1>1, <2>6 DEF Numbered
  <2>11. \A g \in Hosts : cache'[g].node <= nodes'
    BY <1>2, <2>2, <2>5, <2>7
  <2>12. thread'[t].node <= nodes' /\ thread'[t].cur <= now
    BY <1>1, <1>2, <2>5, <2>8 DEF Numbered
  <2>13. thread'[t].host \in Hosts
    BY <1>1, <2>8 DEF h
  <2>14. /\ thread'[t].pc \notin {"write", "copy"} /\ thread'[t].pc # "idle"
         /\ nodes' \in Nat /\ nodes <= nodes'
    BY <1>1, <2>5, <2>8
  <2>15. \A u \in Threads \ {t} : thread'[u] = thread[u] /\ (Holds(u) => Spares(u))
    BY <2>4, <2>9
  <2> QED BY <1>1, <2>10, <2>11, <2>12, <2>13, <2>14, <2>15, Others
<1>4. CASE ~Present(h)
  <2>1. cache' = [cache EXCEPT ![h] = Entry(nodes + 1, thread[t].cur)]
    BY <1>4 DEF Insert
  <2>2. /\ cache'[h] = Entry(nodes + 1, thread[t].cur)
        /\ \A g \in Hosts \ {h} : cache'[g] = cache[g]
    BY <1>1, <2>1 DEF TypeOK
  <2>3. thread' = [thread EXCEPT ![t] = [thread[t] EXCEPT !.pc = "append", !.node = nodes + 1]]
    BY <1>4 DEF Insert, TypeOK
  <2>4. /\ thread'[t] = [thread[t] EXCEPT !.pc = "append", !.node = nodes + 1]
        /\ \A u \in Threads \ {t} : thread'[u] = thread[u]
    BY <2>3 DEF TypeOK
  <2>5. nodes' = nodes + 1 /\ since' = since /\ cache[h].node = 0
    BY <1>4 DEF Insert, Present
  <2> HIDE DEF h
  <2>6. cache'[h].node = nodes + 1
    BY <2>2 DEF Entry
  <2>7. /\ thread'[t].pc = "append" /\ thread'[t].host = thread[t].host
        /\ thread'[t].node = nodes + 1 /\ thread'[t].cur = thread[t].cur
    BY <1>1, <2>4 DEF ThreadStates
  <2>8. ASSUME NEW u \in Threads \ {t}, Holds(u) PROVE Spares(u)
    <3>1. /\ thread[u].host \in Hosts /\ thread[u].node > 0
          /\ thread[u].node \in Nat /\ thread[u].node <= nodes
      BY <2>8 DEF Numbered, Holds, TypeOK
    <3>2. CASE thread[u].host = h
      <4>1. since[u] # {}
        BY <2>5, <2>8, <3>1, <3>2 DEF UndisturbedOf, Live
      <4>2. cache'[h].node # thread[u].node
        BY <1>1, <2>6, <3>1
      <4> QED BY <2>4, <2>5, <3>2, <4>1, <4>2 DEF Spares
    <3>3. CASE thread[u].host # h
      BY <1>1, <2>2, <2>4, <2>5, <3>1, <3>3 DEF Spares
    <3> QED BY <3>2, <3>3
  <2>9. \A u \in Threads \ {t} : thread[u].pc = "idle" => since'[u] = {}
    BY <2>5 DEF Numbered
  <2>10. \A g \in Hosts : cache'[g].node <= nodes'
    <3>1. \A g \in Hosts \ {h} : cache'[g].node <= nodes + 1
      BY <1>1, <1>2, <2>2
    <3> QED BY <1>1, <2>5, <2>6, <3>1
  <2>11. thread'[t].cur <= now
    BY <2>7 DEF Numbered
  <2>12. thread'[t].host \in Hosts
    BY <1>1, <2>7 DEF h
  <2>13. /\ thread'[t].pc \notin {"write", "copy"} /\ thread'[t].pc # "idle"
         /\ nodes' \in Nat /\ nodes <= nodes' /\ thread'[t].node <= nodes'
    BY <1>1, <2>5, <2>7
  <2>14. \A u \in Threads \ {t} : thread'[u] = thread[u] /\ (Holds(u) => Spares(u))
    BY <2>4, <2>8
  <2> QED BY <1>1, <2>9, <2>10, <2>11, <2>12, <2>13, <2>14, Others
<1> QED BY <1>3, <1>4

LEMMA AppendStep ==
    ASSUME IInv, NEW t \in Threads, AppendAddress(t)
    PROVE  Numbered' /\ \A u \in Threads : UndisturbedOf(u)' /\ FreshOf(u)'
<1> USE CacheAssumption DEF IInv
<1> DEFINE h == thread[t].host
           moves == Alive(t) /\ Full(Len(cache[h].ports))
<1>1. /\ h \in Hosts /\ cache[h] \in Entries /\ thread[t] \in ThreadStates
      /\ nodes \in Nat /\ now \in Nat /\ now' = now /\ nodes' = nodes
  BY DEF AppendAddress, Numbered, TypeOK, Entries, ThreadStates, Steps
<1>2. \A g \in Hosts : cache[g].node \in Nat /\ cache[g].node <= nodes
  BY DEF Numbered, TypeOK
<1>3. thread' = [thread EXCEPT ![t].left = @ - 1]
  BY DEF AppendAddress
<1>4. /\ thread'[t] = [thread[t] EXCEPT !.left = thread[t].left - 1]
      /\ \A u \in Threads \ {t} : thread'[u] = thread[u]
  BY <1>3 DEF TypeOK
<1>5. /\ thread'[t].pc = "append" /\ thread'[t].host = h
      /\ thread'[t].node = thread[t].node /\ thread'[t].cur = thread[t].cur
  BY <1>1, <1>4 DEF ThreadStates, AppendAddress
<1>6. \A u \in Threads \ {t} :
          since'[u] = IF thread[u].host = h
                      THEN since[u] \cup (IF moves THEN {"changed"} ELSE {}) ELSE since[u]
  <2>1. Disturbs(t, h, IF moves THEN {"changed"} ELSE {})
    BY DEF AppendAddress
  <2> HIDE DEF h, moves
  <2> QED BY <2>1, Disturbed
<1>7. /\ cache' = IF Alive(t) THEN [cache EXCEPT ![h] = Appended(cache[h])] ELSE cache
      /\ cache \in [Hosts -> Entries]
  BY DEF AppendAddress, TypeOK, Entries
<1>8. /\ \A g \in Hosts \ {h} : cache'[g] = cache[g]
      /\ cache'[h] = IF Alive(t) THEN Appended(cache[h]) ELSE cache[h]
  BY <1>1, <1>7
<1>9. /\ cache'[h].node = cache[h].node /\ cache'[h].time = cache[h].time
      /\ ~moves => cache'[h].moves = cache[h].moves
  BY <1>1, <1>8, AppendedEntry
<1>10. ASSUME NEW i \in DOMAIN cache[h].ports
       PROVE  i \in DOMAIN cache'[h].ports /\ cache'[h].ports[i] = cache[h].ports[i]
  <2>1. CASE Alive(t)
    <3>1. cache'[h].ports = Append(cache[h].ports, NoPort)
      BY <1>1, <1>8, <2>1, AppendedEntry
    <3>2. cache[h].ports \in Seq(Nat) /\ NoPort \in Nat
      BY <1>1 DEF Entries, NoPort
    <3> HIDE DEF h
    <3> QED BY <1>10, <3>1, <3>2, AppendProperties
  <2>2. CASE ~Alive(t)
    BY <1>8, <2>2
  <2> QED BY <2>1, <2>2
<1> HIDE DEF h, moves
<1>11. ASSUME NEW u \in Threads \ {t}, Holds(u) PROVE Spares(u)
  <2>1. thread[u].host \in Hosts
    BY <1>11 DEF Numbered, Holds
  <2>2. CASE thread[u].host = h
    BY <1>1, <1>4, <1>6, <1>9, <1>10, <2>2 DEF Spares
  <2>3. CASE thread[u].host # h
    BY <1>1, <1>4, <1>6, <1>8, <2>1, <2>3 DEF Spares
  <2> QED BY <2>2, <2>3
<1>12. \A u \in Threads \ {t} : thread[u].pc = "idle" => since'[u] = {}
  BY <1>1, <1>6 DEF Numbered
<1>13. \A g \in Hosts : cache'[g].node <= nodes'
  BY <1>1, <1>2, <1>8, <1>9
<1>14. thread'[t].node <= nodes' /\ thread'[t].cur <= now
  BY <1>1, <1>5 DEF Numbered
<1>15. /\ thread'[t].pc \notin {"write", "copy"} /\ thread'[t].pc # "idle"
       /\ thread'[t].host \in Hosts /\ nodes' \in Nat /\ nodes <= nodes'
  BY <1>1, <1>5
<1>16. \A u \in Threads \ {t} : thread'[u] = thread[u] /\ (Holds(u) => Spares(u))
  BY <1>4, <1>11
<1> QED BY <1>1, <1>12, <1>13, <1>14, <1>15, <1>16, Others

(* Hosts are erased: by a purge of t, or by the application.               *)
ErasesTo(hosts, u) ==
    since'[u] = IF thread[u].host \in hosts THEN since[u] \cup {"changed"} ELSE since[u]

LEMMA Erased ==
    ASSUME IInv, NEW u \in Threads, Holds(u), NEW hosts \in SUBSET Hosts, thread'[u] = thread[u],
           cache' = [h \in Hosts |-> IF h \in hosts THEN Absent ELSE cache[h]],
           ErasesTo(hosts, u), now' = now
    PROVE  Spares(u)
<1>1. thread[u].host \in Hosts /\ thread[u].node > 0
  BY DEF IInv, Numbered, Holds
<1>2. CASE thread[u].host \in hosts
  <2>1. cache'[thread[u].host].node = 0
    BY <1>1, <1>2 DEF Absent, Entry
  <2> QED BY <1>1, <1>2, <2>1 DEF Spares, ErasesTo
<1>3. CASE thread[u].host \notin hosts
  BY <1>1, <1>3 DEF Spares, ErasesTo
<1> QED BY <1>2, <1>3

LEMMA PurgeStep ==
    ASSUME IInv, NEW t \in Threads, Purge(t)
    PROVE  Numbered' /\ \A u \in Threads : UndisturbedOf(u)' /\ FreshOf(u)'
<1> USE CacheAssumption DEF IInv
<1> DEFINE dropped == {h \in Hosts : PurgeDue(t) /\ Present(h)
                                     /\ Old(thread[t].cur, cache[h].time)}
<1>1. /\ cache' = [h \in Hosts |-> IF h \in dropped THEN Absent ELSE cache[h]]
      /\ since' = [u \in Threads |->
                      IF u = t THEN {}
                      ELSE IF thread[u].host \in dropped THEN since[u] \cup {"changed"}
                      ELSE since[u]]
      /\ nodes' = nodes /\ now' = now
  BY DEF Purge
<1>2. thread'[t] = Idle /\ \A u \in Threads \ {t} : thread'[u] = thread[u]
  BY DEF Purge, Returns, TypeOK
<1>3. Idle.pc = "idle" /\ Idle.host = "none" /\ Idle.node = 0 /\ Idle.cur = 0
  BY DEF Idle
<1>4. nodes \in Nat /\ now \in Nat /\ dropped \in SUBSET Hosts
  BY DEF TypeOK
<1> HIDE DEF dropped
<1>5. ASSUME NEW u \in Threads \ {t}, Holds(u) PROVE Spares(u)
  BY <1>1, <1>2, <1>4, <1>5, Erased DEF ErasesTo
<1>6. \A u \in Threads \ {t} : thread[u].pc = "idle" => since'[u] = {}
  BY <1>1, <1>4 DEF Numbered
<1>7. \A g \in Hosts : cache'[g].node <= nodes'
  BY <1>1, <1>4 DEF Numbered, Absent, Entry
<1> QED BY <1>1, <1>2, <1>3, <1>4, <1>5, <1>6, <1>7, Others

LEMMA EraseStep ==
    ASSUME IInv, NEW hosts \in SUBSET Hosts, Erase(hosts)
    PROVE  Numbered' /\ \A u \in Threads : UndisturbedOf(u)' /\ FreshOf(u)'
<1> USE CacheAssumption DEF IInv
<1>1. nodes \in Nat
  BY DEF TypeOK
<1>2. ASSUME NEW u \in Threads, Holds(u) PROVE Spares(u)
  BY <1>2, Erased DEF Erase, ErasesTo
<1>3. \A u \in Threads : thread[u].pc = "idle" => since'[u] = {}
  BY DEF Erase, Numbered
<1>4. \A g \in Hosts : cache'[g].node <= nodes'
  BY <1>1 DEF Erase, Numbered, Absent, Entry
<1>5. Numbered'
  BY <1>3, <1>4 DEF Erase, Numbered, Holds
<1> QED BY <1>2, <1>5, SparedThread DEF Erase

LEMMA SecondStep ==
    ASSUME IInv, Second
    PROVE  Numbered' /\ \A u \in Threads : UndisturbedOf(u)' /\ FreshOf(u)'
<1> USE DEF IInv
<1>1. now \in Nat /\ now' = now + 1 /\ UNCHANGED <<cache, nodes, thread, since>>
  BY DEF Second, TypeOK
<1>2. \A t \in Threads : thread[t].cur \in Nat
  BY DEF TypeOK
<1>3. Numbered'
  BY <1>1, <1>2 DEF Numbered, Holds
<1>4. ASSUME NEW u \in Threads PROVE UndisturbedOf(u)'
  BY <1>1 DEF UndisturbedOf, Holds, Live
<1>5. ASSUME NEW u \in Threads PROVE FreshOf(u)'
  <2>1. Holds(u) /\ Alive(u) => (now + 1) - cache[thread[u].host].time < StaleAfter
    BY DEF Second
  <2>2. (Holds(u)' <=> Holds(u)) /\ (Alive(u)' <=> Alive(u))
    BY <1>1 DEF Holds, Alive
  <2>3. Holds(u) /\ Alive(u) => now' - cache'[thread'[u].host].time < StaleAfter
    BY <1>1, <2>1
  <2> QED BY <1>1, <2>2, <2>3 DEF FreshOf
<1> QED BY <1>3, <1>4, <1>5

LEMMA Step == IInv /\ [Next]_vars => IInv'
<1> SUFFICES ASSUME IInv, [Next]_vars PROVE IInv'
  OBVIOUS
<1>1. TypeOK'
  BY TypeStep DEF IInv
<1>2. Numbered' /\ \A u \in Threads : UndisturbedOf(u)' /\ FreshOf(u)'
  <2>1. ASSUME NEW t \in Threads, ThreadNext(t)
        PROVE  Numbered' /\ \A u \in Threads : UndisturbedOf(u)' /\ FreshOf(u)'
    BY <1>1, <2>1, HitStep, WritePortStep, LookupSteps, InsertStep, AppendStep, PurgeStep
    DEF ThreadNext
  <2>2. ASSUME NEW h \in Hosts, ClearCache(h)
        PROVE  Numbered' /\ \A u \in Threads : UndisturbedOf(u)' /\ FreshOf(u)'
    BY <2>2, EraseStep DEF ClearCache
  <2>3. CASE ClearAll
    BY <2>3, EraseStep DEF ClearAll
  <2>4. CASE Second
    BY <2>4, SecondStep
  <2>5. CASE UNCHANGED vars
    BY <2>5 DEF vars, IInv, Numbered, UndisturbedOf, FreshOf, Holds, Live, Alive
  <2> QED BY <2>1, <2>2, <2>3, <2>4, <2>5 DEF Next
<1> QED BY <1>1, <1>2 DEF IInv

(* The invariant holds throughout: threads, entries and the notes of what  *)
(* others did keep their types, a pointer that nobody disturbed points to  *)
(* the address it was taken for, and an entry in use is fresh.             *)
THEOREM InvariantHolds == Spec => []IInv
<1>1. Init => IInv
  BY InitType
<1>2. IInv /\ [Next]_vars => IInv'
  BY Step
<1> QED BY <1>1, <1>2, PTL DEF Spec

-----------------------------------------------------------------------------
(* The properties.                                                         *)

(* net_getsocketAddr returns the port it was asked for (Misc.cpp:157-174), *)
(* with any number of threads, hosts and addresses, unless another thread  *)
(* wrote into that host's entry between the lookup and the copy.           *)
THEOREM PortIsAsked == Spec => []PortAsked
<1>1. IInv => PortAsked
  BY DEF IInv, UndisturbedOf, PortAsked, Holds, Read
<1> QED BY <1>1, InvariantHolds, PTL

(* Only a purge ends the call of a thread that is appending.               *)
LEMMA OnlyPurgeEnds ==
    ASSUME IInv, Next, NEW u \in Threads, thread[u].pc = "append", thread'[u].pc = "idle"
    PROVE  Purge(u)
<1>1. ASSUME NEW t \in Threads, ThreadNext(t), t # u PROVE FALSE
  <2>1. thread'[u] = thread[u]
    <3>1. ASSUME NEW h \in Hosts, NEW p \in Ports, Hit(t, h, p) \/ Miss(t, h, p)
          PROVE  thread'[u] = thread[u]
      BY <1>1, <3>1 DEF Hit, Miss, IInv, TypeOK
    <3>2. CASE WritePort(t) \/ Copy(t) \/ Resolve(t) \/ ResolveFails(t)
      BY <1>1, <3>2 DEF WritePort, Copy, Resolve, ResolveFails, Returns, IInv, TypeOK
    <3>3. CASE Insert(t) \/ AppendAddress(t) \/ Purge(t)
      BY <1>1, <3>3 DEF Insert, AppendAddress, Purge, Returns, IInv, TypeOK
    <3> QED BY <1>1, <3>1, <3>2, <3>3 DEF ThreadNext
  <2> QED BY <2>1
<1>2. ASSUME ThreadNext(u), ~Purge(u) PROVE FALSE
  <2>1. AppendAddress(u)
    BY <1>2 DEF ThreadNext, Hit, Miss, Starts, WritePort, Copy, Resolve, ResolveFails, Insert
  <2>2. thread'[u] = [thread[u] EXCEPT !.left = thread[u].left - 1]
    BY <2>1 DEF AppendAddress, IInv, TypeOK
  <2>3. thread[u] \in ThreadStates
    BY DEF IInv, TypeOK, ThreadStates, Steps
  <2> QED BY <2>2, <2>3 DEF ThreadStates
<1>3. thread' # thread
  OBVIOUS
<1> QED BY <1>1, <1>2, <1>3 DEF Next, ClearCache, ClearAll, Erase, Second

(* A purge (DNSCache.cpp:75-92) takes an entry from under a thread that    *)
(* uses it only with a clock older than that use, or after another add()   *)
(* set the entry's time back, for any number of threads and hosts and any  *)
(* two periods.                                                            *)
THEOREM PurgeSparesTheUsed == Spec => PurgeSparesUsed
<1> DEFINE Spared ==
      \A t, u \in Threads :
          /\ thread[u].pc = "append" /\ thread'[u].pc = "idle"
          /\ Holds(t) /\ Alive(t) /\ cache'[thread[t].host] = Absent
          => "timed" \in since[t] \/ thread[u].cur < cache[thread[t].host].time
<1>1. IInv /\ [Next]_vars => Spared \/ UNCHANGED vars
  <2> SUFFICES ASSUME IInv, Next, NEW t \in Threads, NEW u \in Threads,
                      thread[u].pc = "append", thread'[u].pc = "idle",
                      Holds(t), Alive(t), cache'[thread[t].host] = Absent,
                      "timed" \notin since[t]
               PROVE  thread[u].cur < cache[thread[t].host].time
    OBVIOUS
  <2> DEFINE h == thread[t].host
  <2>1. Purge(u)
    BY OnlyPurgeEnds
  <2>2. h \in Hosts /\ cache[h].node # 0
    BY DEF IInv, Numbered, Holds, Alive
  <2>3. cache[h] # Absent
    BY <2>2 DEF Absent, Entry
  <2>4. Old(thread[u].cur, cache[h].time)
    BY <2>1, <2>2, <2>3 DEF Purge
  <2>5. now - cache[h].time < StaleAfter
    BY DEF IInv, FreshOf
  <2>6. thread[u].cur <= now
    BY DEF IInv, Numbered
  <2>7. /\ thread[u].cur \in Nat /\ now \in Nat /\ cache[h].time \in Nat
        /\ StaleAfter \in Nat
    BY <2>2, CacheAssumption DEF IInv, TypeOK
  <2> HIDE DEF h
  <2>8. thread[u].cur < cache[h].time
    BY <2>4, <2>5, <2>6, <2>7 DEF Old
  <2> QED BY <2>8 DEF h
<1> QED BY <1>1, InvariantHolds, PTL DEF Spec, PurgeSparesUsed
=============================================================================
