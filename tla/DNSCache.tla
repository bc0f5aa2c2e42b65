------------------------------- MODULE DNSCache -------------------------------
(***************************************************************************)
(* The cache of resolved addresses (base/DNSCache.cpp) and its one user,   *)
(* net_getsocketAddr (base/Misc.cpp:154-238), which the loop threads of    *)
(* all clients and peers call at the same time.                            *)
(*                                                                         *)
(* The cache is locked for each access but not for a use: rand_get gives   *)
(* away a pointer into the vector of a host, through which the caller      *)
(* writes the port it wants and then copies the address; add keeps an      *)
(* iterator from one locked section to the next.                           *)
(*                                                                         *)
(* An address is its port, for that is all that is ever written into it.   *)
(* The cache is enabled (setEnable(true)): it is the application's choice. *)
(***************************************************************************)
EXTENDS Integers, Sequences

CONSTANTS Threads,      \* the loop threads
          Hosts,        \* the names they resolve
          Ports,        \* the ports they ask for
          Addresses,    \* how many addresses getaddrinfo finds for a host
          Calls,        \* what the application calls: "clearCache", "clearAll"
          ClearEvery,   \* the 60 s between two purges
          StaleAfter,   \* the 600 s after which a purge drops a host
          MaxNodes,     \* hosts ever inserted (a bound)
          MaxTime       \* the last second (a bound)

NoPort == 0             \* getaddrinfo was given no service
Garbage == -1           \* read from memory that was freed

ASSUME CacheAssumption ==
    /\ "none" \notin Hosts
    /\ Ports \subseteq Nat \ {0}
    /\ Addresses \in [Hosts -> Nat \ {0}]
    /\ Calls \subseteq {"clearCache", "clearAll"}
    /\ ClearEvery \in Nat /\ StaleAfter \in Nat \ {0}
    /\ MaxNodes \in Nat /\ MaxTime \in Nat

VARIABLES
    cache,      \* m_cacheMap: by host, its node, how often its vector moved,
                \* the ports in the vector, lastTime
    nodes,      \* nodes of the map made so far
    lastClear,  \* m_lastClearTime
    thread,     \* the calls of net_getsocketAddr under way
    now,        \* time(NULL)
    since       \* what others did to the host of a thread since it looked it up

vars == <<cache, nodes, lastClear, thread, now, since>>

Entry(node, time) == [node |-> node, moves |-> 0, ports |-> <<>>, time |-> time]
Absent == Entry(0, 0)
Present(h) == cache[h].node # 0

\* "pc" is the step that comes next; "node", "moves" and "at" are the pointer
\* (or, without "at", the iterator); "cur" is curtime, "left" the addresses
\* of ainfo not appended yet
Idle == [pc |-> "idle", host |-> "none", port |-> NoPort, node |-> 0, moves |-> 0,
         at |-> 0, cur |-> 0, left |-> 0]

\* the steps between getting a pointer and the last use of it
Holds(t) == thread[t].pc \in {"write", "copy"}

\* what the pointer points into is still there
Live(t) ==
    LET entry == cache[thread[t].host]
    IN entry.node = thread[t].node /\ entry.moves = thread[t].moves
Alive(t) == cache[thread[t].host].node = thread[t].node

\* the others that hold something of host h are disturbed
Disturbs(t, h, what) ==
    since' = [u \in Threads |-> IF u # t /\ thread[u].host = h
                                THEN since[u] \cup what ELSE since[u]]

Init ==
    /\ cache = [h \in Hosts |-> Absent]
    /\ nodes = 0
    /\ lastClear = 0
    /\ thread = [t \in Threads |-> Idle]
    /\ now = 0
    /\ since = [t \in Threads |-> {}]

\* the end of a call
Returns(t) == thread' = [thread EXCEPT ![t] = Idle]

-----------------------------------------------------------------------------
(* A hit                                                                   *)

Starts(t, h, p) == thread[t].pc = "idle"

\* (a faulty variant: the time that counts is that of the resolution)
NotRefreshed(entry) == entry
Refreshed(entry) == [entry EXCEPT !.time = now]
\* rand_get: some address of the host, and the host is fresh again
Hit(t, h, p) ==
    /\ Starts(t, h, p)
    /\ Present(h) /\ cache[h].ports # <<>>
    /\ \E i \in DOMAIN cache[h].ports :
        thread' = [thread EXCEPT ![t] = [Idle EXCEPT
                      !.pc = "write", !.host = h, !.port = p,
                      !.node = cache[h].node, !.moves = cache[h].moves, !.at = i]]
    /\ cache' = [cache EXCEPT ![h] = Refreshed(@)]
    /\ UNCHANGED <<nodes, lastClear, now, since>>

\* (a faulty variant: the port is written into an address that has none)
WritePortOnce(t) ==
    /\ thread[t].pc = "write"
    /\ cache' = IF Live(t) /\ cache[thread[t].host].ports[thread[t].at] = NoPort
                THEN [cache EXCEPT ![thread[t].host].ports[thread[t].at] = thread[t].port]
                ELSE cache
    /\ thread' = [thread EXCEPT ![t].pc = "copy"]
    /\ Disturbs(t, thread[t].host, {"changed"})
    /\ UNCHANGED <<nodes, lastClear, now>>
\* sin_port = htons(port), into the cache
WritePort(t) ==
    /\ thread[t].pc = "write"
    /\ cache' = IF Live(t)
                THEN [cache EXCEPT ![thread[t].host].ports[thread[t].at] = thread[t].port]
                ELSE cache
    /\ thread' = [thread EXCEPT ![t].pc = "copy"]
    /\ Disturbs(t, thread[t].host, {"changed"})
    /\ UNCHANGED <<nodes, lastClear, now>>

\* memcpy out of the cache: what it reads is what the call returns
Read(t) == IF Live(t) THEN cache[thread[t].host].ports[thread[t].at] ELSE Garbage
Copy(t) ==
    /\ thread[t].pc = "copy"
    /\ Returns(t)
    /\ since' = [since EXCEPT ![t] = {}]
    /\ UNCHANGED <<cache, nodes, lastClear, now>>

-----------------------------------------------------------------------------
(* A miss                                                                  *)

Miss(t, h, p) ==
    /\ Starts(t, h, p)
    /\ ~Present(h) \/ cache[h].ports = <<>>
    /\ thread' = [thread EXCEPT ![t] = [Idle EXCEPT !.pc = "resolve", !.host = h, !.port = p]]
    /\ UNCHANGED <<cache, nodes, lastClear, now, since>>

\* getaddrinfo, and the time add() begins at
ResolveFails(t) ==
    /\ thread[t].pc = "resolve"
    /\ Returns(t)
    /\ since' = [since EXCEPT ![t] = {}]
    /\ UNCHANGED <<cache, nodes, lastClear, now>>
Resolve(t) ==
    /\ thread[t].pc = "resolve"
    /\ thread' = [thread EXCEPT ![t] =
                  [@ EXCEPT !.pc = "insert", !.cur = now, !.left = Addresses[thread[t].host]]]
    /\ UNCHANGED <<cache, nodes, lastClear, now, since>>

\* the first locked section of add: the host is there now, and fresh
Insert(t) ==
    LET h == thread[t].host IN
    /\ thread[t].pc = "insert"
    /\ IF Present(h)
       THEN /\ cache' = [cache EXCEPT ![h].time = thread[t].cur]
            /\ thread' = [thread EXCEPT ![t] = [@ EXCEPT !.pc = "append", !.node = cache[h].node]]
            /\ Disturbs(t, h, {"timed"})
            /\ UNCHANGED nodes
       ELSE /\ nodes < MaxNodes
            /\ nodes' = nodes + 1
            /\ cache' = [cache EXCEPT ![h] = Entry(nodes + 1, thread[t].cur)]
            /\ thread' = [thread EXCEPT ![t] = [@ EXCEPT !.pc = "append", !.node = nodes + 1]]
            /\ UNCHANGED since
    /\ UNCHANGED <<lastClear, now>>

\* emplace_back moves the vector when it is full: what reserve(3) reserved
\* is lost with the copy that the map gets
Full(length) == length \in {0, 1, 2, 4, 8}
Appended(entry) ==
    [entry EXCEPT !.ports = Append(@, NoPort),
                  !.moves = IF Full(Len(entry.ports)) THEN @ + 1 ELSE @]
AppendAddress(t) ==
    LET h == thread[t].host
        moves == Alive(t) /\ Full(Len(cache[h].ports))
    IN
    /\ thread[t].pc = "append" /\ thread[t].left > 0
    /\ thread' = [thread EXCEPT ![t].left = @ - 1]
    /\ cache' = IF Alive(t)
                THEN [cache EXCEPT ![h] = Appended(@)] ELSE cache
    /\ Disturbs(t, h, IF moves THEN {"changed"} ELSE {})
    /\ UNCHANGED <<nodes, lastClear, now>>

\* the end of add, and of the call, which returns a copy of ainfo's address.
\* curtime - lastTime is unsigned: a host fresher than curtime is old
Old(cur, time) == cur < time \/ cur - time >= StaleAfter
PurgeDue(t) == thread[t].cur < lastClear \/ thread[t].cur - lastClear > ClearEvery
Purge(t) ==
    /\ thread[t].pc = "append" /\ thread[t].left = 0
    /\ LET dropped == {h \in Hosts : PurgeDue(t) /\ Present(h) /\ Old(thread[t].cur, cache[h].time)}
       IN /\ cache' = [h \in Hosts |-> IF h \in dropped THEN Absent ELSE cache[h]]
          /\ since' = [u \in Threads |->
                          IF u = t THEN {}
                          ELSE IF thread[u].host \in dropped THEN since[u] \cup {"changed"}
                          ELSE since[u]]
    /\ lastClear' = IF PurgeDue(t) THEN thread[t].cur ELSE lastClear
    /\ Returns(t)
    /\ UNCHANGED <<nodes, now>>

-----------------------------------------------------------------------------
(* The application, and the clock                                          *)

Erase(hosts) ==
    /\ cache' = [h \in Hosts |-> IF h \in hosts THEN Absent ELSE cache[h]]
    /\ since' = [u \in Threads |-> IF thread[u].host \in hosts
                                   THEN since[u] \cup {"changed"} ELSE since[u]]
    /\ UNCHANGED <<nodes, lastClear, thread, now>>
ClearCache(h) == "clearCache" \in Calls /\ Present(h) /\ Erase({h})
ClearAll == "clearAll" \in Calls /\ (\E h \in Hosts : Present(h)) /\ Erase(Hosts)

\* a thread does not hold a pointer for StaleAfter seconds
Second ==
    /\ now < MaxTime
    /\ \A t \in Threads : Holds(t) /\ Alive(t) =>
           (now + 1) - cache[thread[t].host].time < StaleAfter
    /\ now' = now + 1
    /\ UNCHANGED <<cache, nodes, lastClear, thread, since>>

ThreadNext(t) ==
    \/ \E h \in Hosts, p \in Ports : Hit(t, h, p) \/ Miss(t, h, p)
    \/ WritePort(t) \/ Copy(t)
    \/ Resolve(t) \/ ResolveFails(t) \/ Insert(t) \/ AppendAddress(t) \/ Purge(t)

Next ==
    \/ \E t \in Threads : ThreadNext(t)
    \/ \E h \in Hosts : ClearCache(h)
    \/ ClearAll
    \/ Second

Spec == Init /\ [][Next]_vars

-----------------------------------------------------------------------------
(* Properties                                                              *)

\* the type of the state
TypeOK ==
    /\ cache \in [Hosts -> [node : Nat, moves : Nat, ports : Seq(Nat), time : Nat]]
    /\ nodes \in Nat /\ lastClear \in Nat /\ now \in Nat
    /\ thread \in [Threads ->
           [pc : {"idle", "write", "copy", "resolve", "insert", "append"},
            host : Hosts \cup {"none"}, port : Nat, node : Nat, moves : Nat,
            at : Nat, cur : Nat, left : Nat]]
    /\ since \in [Threads -> SUBSET {"changed", "timed"}]

\* A call returns the port it was asked for, whatever other threads do with
\* other hosts, unless between its lookup and its copy another thread wrote a
\* port into the same host, added to it or erased it.
PortAsked ==
    \A t \in Threads :
        thread[t].pc = "copy" /\ since[t] = {} => Read(t) = thread[t].port

\* A purge takes an entry from under the thread that uses it only if it read
\* the clock before that thread looked the host up (DNSCache.cpp:30, 82), or
\* if another add() of that host set its time back (41): an entry in use is
\* fresh.
PurgeSparesUsed ==
    [][\A t, u \in Threads :
          /\ thread[u].pc = "append" /\ thread'[u].pc = "idle"
          /\ Holds(t) /\ Alive(t) /\ cache'[thread[t].host] = Absent
          => "timed" \in since[t] \/ thread[u].cur < cache[thread[t].host].time]_vars
=============================================================================
