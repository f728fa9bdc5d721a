---------------------------- MODULE ProxyServer ----------------------------
(***************************************************************************)
(* The SOCKS5/HTTP proxy of one line (proxy_server.py): the accept loop     *)
(* with its connection permits, a thread per client, and the DNS cache the  *)
(* threads share.  A client's host name is resolved through tun0; equal     *)
(* questions are asked once and the answer is handed to all who wait.       *)
(*                                                                          *)
(* A tunnel is what _dns_cache_scope reads of tun0: it may go down and come *)
(* back as it was, or be replaced by one that was never there before.  An   *)
(* address is represented by the tunnel it was resolved through.  A         *)
(* question is a record type asked of one server, in the order of the two   *)
(* loops of resolve_dns_over_tun0.  Each section under the cache's lock is  *)
(* one step, and so is every reading of the tunnel.  An entry may be found  *)
(* expired at any lookup; which entry is the least recent is left open.     *)
(* What a client sends is reduced to: refused, an address, or a host name.  *)
(***************************************************************************)
EXTENDS Naturals, FiniteSets

CONSTANTS
    Clients,        \* peers of the proxy, each with at most one connection
    Hosts,          \* host names they ask for
    Questions,      \* how many questions a name may take: 1..Questions
    Flights,        \* identities of the _DNSFlight objects
    MaxEntries,     \* DNS_CACHE_MAX_ENTRIES
    MaxConnections, \* LOCAL_PROXY_MAX_CONNECTIONS
    MaxMoves,       \* bound: tunnels that tun0 may be, one after the other
    MaxLost,        \* bound: threads that cannot be started
    None

ASSUME ProxyAssumption ==
    /\ IsFiniteSet(Clients) /\ IsFiniteSet(Hosts)
    /\ Questions \in Nat \ {0}
    /\ MaxEntries \in Nat \ {0}
    /\ MaxConnections \in Nat
    /\ MaxMoves \in Nat \ {0}
    /\ MaxLost \in Nat
    /\ None \notin Flights /\ None \notin Hosts

Nil     == 0 \* no tunnel, no address
Tunnels == 1..MaxMoves
Keys    == Hosts \X (1..Questions)

VARIABLES
    tunnel,   \* tun0: its identity, and whether it is up
    scope,    \* _DNSCache.scope
    entries,  \* _DNSCache.entries: the tunnel that each address came from
    inflight, \* _DNSCache.inflight
    flights,  \* event and address of each _DNSFlight
    permits,  \* proxy_connection_sem
    lost,     \* permits of threads that never ran
    job       \* the thread of each client and its local variables

cache == <<scope, entries, inflight, flights>>
vars  == <<tunnel, cache, permits, lost, job>>

Points == {"idle", "greet", "look", "forget", "cached", "ask", "drop", "bare", "begin",
           "query", "compare", "finish", "wait", "wake", "connect", "relay"}
Job    == [at : Points, host : Hosts \cup {None}, ask : 1..Questions, seen : {Nil} \cup Tunnels,
           flight : Flights \cup {None}, address : {Nil} \cup Tunnels, keep : BOOLEAN]
Idle   == [at |-> "idle", host |-> None, ask |-> 1, seen |-> Nil, flight |-> None,
           address |-> Nil, keep |-> FALSE]

\* What _dns_cache_scope returns.
Fingerprint == IF tunnel.up THEN tunnel.id ELSE Nil

Key(c) == <<job[c].host, job[c].ask>>

TypeOK ==
    /\ tunnel \in [id : Tunnels, up : BOOLEAN]
    /\ scope \in {Nil} \cup Tunnels
    /\ entries \in [Keys -> {Nil} \cup Tunnels]
    /\ inflight \in [Keys -> Flights \cup {None}]
    /\ flights \in [Flights -> [set : BOOLEAN, address : {Nil} \cup Tunnels]]
    /\ permits \in 0..MaxConnections
    /\ lost \in 0..MaxLost
    /\ job \in [Clients -> Job]
    /\ \A c \in Clients : job[c].at \notin {"idle", "greet", "connect", "relay"}
                              => job[c].host \in Hosts

----------------------------------------------------------------------------
(* The DNS cache.                                                           *)

\* Mutant of EntriesIn: a thread with another scope finds the entries of before.
EntriesStay(s) == entries

\* Mutant of InflightIn: the flights of another scope stay registered.
InflightStays(s) == inflight

\* _sync: what is left of the cache when a thread comes with scope s.
EntriesIn(s)  == IF scope = s THEN entries ELSE [k \in Keys |-> Nil]
InflightIn(s) == IF scope = s THEN inflight ELSE [k \in Keys |-> None]
Registered(f) == \E k \in Keys : inflight[k] = f
FlightsIn(s)  ==
    IF scope = s THEN flights
    ELSE [f \in Flights |-> IF Registered(f) THEN [flights[f] EXCEPT !.set = TRUE] ELSE flights[f]]

\* clear
Clear ==
    /\ scope' = Nil
    /\ entries' = EntriesIn(Nil)
    /\ inflight' = InflightIn(Nil)
    /\ flights' = FlightsIn(Nil)

\* A _DNSFlight object that nobody holds.
Unused == {f \in Flights : (\A c \in Clients : job[c].flight # f) /\ ~Registered(f)}

\* Mutant of Evicted: one entry more than the limit stays.
EvictedLate(e, k) ==
    LET held == {j \in Keys : e[j] # Nil}
    IN  {x \in SUBSET (held \ {k}) : Cardinality(held \ x) =
            IF Cardinality(held) > MaxEntries + 1 THEN MaxEntries + 1 ELSE Cardinality(held)}

\* Room for one more entry: the least recent ones leave, never the new one.
Evicted(e, k) ==
    LET held == {j \in Keys : e[j] # Nil}
    IN  {x \in SUBSET (held \ {k}) : Cardinality(held \ x) =
            IF Cardinality(held) > MaxEntries THEN MaxEntries ELSE Cardinality(held)}

\* What finish makes of the entries.
Stored(k, address, x) ==
    [j \in Keys |-> IF j \in x THEN Nil ELSE IF j = k THEN address ELSE entries[j]]

----------------------------------------------------------------------------
(* Connections.                                                             *)

At(c, p)     == job[c].at = p
Goes(c, new) == job' = [job EXCEPT ![c] = new]
To(c, p)     == [job[c] EXCEPT !.at = p]

\* resolve_dns_over_tun0 has its result: create_connection goes on with it.
Resolved(c, address) ==
    [Idle EXCEPT !.at = "connect", !.seen = job[c].seen, !.address = address]

\* Mutant of NextQuestion: one question too many.
NextQuestionOff(c) ==
    IF job[c].ask <= Questions
    THEN [Idle EXCEPT !.at = "ask", !.host = job[c].host, !.ask = job[c].ask + 1,
                      !.seen = job[c].seen]
    ELSE Resolved(c, Nil)

\* A question without an answer: the next one, or no address at all.
NextQuestion(c) ==
    IF job[c].ask < Questions
    THEN [Idle EXCEPT !.at = "ask", !.host = job[c].host, !.ask = job[c].ask + 1,
                      !.seen = job[c].seen]
    ELSE Resolved(c, Nil)

Answered(c, address) == IF address = Nil THEN NextQuestion(c) ELSE Resolved(c, address)

\* start_proxy_server: a peer is accepted and a thread started for it.  Without
\* a permit it is refused, which leaves nothing behind.
Accept(c) ==
    /\ At(c, "idle") /\ permits > 0
    /\ permits' = permits - 1
    /\ Goes(c, To(c, "greet"))
    /\ UNCHANGED <<tunnel, cache, lost>>

\* Thread.start raises after the permit was taken: the loop goes on without it.
StartFails(c) ==
    /\ At(c, "idle") /\ permits > 0 /\ lost < MaxLost
    /\ permits' = permits - 1
    /\ lost' = lost + 1
    /\ UNCHANGED <<tunnel, cache, job>>

\* socks5_client, http_client: the request names a host or an address.
Request(c) ==
    /\ At(c, "greet")
    /\ \/ \E h \in Hosts : Goes(c, [To(c, "look") EXCEPT !.host = h])
       \/ Goes(c, To(c, "connect"))
    /\ UNCHANGED <<tunnel, cache, permits, lost>>

\* create_connection: bound to tun0, so it needs the tunnel.
Connect(c) ==
    /\ At(c, "connect") /\ tunnel.up
    /\ Goes(c, [Idle EXCEPT !.at = "relay"])
    /\ UNCHANGED <<tunnel, cache, permits, lost>>

\* Mutant of Close: the permit of a request that is refused is not given back.
CloseKeeps(c) ==
    /\ job[c].at \in {"greet", "connect", "relay"}
    /\ permits' = IF At(c, "greet") THEN permits ELSE permits + 1
    /\ Goes(c, Idle)
    /\ UNCHANGED <<tunnel, cache, lost>>

\* The request is refused, the connection fails, or the relay ends: the sockets
\* are closed and the permit is given back.
Close(c) ==
    /\ job[c].at \in {"greet", "connect", "relay"}
    /\ permits' = permits + 1
    /\ Goes(c, Idle)
    /\ UNCHANGED <<tunnel, cache, lost>>

----------------------------------------------------------------------------
(* Resolving a name.                                                        *)

\* resolve_dns_over_tun0 reads the tunnel.
Look(c) ==
    /\ At(c, "look")
    /\ Goes(c, [To(c, IF Fingerprint = Nil THEN "forget" ELSE "cached") EXCEPT !.seen = Fingerprint])
    /\ UNCHANGED <<tunnel, cache, permits, lost>>

Forget(c) ==
    /\ At(c, "forget")
    /\ Clear
    /\ Goes(c, To(c, "ask"))
    /\ UNCHANGED <<tunnel, permits, lost>>

\* lookup: first all questions are tried in the cache.
Lookup(c) ==
    LET s == job[c].seen
        k == Key(c)
        hit == EntriesIn(s)[k]
    IN
    /\ At(c, "cached")
    /\ scope' = s
    /\ inflight' = InflightIn(s)
    /\ flights' = FlightsIn(s)
    /\ \/ /\ hit # Nil
          /\ entries' = EntriesIn(s)
          /\ Goes(c, Resolved(c, hit))
       \/ /\ entries' = [EntriesIn(s) EXCEPT ![k] = Nil] \* absent or expired
          /\ Goes(c, IF job[c].ask < Questions THEN [job[c] EXCEPT !.ask = @ + 1]
                     ELSE [To(c, "ask") EXCEPT !.ask = 1])
    /\ UNCHANGED <<tunnel, permits, lost>>

\* dns_query_over_tun0 reads the tunnel again for every question.
Ask(c) ==
    /\ At(c, "ask")
    /\ Goes(c, [To(c, IF Fingerprint = Nil THEN "drop" ELSE "begin") EXCEPT !.seen = Fingerprint])
    /\ UNCHANGED <<tunnel, cache, permits, lost>>

Drop(c) ==
    /\ At(c, "drop")
    /\ Clear
    /\ Goes(c, To(c, "bare"))
    /\ UNCHANGED <<tunnel, permits, lost>>

\* _query_dns_over_tun0 and _parse_dns_answer: an address that came through the
\* tunnel, with a lifetime or without, or none.
Reply == {Nil} \cup {Fingerprint}

\* A question outside of the cache.
Bare(c) ==
    /\ At(c, "bare")
    /\ \E address \in Reply : Goes(c, Answered(c, address))
    /\ UNCHANGED <<tunnel, cache, permits, lost>>

\* begin: the address is known, another thread asks, or this one will.
Begin(c) ==
    LET s   == job[c].seen
        k   == Key(c)
        now == EntriesIn(s)
        fly == InflightIn(s)
    IN
    /\ At(c, "begin")
    /\ scope' = s
    /\ \/ /\ now[k] # Nil
          /\ Goes(c, Resolved(c, now[k]))
          /\ entries' = now /\ inflight' = fly /\ flights' = FlightsIn(s)
       \/ /\ entries' = [now EXCEPT ![k] = Nil]
          /\ \/ /\ fly[k] # None
                /\ Goes(c, [To(c, "wait") EXCEPT !.flight = fly[k]])
                /\ inflight' = fly /\ flights' = FlightsIn(s)
             \/ /\ fly[k] = None
                /\ \E f \in Unused :
                   /\ Goes(c, [To(c, "query") EXCEPT !.flight = f])
                   /\ flights' = [FlightsIn(s) EXCEPT ![f] = [set |-> FALSE, address |-> Nil]]
                   /\ inflight' = IF Cardinality({j \in Keys : fly[j] # None}) < MaxEntries
                                  THEN [fly EXCEPT ![k] = f] ELSE fly
    /\ UNCHANGED <<tunnel, permits, lost>>

Query(c) ==
    /\ At(c, "query")
    /\ \E address \in Reply, lasts \in BOOLEAN :
       /\ address = Nil => ~lasts
       /\ Goes(c, [To(c, "compare") EXCEPT !.address = address, !.keep = lasts])
    /\ UNCHANGED <<tunnel, cache, permits, lost>>

\* Mutant of Cacheable: the tunnel is not read again after the question.
CacheableUnread(c) == job[c].keep

\* The tunnel must still be the one the question was asked for.
Cacheable(c) == job[c].keep /\ Fingerprint = job[c].seen

Compare(c) ==
    /\ At(c, "compare")
    /\ Goes(c, [To(c, "finish") EXCEPT !.keep = Cacheable(c)])
    /\ UNCHANGED <<tunnel, cache, permits, lost>>

\* finish
Finish(c) ==
    LET k    == Key(c)
        f    == job[c].flight
        mine == scope = job[c].seen /\ inflight[k] = f
    IN
    /\ At(c, "finish")
    /\ inflight' = IF mine THEN [inflight EXCEPT ![k] = None] ELSE inflight
    /\ IF mine /\ job[c].keep
       THEN \E x \in Evicted([entries EXCEPT ![k] = job[c].address], k) :
               entries' = Stored(k, job[c].address, x)
       ELSE UNCHANGED entries
    /\ flights' = [flights EXCEPT ![f] = [set |-> TRUE, address |-> job[c].address]]
    /\ Goes(c, Answered(c, job[c].address))
    /\ UNCHANGED <<tunnel, scope, permits, lost>>

\* event.wait returns: the answer counts if the tunnel is still the same.
Wake(c) ==
    /\ At(c, "wait") /\ flights[job[c].flight].set
    /\ Goes(c, IF Fingerprint = job[c].seen THEN To(c, "wake") ELSE NextQuestion(c))
    /\ UNCHANGED <<tunnel, cache, permits, lost>>

Read(c) ==
    /\ At(c, "wake")
    /\ Goes(c, Answered(c, flights[job[c].flight].address))
    /\ UNCHANGED <<tunnel, cache, permits, lost>>

\* The owner takes longer than a waiter is prepared to wait.
TimeOut(c) ==
    /\ At(c, "wait")
    /\ Goes(c, NextQuestion(c))
    /\ UNCHANGED <<tunnel, cache, permits, lost>>

----------------------------------------------------------------------------
(* The tunnel.                                                              *)

TunnelDown ==
    /\ tunnel.up
    /\ tunnel' = [tunnel EXCEPT !.up = FALSE]
    /\ UNCHANGED <<cache, permits, lost, job>>

TunnelUp ==
    /\ ~tunnel.up
    /\ tunnel' = [tunnel EXCEPT !.up = TRUE]
    /\ UNCHANGED <<cache, permits, lost, job>>

TunnelMoves ==
    /\ tunnel.id < MaxMoves
    /\ tunnel' = [tunnel EXCEPT !.id = @ + 1]
    /\ UNCHANGED <<cache, permits, lost, job>>

Init ==
    /\ tunnel = [id |-> 1, up |-> TRUE]
    /\ scope = Nil
    /\ entries = [k \in Keys |-> Nil]
    /\ inflight = [k \in Keys |-> None]
    /\ flights = [f \in Flights |-> [set |-> FALSE, address |-> Nil]]
    /\ permits = MaxConnections
    /\ lost = 0
    /\ job = [c \in Clients |-> Idle]

Next ==
    \/ \E c \in Clients :
          \/ Accept(c) \/ StartFails(c) \/ Request(c) \/ Connect(c) \/ Close(c)
          \/ Look(c) \/ Forget(c) \/ Lookup(c) \/ Ask(c) \/ Drop(c) \/ Bare(c)
          \/ Begin(c) \/ Query(c) \/ Compare(c) \/ Finish(c)
          \/ Wake(c) \/ Read(c) \/ TimeOut(c)
    \/ TunnelDown \/ TunnelUp \/ TunnelMoves

Spec == Init /\ [][Next]_vars

----------------------------------------------------------------------------
(* Properties.                                                              *)

\* Every address in the cache came through the tunnel the cache is kept for,
\* although the tunnel may be replaced while the question is under way.
CacheOfScope == \A k \in Keys : entries[k] \in {Nil, scope}

\* The cache keeps no address from another tunnel than its own, and a connection uses
\* none that is older than the tunnel its thread saw when it asked for the name, be
\* it from the cache, from the thread's own question or from that of another thread.
\* A tunnel that is replaced while the question is under way is not noticed by the
\* thread that asks: what it finds out afterwards only keeps the answer from the cache.
NeverOlder ==
    /\ CacheOfScope
    /\ \A c \in Clients : At(c, "connect") /\ job[c].address # Nil => job[c].address >= job[c].seen

\* A thread has a question under way.
Querying(c) == job[c].at \in {"query", "compare", "finish"}

\* A flight that others may join, or wait for, has a thread that will set it;
\* a flight that is set is no longer found by anybody.
NobodyWaitsInVain ==
    /\ \A k \in Keys : inflight[k] # None =>
          /\ ~flights[inflight[k]].set
          /\ \E o \in Clients : Querying(o) /\ job[o].flight = inflight[k] /\ Key(o) = k
    /\ \A c \in Clients : At(c, "wait") /\ ~flights[job[c].flight].set =>
          \E o \in Clients : Querying(o) /\ job[o].flight = job[c].flight

\* Neither the entries nor the registered flights outgrow the limit of the cache.
Bounded ==
    /\ Cardinality({k \in Keys : entries[k] # Nil}) <= MaxEntries
    /\ Cardinality({k \in Keys : inflight[k] # None}) <= MaxEntries

\* Every permit is free, held by a connection, or was lost when its thread could
\* not be started; nothing else takes permits away for good.
PermitsBalanced ==
    permits + Cardinality({c \in Clients : ~At(c, "idle")}) + lost = MaxConnections

============================================================================
