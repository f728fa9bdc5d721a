------------------------- MODULE ProxyServerProofs --------------------------
(* Proofs about ProxyServer: its types, and that addresses, flights, limits  *)
(* and permits are kept, for any number of clients, hosts and tunnels.       *)
EXTENDS ProxyServer, TLAPS, FiniteSetTheorems

\* Where a thread has a flight.
Holding == {"query", "compare", "finish", "wait", "wake"}
Owning  == {"query", "compare", "finish"}

\* A thread has read a tunnel that was there, and what it was answered came through
\* that one or a later one; it keeps an answer only from the tunnel it has read.
JobOK(j) ==
    /\ j.flight # None <=> j.at \in Holding
    /\ j.seen <= tunnel.id
    /\ j.at \in {"idle", "greet"} => j.address = Nil
    /\ j.at \in Holding \cup {"begin"} => j.seen # Nil
    /\ j.at \in {"compare", "finish"} => j.address <= tunnel.id
    /\ j.at \in {"compare", "finish", "connect"} /\ j.address # Nil => j.seen <= j.address
    /\ j.at \in {"compare", "finish"} /\ j.keep => j.address # Nil
    /\ j.at = "finish" /\ j.keep => j.address = j.seen

\* Threads with one flight have read one tunnel, which is the scope while the flight
\* is registered; its answer is no older; and one thread asks for it.
FlightsOK ==
    /\ \A c, d \in Clients : job[c].flight # None /\ job[c].flight = job[d].flight
                                => job[c].seen = job[d].seen
    /\ \A c \in Clients, k \in Keys : job[c].flight # None /\ inflight[k] = job[c].flight
                                => job[c].seen = scope
    /\ \A c \in Clients : job[c].flight # None =>
           flights[job[c].flight].address = Nil \/ job[c].seen <= flights[job[c].flight].address
    /\ \A k \in Keys : inflight[k] # None =>
           flights[inflight[k]].address = Nil \/ scope <= flights[inflight[k]].address
    /\ \A c, d \in Clients : Querying(c) /\ Querying(d) /\ job[c].flight = job[d].flight => c = d
    /\ NobodyWaitsInVain

Typed ==
    /\ tunnel \in [id : Tunnels, up : BOOLEAN]
    /\ scope \in {Nil} \cup Tunnels
    /\ entries \in [Keys -> {Nil} \cup Tunnels]
    /\ inflight \in [Keys -> Flights \cup {None}]
    /\ flights \in [Flights -> [set : BOOLEAN, address : {Nil} \cup Tunnels]]
    /\ permits \in Nat /\ lost \in 0..MaxLost
    /\ job \in [Clients -> Job]
    /\ \A c \in Clients : job[c].at \notin {"idle", "greet", "connect", "relay"}
                              => job[c].host \in Hosts

IInv ==
    /\ Typed
    /\ \A c \in Clients : JobOK(job[c])
    /\ CacheOfScope
    /\ FlightsOK

----------------------------------------------------------------------------
(* What a step makes of the flights, by what it does to them.               *)

\* The cache stays, and a thread without a question goes on or lets its flight go.
LEMMA ThreadMoves ==
    ASSUME IInv, UNCHANGED cache, NEW c \in Clients, NEW r \in Job,
           job' = [job EXCEPT ![c] = r],
           ~Querying(c), r.at \notin Owning \cup {"wait"},
           r.flight = None \/ (r.flight = job[c].flight /\ r.seen = job[c].seen)
    PROVE  FlightsOK'
  <1>1. \A d \in Clients : job'[d] = IF d = c THEN r ELSE job[d]
    BY DEF IInv, Typed
  <1>2. scope' = scope /\ inflight' = inflight /\ flights' = flights
    BY DEF cache
  <1>3. \A d \in Clients : (At(d, "wait"))' => d # c /\ At(d, "wait")
    BY <1>1 DEF At
  <1>4. \A d \in Clients : Querying(d)' <=> d # c /\ Querying(d)
    BY <1>1 DEF Querying, Owning
  <1>5. \A d \in Clients, k \in Keys : d # c => (Key(d) = k)' = (Key(d) = k)
    BY <1>1 DEF Key
  <1>6. NobodyWaitsInVain'
    BY <1>1, <1>2, <1>3, <1>4, <1>5 DEF IInv, FlightsOK, NobodyWaitsInVain
  <1> QED
    BY <1>1, <1>2, <1>4, <1>6 DEF IInv, FlightsOK

\* The cache stays, and a thread with a question goes on with it.
LEMMA OwnerMoves ==
    ASSUME IInv, UNCHANGED cache, NEW c \in Clients, NEW r \in Job,
           job' = [job EXCEPT ![c] = r],
           Querying(c), r.at \in Owning, r.flight = job[c].flight, r.seen = job[c].seen,
           r.host = job[c].host, r.ask = job[c].ask
    PROVE  FlightsOK'
  <1>1. \A d \in Clients : job'[d] = IF d = c THEN r ELSE job[d]
    BY DEF IInv, Typed
  <1>2. scope' = scope /\ inflight' = inflight /\ flights' = flights
    BY DEF cache
  <1>3. \A d \in Clients : (At(d, "wait"))' => d # c /\ At(d, "wait")
    BY <1>1 DEF At, Owning
  <1>4. \A d \in Clients : Querying(d)' <=> Querying(d)
    BY <1>1 DEF Querying, Owning
  <1>5. \A d \in Clients, k \in Keys : (Key(d) = k)' = (Key(d) = k)
    BY <1>1 DEF Key
  <1>6. \A d \in Clients : job'[d].flight = job[d].flight /\ job'[d].seen = job[d].seen
    BY <1>1
  <1>7. NobodyWaitsInVain'
    BY <1>2, <1>3, <1>4, <1>5, <1>6 DEF IInv, FlightsOK, NobodyWaitsInVain
  <1> QED
    BY <1>2, <1>4, <1>6, <1>7 DEF IInv, FlightsOK

\* The cache is brought to a scope by a thread without a flight.
LEMMA ScopeChanges ==
    ASSUME IInv, NEW s \in {Nil} \cup Tunnels, NEW c \in Clients, NEW r \in Job,
           scope' = s, inflight' = InflightIn(s), flights' = FlightsIn(s),
           job' = [job EXCEPT ![c] = r],
           job[c].flight = None, r.flight = None, r.at \notin Owning \cup {"wait"},
           ~Querying(c)
    PROVE  FlightsOK'
  <1>1. CASE scope = s
    <2>1. scope' = scope /\ inflight' = inflight /\ flights' = flights
      BY <1>1 DEF InflightIn, FlightsIn
    <2>2. \A d \in Clients : job'[d] = IF d = c THEN r ELSE job[d]
      BY DEF IInv, Typed
    <2>3. \A d \in Clients : (At(d, "wait"))' => d # c /\ At(d, "wait")
      BY <2>2 DEF At
    <2>4. \A d \in Clients : Querying(d)' <=> d # c /\ Querying(d)
      BY <2>2 DEF Querying, Owning
    <2>5. \A d \in Clients, k \in Keys : d # c => (Key(d) = k)' = (Key(d) = k)
      BY <2>2 DEF Key
    <2>6. NobodyWaitsInVain'
      BY <2>1, <2>2, <2>3, <2>4, <2>5 DEF IInv, FlightsOK, NobodyWaitsInVain
    <2> QED
      BY <2>1, <2>2, <2>4, <2>6 DEF IInv, FlightsOK
  <1>2. CASE scope # s
    <2>1. \A k \in Keys : inflight'[k] = None
      BY <1>2 DEF InflightIn
    <2>2. \A f \in Flights : /\ flights'[f].address = flights[f].address
                             /\ ~flights'[f].set => ~flights[f].set
      BY <1>2 DEF FlightsIn, IInv, Typed
    <2>3. \A d \in Clients : job'[d] = IF d = c THEN r ELSE job[d]
      BY DEF IInv, Typed
    <2>4. \A d \in Clients : (At(d, "wait"))' => d # c /\ At(d, "wait")
      BY <2>3 DEF At
    <2>5. \A d \in Clients : Querying(d)' <=> d # c /\ Querying(d)
      BY <2>3 DEF Querying, Owning
    <2>6. \A d \in Clients : job[d].flight \in Flights \cup {None}
      BY DEF IInv, Typed, Job
    <2>7. \A d \in Clients : At(d, "wait") => job[d].flight # None
      BY DEF IInv, JobOK, Holding, At
    <2>8. NobodyWaitsInVain'
      BY <2>1, <2>2, <2>3, <2>4, <2>5, <2>6, <2>7 DEF IInv, FlightsOK, NobodyWaitsInVain
    <2> QED
      BY <2>1, <2>2, <2>3, <2>5, <2>6, <2>8 DEF IInv, FlightsOK
  <1> QED
    BY <1>1, <1>2

\* In its new scope the cache has no entry of another one, and no flight of another one.
LEMMA ScopeKept ==
    ASSUME IInv, NEW s \in {Nil} \cup Tunnels
    PROVE  /\ EntriesIn(s) \in [Keys -> {Nil} \cup Tunnels]
           /\ \A k \in Keys : EntriesIn(s)[k] \in {Nil, s}
           /\ InflightIn(s) \in [Keys -> Flights \cup {None}]
           /\ FlightsIn(s) \in [Flights -> [set : BOOLEAN, address : {Nil} \cup Tunnels]]
           /\ \A k \in Keys : InflightIn(s)[k] # None =>
                  scope = s /\ InflightIn(s)[k] = inflight[k]
  BY DEF IInv, Typed, CacheOfScope, EntriesIn, InflightIn, FlightsIn, Nil

----------------------------------------------------------------------------
(* The threads.                                                             *)

\* The record of a thread is replaced.
HostKnown(r) == r.at \notin {"idle", "greet", "connect", "relay"} => r.host \in Hosts

LEMMA ThreadReplaced ==
    ASSUME IInv, UNCHANGED tunnel, NEW c \in Clients, NEW r \in Job,
           job' = [job EXCEPT ![c] = r], HostKnown(r), JobOK(r)
    PROVE  /\ job' \in [Clients -> Job]
           /\ \A d \in Clients : HostKnown(job[d])'
           /\ \A d \in Clients : JobOK(job[d])'
  <1>1. \A d \in Clients : job'[d] = IF d = c THEN r ELSE job[d]
    BY DEF IInv, Typed
  <1> QED
    BY <1>1 DEF IInv, Typed, JobOK, HostKnown

\* What follows an answer.
LEMMA AnsweredJob ==
    ASSUME IInv, NEW c \in Clients, job[c].host \in Hosts, NEW a \in {Nil} \cup Tunnels
    PROVE  LET r == Answered(c, a) IN
           /\ r \in Job /\ r.flight = None /\ r.seen = job[c].seen
           /\ r.at \in {"ask", "connect"}
           /\ r.at = "ask" => r.host = job[c].host
           /\ r.at = "connect" => r.address = a
  <1>1. job[c] \in Job
    BY DEF IInv, Typed
  <1>2. job[c].seen \in {Nil} \cup Tunnels /\ job[c].ask \in 1..Questions
    BY <1>1 DEF Job
  <1>3. ASSUME NEW x \in {Nil} \cup Tunnels
        PROVE  Resolved(c, x) \in Job
    <2>1. Idle \in Job
      BY ProxyAssumption DEF Idle, Job, Points
    <2> QED
      BY <1>2, <2>1 DEF Resolved, Job, Points
  <1>4. ASSUME job[c].ask < Questions
        PROVE  NextQuestion(c) \in Job
    <2>1. NextQuestion(c) = [at |-> "ask", host |-> job[c].host, ask |-> job[c].ask + 1,
                             seen |-> job[c].seen, flight |-> None, address |-> Nil,
                             keep |-> FALSE]
      BY <1>4 DEF NextQuestion, Idle
    <2>2. job[c].ask + 1 \in 1..Questions
      BY <1>2, <1>4, ProxyAssumption
    <2> QED
      BY <1>2, <2>1, <2>2 DEF Job, Points
  <1> QED
    BY <1>3, <1>4 DEF Answered, NextQuestion, Resolved, Idle, Nil

\* A thread goes on without a question, and the cache stays.
LEMMA ThreadSteps ==
    ASSUME IInv, UNCHANGED <<tunnel, cache>>, permits' \in Nat, lost' \in 0..MaxLost,
           NEW c \in Clients, NEW r \in Job, job' = [job EXCEPT ![c] = r],
           HostKnown(r), JobOK(r), ~Querying(c), r.at \notin Owning \cup {"wait"},
           r.flight = None \/ (r.flight = job[c].flight /\ r.seen = job[c].seen)
    PROVE  IInv'
  <1>1. FlightsOK'
    BY ThreadMoves
  <1>2. /\ job' \in [Clients -> Job] /\ \A d \in Clients : HostKnown(job[d])'
        /\ \A d \in Clients : JobOK(job[d])'
    BY ThreadReplaced
  <1>3. Typed'
    BY <1>2 DEF IInv, Typed, cache, HostKnown
  <1> QED
    BY <1>1, <1>2, <1>3 DEF IInv, CacheOfScope, cache

LEMMA ConnectionSteps ==
    ASSUME IInv, NEW c \in Clients,
           Accept(c) \/ Request(c) \/ Connect(c) \/ Close(c) \/ Look(c) \/ Ask(c)
    PROVE  IInv'
  <1>1. job[c] \in Job /\ JobOK(job[c]) /\ HostKnown(job[c])
    BY DEF IInv, Typed, HostKnown
  <1>2. tunnel.id \in Tunnels /\ Fingerprint \in {Nil} \cup Tunnels /\ Fingerprint <= tunnel.id
    BY ProxyAssumption DEF IInv, Typed, Fingerprint, Nil, Tunnels
  <1>3. Idle \in Job /\ HostKnown(Idle) /\ JobOK(Idle)
    BY <1>2, ProxyAssumption DEF Idle, Job, Points, HostKnown, JobOK, Holding, Nil, Tunnels
  <1>4. CASE Accept(c)
    <2> DEFINE r == To(c, "greet")
    <2>1. r \in Job /\ HostKnown(r) /\ JobOK(r) /\ r.at = "greet" /\ r.flight = None
      BY <1>1, <1>4 DEF To, Job, Points, HostKnown, JobOK, Holding, Accept, At
    <2>2. permits' \in Nat /\ lost' \in 0..MaxLost /\ ~Querying(c) /\ UNCHANGED <<tunnel, cache>>
          /\ job' = [job EXCEPT ![c] = r]
      BY <1>4 DEF Accept, Querying, At, IInv, Typed, Goes
    <2> QED
      BY <2>1, <2>2, ThreadSteps DEF Owning
  <1>5. CASE Request(c)
    <2>1. PICK r : /\ job' = [job EXCEPT ![c] = r]
                   /\ \/ \E h \in Hosts : r = [To(c, "look") EXCEPT !.host = h]
                      \/ r = To(c, "connect")
      BY <1>5 DEF Request, Goes
    <2>2. job[c].flight = None
      BY <1>1, <1>5 DEF JobOK, Holding, Request, At
    <2>3. job[c].address = Nil
      BY <1>1, <1>5 DEF JobOK, Request, At
    <2>4. r \in Job /\ HostKnown(r) /\ JobOK(r) /\ r.flight = None /\ r.at \in {"look", "connect"}
      <3>1. CASE r = To(c, "connect")
        BY <1>1, <2>2, <2>3, <3>1 DEF To, Job, Points, HostKnown, JobOK, Holding
      <3>2. ASSUME NEW h \in Hosts, r = [To(c, "look") EXCEPT !.host = h]
            PROVE  r \in Job /\ HostKnown(r) /\ JobOK(r) /\ r.flight = None /\ r.at = "look"
        BY <1>1, <2>2, <2>3, <3>2 DEF To, Job, Points, HostKnown, JobOK, Holding
      <3> QED
        BY <2>1, <3>1, <3>2 DEF To, Job
    <2>5. permits' \in Nat /\ lost' \in 0..MaxLost /\ ~Querying(c) /\ UNCHANGED <<tunnel, cache>>
      BY <1>5 DEF Request, Querying, At, IInv, Typed
    <2> QED
      BY <2>1, <2>4, <2>5, ThreadSteps DEF Owning
  <1>6. CASE Connect(c)
    <2> DEFINE r == [Idle EXCEPT !.at = "relay"]
    <2>1. r \in Job /\ HostKnown(r) /\ JobOK(r) /\ r.at = "relay" /\ r.flight = None
      BY <1>3 DEF Idle, Job, Points, HostKnown, JobOK, Holding, Nil
    <2>2. permits' \in Nat /\ lost' \in 0..MaxLost /\ ~Querying(c) /\ UNCHANGED <<tunnel, cache>>
          /\ job' = [job EXCEPT ![c] = r]
      BY <1>6 DEF Connect, Querying, At, IInv, Typed, Goes
    <2> QED
      BY <2>1, <2>2, ThreadSteps DEF Owning
  <1>7. CASE Close(c)
    <2>1. permits' \in Nat /\ lost' \in 0..MaxLost /\ ~Querying(c) /\ UNCHANGED <<tunnel, cache>>
          /\ job' = [job EXCEPT ![c] = Idle]
      BY <1>7 DEF Close, Querying, At, IInv, Typed, Goes
    <2> QED
      BY <1>3, <2>1, ThreadSteps DEF Idle, Owning
  <1>8. CASE Look(c) \/ Ask(c)
    <2>1. PICK r : /\ job' = [job EXCEPT ![c] = r]
                   /\ \E p \in {"forget", "cached", "drop", "begin"} :
                          /\ r = [To(c, p) EXCEPT !.seen = Fingerprint]
                          /\ p = "begin" => Fingerprint # Nil
      BY <1>8 DEF Look, Ask, Goes
    <2>2. job[c].flight = None /\ job[c].host \in Hosts
      BY <1>1, <1>8 DEF JobOK, Holding, HostKnown, Look, Ask, At
    <2>3. r \in Job /\ HostKnown(r) /\ JobOK(r) /\ r.flight = None
          /\ r.at \in {"forget", "cached", "drop", "begin"}
      BY <1>1, <1>2, <2>1, <2>2 DEF To, Job, Points, HostKnown, JobOK, Holding
    <2>4. permits' \in Nat /\ lost' \in 0..MaxLost /\ ~Querying(c) /\ UNCHANGED <<tunnel, cache>>
      BY <1>8 DEF Look, Ask, Querying, At, IInv, Typed
    <2> QED
      BY <2>1, <2>3, <2>4, ThreadSteps DEF Owning
  <1> QED
    BY <1>4, <1>5, <1>6, <1>7, <1>8

\* Steps of a thread that resolves a name outside of the cache, or has waited.
LEMMA AnswerSteps ==
    ASSUME IInv, NEW c \in Clients, Bare(c) \/ Wake(c) \/ Read(c) \/ TimeOut(c)
    PROVE  IInv'
  <1>1. job[c] \in Job /\ JobOK(job[c]) /\ job[c].host \in Hosts
    BY DEF IInv, Typed, Bare, Wake, Read, TimeOut, At
  <1>2. tunnel.id \in Tunnels /\ Fingerprint \in {Nil} \cup Tunnels /\ Fingerprint <= tunnel.id
        /\ (Fingerprint # Nil => Fingerprint = tunnel.id)
    BY ProxyAssumption DEF IInv, Typed, Fingerprint, Nil, Tunnels
  <1>3. permits' \in Nat /\ lost' \in 0..MaxLost /\ ~Querying(c) /\ UNCHANGED <<tunnel, cache>>
    BY DEF Bare, Wake, Read, TimeOut, Querying, At, IInv, Typed
  <1>4. ASSUME NEW a \in {Nil} \cup Tunnels, a = Nil \/ job[c].seen <= a, Goes(c, Answered(c, a))
        PROVE  IInv'
    <2> DEFINE r == Answered(c, a)
    <2>1. /\ r \in Job /\ r.flight = None /\ r.seen = job[c].seen
          /\ r.at \in {"ask", "connect"}
          /\ r.at = "ask" => r.host = job[c].host
          /\ r.at = "connect" => r.address = a
      BY <1>1, AnsweredJob
    <2>2. HostKnown(r) /\ JobOK(r)
      BY <1>1, <1>4, <2>1 DEF HostKnown, JobOK, Holding
    <2> HIDE DEF r
    <2>3. job' = [job EXCEPT ![c] = r]
      BY <1>4 DEF Goes, r
    <2> QED
      BY <1>3, <2>1, <2>2, <2>3, ThreadSteps DEF Owning
  <1>5. CASE Bare(c)
    BY <1>1, <1>2, <1>4, <1>5 DEF Bare, Reply, JobOK
  <1>6. CASE TimeOut(c)
    BY <1>4, <1>6 DEF TimeOut, Answered, Nil
  <1>7. CASE Wake(c)
    <2>1. CASE Fingerprint = job[c].seen
      <3> DEFINE r == To(c, "wake")
      <3>1. r \in Job /\ HostKnown(r) /\ JobOK(r) /\ r.at = "wake" /\ r.flight = job[c].flight
            /\ r.seen = job[c].seen
        BY <1>1, <1>7 DEF To, Job, Points, HostKnown, JobOK, Holding, Wake, At
      <3>2. job' = [job EXCEPT ![c] = r]
        BY <1>7, <2>1 DEF Wake, Goes
      <3> QED
        BY <1>3, <3>1, <3>2, ThreadSteps DEF Owning
    <2>2. CASE Fingerprint # job[c].seen
      BY <1>4, <1>7, <2>2 DEF Wake, Answered, Nil
    <2> QED
      BY <2>1, <2>2
  <1>8. CASE Read(c)
    <2>1. job[c].flight \in Flights
      BY <1>1, <1>8 DEF Job, JobOK, Holding, Read, At
    <2>2. flights[job[c].flight].address \in {Nil} \cup Tunnels
      BY <2>1 DEF IInv, Typed
    <2>3. flights[job[c].flight].address = Nil \/ job[c].seen <= flights[job[c].flight].address
      BY <2>1, ProxyAssumption DEF IInv, FlightsOK
    <2> QED
      BY <1>4, <1>8, <2>2, <2>3 DEF Read
  <1> QED
    BY <1>5, <1>6, <1>7, <1>8

\* The cache is emptied, or brought to the scope of a thread that looks a name up.
LEMMA ScopeSteps ==
    ASSUME IInv, UNCHANGED <<tunnel, permits, lost>>, NEW c \in Clients, NEW r \in Job,
           job' = [job EXCEPT ![c] = r], HostKnown(r), JobOK(r),
           job[c].flight = None, r.flight = None, ~Querying(c),
           r.at \notin Owning \cup {"wait"},
           NEW s \in {Nil} \cup Tunnels, scope' = s,
           inflight' = InflightIn(s), flights' = FlightsIn(s),
           \/ entries' = EntriesIn(s)
           \/ \E k \in Keys : entries' = [EntriesIn(s) EXCEPT ![k] = Nil]
    PROVE  IInv'
  <1>1. FlightsOK'
    BY ScopeChanges
  <1>2. /\ job' \in [Clients -> Job] /\ \A d \in Clients : HostKnown(job[d])'
        /\ \A d \in Clients : JobOK(job[d])'
    BY ThreadReplaced
  <1>3. /\ EntriesIn(s) \in [Keys -> {Nil} \cup Tunnels]
        /\ \A k \in Keys : EntriesIn(s)[k] \in {Nil, s}
        /\ InflightIn(s) \in [Keys -> Flights \cup {None}]
        /\ FlightsIn(s) \in [Flights -> [set : BOOLEAN, address : {Nil} \cup Tunnels]]
    BY ScopeKept
  <1>4. entries' \in [Keys -> {Nil} \cup Tunnels] /\ CacheOfScope'
    BY <1>3 DEF CacheOfScope
  <1>5. Typed'
    BY <1>2, <1>3, <1>4 DEF IInv, Typed, HostKnown
  <1> QED
    BY <1>1, <1>2, <1>4, <1>5 DEF IInv

LEMMA LookupSteps ==
    ASSUME IInv, NEW c \in Clients, Forget(c) \/ Drop(c) \/ Lookup(c)
    PROVE  IInv'
  <1>1. job[c] \in Job /\ JobOK(job[c]) /\ job[c].host \in Hosts /\ job[c].flight = None
        /\ job[c].seen \in {Nil} \cup Tunnels /\ job[c].ask \in 1..Questions
    BY DEF IInv, Typed, JobOK, Holding, Forget, Drop, Lookup, At, Job
  <1>2. UNCHANGED <<tunnel, permits, lost>> /\ ~Querying(c)
    BY DEF Forget, Drop, Lookup, Querying, At
  <1>3. CASE Forget(c) \/ Drop(c)
    <2>1. PICK r : job' = [job EXCEPT ![c] = r] /\ \E p \in {"ask", "bare"} : r = To(c, p)
      BY <1>3 DEF Forget, Drop, Goes
    <2>2. r \in Job /\ HostKnown(r) /\ JobOK(r) /\ r.flight = None /\ r.at \in {"ask", "bare"}
      BY <1>1, <2>1 DEF To, Job, Points, HostKnown, JobOK, Holding
    <2> QED
      BY <1>1, <1>2, <1>3, <2>1, <2>2, ScopeSteps DEF Owning, Forget, Drop, Clear
  <1>4. CASE Lookup(c)
    <2> DEFINE s   == job[c].seen
               k   == Key(c)
               hit == EntriesIn(s)[k]
    <2>1. k \in Keys
      BY <1>1 DEF Key, Keys
    <2>2. hit \in {Nil, s}
      BY <1>1, <2>1, ScopeKept
    <2>3. CASE hit # Nil /\ entries' = EntriesIn(s) /\ Goes(c, Resolved(c, hit))
      <3> DEFINE r == Resolved(c, hit)
      <3>1. Answered(c, hit) = r
        BY <2>3 DEF Answered
      <3>2. r \in Job /\ r.flight = None /\ r.at = "connect" /\ r.address = hit /\ r.seen = s
        BY <1>1, <2>2, <3>1, AnsweredJob DEF Resolved, Idle
      <3>3. HostKnown(r) /\ JobOK(r)
        <4>1. s <= tunnel.id /\ (hit # Nil => s <= hit)
          BY <1>1, <2>2 DEF JobOK, Tunnels, Nil
        <4> QED
          BY <3>2, <4>1 DEF HostKnown, JobOK, Holding
      <3> HIDE DEF r
      <3>4. job' = [job EXCEPT ![c] = r]
        BY <2>3 DEF Goes, r
      <3> QED
        BY <1>1, <1>2, <1>4, <2>3, <3>2, <3>3, <3>4, ScopeSteps DEF Owning, Lookup
    <2>4. CASE /\ entries' = [EntriesIn(s) EXCEPT ![k] = Nil]
               /\ Goes(c, IF job[c].ask < Questions THEN [job[c] EXCEPT !.ask = @ + 1]
                          ELSE [To(c, "ask") EXCEPT !.ask = 1])
      <3>1. PICK r : /\ job' = [job EXCEPT ![c] = r]
                     /\ \/ job[c].ask < Questions /\ r = [job[c] EXCEPT !.ask = @ + 1]
                        \/ r = [To(c, "ask") EXCEPT !.ask = 1]
        BY <2>4 DEF Goes
      <3>2. job[c].ask < Questions => job[c].ask + 1 \in 1..Questions
        BY <1>1, ProxyAssumption
      <3>3. r \in Job /\ HostKnown(r) /\ JobOK(r) /\ r.flight = None /\ r.at \in {"cached", "ask"}
        <4>1. CASE job[c].ask < Questions /\ r = [job[c] EXCEPT !.ask = @ + 1]
          BY <1>1, <1>4, <3>2, <4>1 DEF Job, Points, HostKnown, JobOK, Holding, Lookup, At
        <4>2. CASE r = [To(c, "ask") EXCEPT !.ask = 1]
          <5>1. 1 \in 1..Questions
            BY ProxyAssumption
          <5> QED
            BY <1>1, <4>2, <5>1 DEF To, Job, Points, HostKnown, JobOK, Holding
        <4> QED
          BY <3>1, <4>1, <4>2
      <3>4. \E j \in Keys : entries' = [EntriesIn(s) EXCEPT ![j] = Nil]
        BY <2>1, <2>4
      <3> QED
        BY <1>1, <1>2, <1>4, <3>1, <3>3, <3>4, ScopeSteps DEF Owning, Lookup
    <2> QED
      BY <1>4, <2>3, <2>4 DEF Lookup
  <1> QED
    BY <1>3, <1>4

\* A question is sent and answered, and the tunnel read again.
LEMMA QuestionSteps ==
    ASSUME IInv, NEW c \in Clients, Query(c) \/ Compare(c)
    PROVE  IInv'
  <1>1. job[c] \in Job /\ JobOK(job[c]) /\ job[c].host \in Hosts
    BY DEF IInv, Typed, Query, Compare, At
  <1>2. tunnel.id \in Tunnels /\ Fingerprint \in {Nil} \cup Tunnels /\ Fingerprint <= tunnel.id
        /\ (Fingerprint # Nil => Fingerprint = tunnel.id)
    BY ProxyAssumption DEF IInv, Typed, Fingerprint, Nil, Tunnels
  <1>3. UNCHANGED <<tunnel, cache, permits, lost>> /\ Querying(c)
    BY DEF Query, Compare, Querying, At
  <1>4. job[c].seen \in Nat /\ job[c].address \in Nat /\ tunnel.id \in Nat
    BY <1>1, <1>2, ProxyAssumption DEF Job, Nil, Tunnels
  <1>5. PICK r : /\ job' = [job EXCEPT ![c] = r]
                 /\ \/ /\ At(c, "query")
                       /\ \E a \in Reply, lasts \in BOOLEAN :
                             /\ a = Nil => ~lasts
                             /\ r = [To(c, "compare") EXCEPT !.address = a, !.keep = lasts]
                    \/ /\ At(c, "compare")
                       /\ r = [To(c, "finish") EXCEPT !.keep = Cacheable(c)]
    BY DEF Query, Compare, Goes
  <1>6. /\ r \in Job /\ HostKnown(r) /\ JobOK(r) /\ r.at \in {"compare", "finish"}
        /\ r.flight = job[c].flight /\ r.seen = job[c].seen
        /\ r.host = job[c].host /\ r.ask = job[c].ask
    <2>1. ASSUME NEW a \in Reply, NEW lasts \in BOOLEAN, a = Nil => ~lasts, At(c, "query"),
                 r = [To(c, "compare") EXCEPT !.address = a, !.keep = lasts]
          PROVE  <1>6!:
      <3>1. a \in {Nil} \cup Tunnels /\ a <= tunnel.id /\ (a # Nil => job[c].seen <= a)
        BY <1>1, <1>2, <1>4, <2>1 DEF Reply, JobOK, Nil, Tunnels
      <3>2. r \in Job /\ r.at = "compare" /\ r.address = a /\ r.keep = lasts
            /\ r.flight = job[c].flight /\ r.seen = job[c].seen
            /\ r.host = job[c].host /\ r.ask = job[c].ask
        BY <1>1, <2>1, <3>1 DEF To, Job, Points
      <3> QED
        BY <1>1, <2>1, <3>1, <3>2 DEF HostKnown, JobOK, Holding, At
    <2>2. CASE At(c, "compare") /\ r = [To(c, "finish") EXCEPT !.keep = Cacheable(c)]
      <3>1. Cacheable(c) \in BOOLEAN
        BY <1>1 DEF Cacheable, Job
      <3>2. Cacheable(c) => job[c].address = job[c].seen
        <4>1. job[c].keep => job[c].address # Nil /\ job[c].seen <= job[c].address
                             /\ job[c].address <= tunnel.id
          BY <1>1, <2>2 DEF JobOK, At
        <4>2. CASE Fingerprint = Nil
          BY <1>1, <2>2, <4>2 DEF Cacheable, JobOK, Holding, At
        <4>3. CASE Fingerprint = tunnel.id
          BY <1>4, <4>1, <4>3 DEF Cacheable
        <4> QED
          BY <1>2, <4>2, <4>3
      <3> QED
        BY <1>1, <2>2, <3>1, <3>2 DEF To, Job, Points, HostKnown, JobOK, Holding, At, Cacheable
    <2> QED
      BY <1>5, <2>1, <2>2
  <1>7. FlightsOK'
    BY <1>3, <1>5, <1>6, OwnerMoves DEF Owning
  <1>8. /\ job' \in [Clients -> Job] /\ \A d \in Clients : HostKnown(job[d])'
        /\ \A d \in Clients : JobOK(job[d])'
    BY <1>3, <1>5, <1>6, ThreadReplaced
  <1>9. Typed'
    BY <1>3, <1>8 DEF IInv, Typed, cache, HostKnown
  <1> QED
    BY <1>3, <1>7, <1>8, <1>9 DEF IInv, CacheOfScope, cache

\* Only the tunnel changes, or a permit is lost.
LEMMA OtherSteps ==
    ASSUME IInv,
           \/ TunnelDown \/ TunnelUp \/ TunnelMoves \/ UNCHANGED vars
           \/ \E c \in Clients : StartFails(c)
    PROVE  IInv'
  <1>1. UNCHANGED <<cache, job>> /\ permits' \in Nat /\ lost' \in 0..MaxLost
    BY ProxyAssumption DEF TunnelDown, TunnelUp, TunnelMoves, StartFails, vars, IInv, Typed
  <1>2. tunnel' \in [id : Tunnels, up : BOOLEAN] /\ tunnel.id <= tunnel'.id
    <2>1. tunnel \in [id : Tunnels, up : BOOLEAN] /\ tunnel.id \in Nat /\ tunnel.id >= 1
      BY ProxyAssumption DEF IInv, Typed, Tunnels
    <2>2. CASE TunnelMoves
      <3>1. tunnel.id + 1 \in Tunnels
        BY <2>1, <2>2, ProxyAssumption DEF TunnelMoves, Tunnels
      <3> QED
        BY <2>1, <2>2, <3>1 DEF TunnelMoves
    <2>3. CASE TunnelDown \/ TunnelUp
      <3>1. PICK up \in BOOLEAN : tunnel' = [tunnel EXCEPT !.up = up]
        BY <2>3 DEF TunnelDown, TunnelUp
      <3>2. tunnel'.id = tunnel.id /\ tunnel' \in [id : Tunnels, up : BOOLEAN]
        BY <2>1, <3>1
      <3> QED
        BY <2>1, <3>2
    <2>4. CASE UNCHANGED tunnel
      BY <2>1, <2>4
    <2> QED
      BY <2>2, <2>3, <2>4 DEF StartFails, vars
  <1>3. ASSUME NEW c \in Clients
        PROVE  JobOK(job[c])'
    <2>1. job[c] \in Job /\ JobOK(job[c]) /\ job'[c] = job[c] /\ tunnel.id \in Tunnels
      BY <1>1 DEF IInv, Typed
    <2>2. job[c].seen \in Nat /\ job[c].address \in Nat /\ tunnel.id \in Nat /\ tunnel'.id \in Nat
      BY <1>2, <2>1, ProxyAssumption DEF Job, Nil, Tunnels
    <2> QED
      BY <1>2, <2>1, <2>2 DEF JobOK
  <1>4. Typed' /\ CacheOfScope'
    BY <1>1, <1>2 DEF IInv, Typed, CacheOfScope, cache
  <1>5. FlightsOK'
    BY <1>1 DEF IInv, FlightsOK, NobodyWaitsInVain, Querying, At, Key, cache
  <1> QED
    BY <1>3, <1>4, <1>5 DEF IInv

----------------------------------------------------------------------------
(* A question under way.                                                    *)

\* What a thread that begins has.
LEMMA Beginner ==
    ASSUME IInv, NEW c \in Clients, Begin(c) \/ Finish(c)
    PROVE  /\ job[c] \in Job /\ JobOK(job[c]) /\ job[c].host \in Hosts
           /\ job[c].seen \in Tunnels /\ job[c].seen \in Nat /\ job[c].seen <= tunnel.id
           /\ Key(c) \in Keys /\ UNCHANGED <<tunnel, permits, lost>>
  <1>1. job[c] \in Job /\ JobOK(job[c]) /\ job[c].host \in Hosts
    BY DEF IInv, Typed, Begin, Finish, At
  <1>2. job[c].seen # Nil /\ job[c].seen <= tunnel.id
    BY <1>1 DEF JobOK, Holding, Begin, Finish, At
  <1>3. job[c].seen \in {Nil} \cup Tunnels /\ job[c].ask \in 1..Questions
    BY <1>1 DEF Job
  <1> QED
    BY <1>1, <1>2, <1>3, ProxyAssumption DEF Key, Keys, Tunnels, Begin, Finish

\* The address is known.
LEMMA BeginKnows ==
    ASSUME IInv, NEW c \in Clients, Begin(c),
           EntriesIn(job[c].seen)[Key(c)] # Nil,
           Goes(c, Resolved(c, EntriesIn(job[c].seen)[Key(c)])),
           entries' = EntriesIn(job[c].seen), inflight' = InflightIn(job[c].seen),
           flights' = FlightsIn(job[c].seen)
    PROVE  IInv'
  <1> DEFINE s == job[c].seen
             a == EntriesIn(s)[Key(c)]
             r == Resolved(c, a)
  <1>1. /\ job[c] \in Job /\ JobOK(job[c]) /\ job[c].host \in Hosts
        /\ s \in Tunnels /\ s \in Nat /\ s <= tunnel.id
        /\ Key(c) \in Keys /\ UNCHANGED <<tunnel, permits, lost>>
    BY Beginner
  <1>2. a = s
    BY <1>1, ScopeKept
  <1>3. Answered(c, a) = r
    BY DEF Answered
  <1>4. r \in Job /\ r.flight = None /\ r.at = "connect" /\ r.address = a /\ r.seen = s
    BY <1>1, <1>2, <1>3, AnsweredJob DEF Resolved, Idle
  <1>5. HostKnown(r) /\ JobOK(r)
    BY <1>1, <1>2, <1>4 DEF HostKnown, JobOK, Holding
  <1>6. job[c].flight = None /\ ~Querying(c) /\ scope' = s
    BY <1>1 DEF JobOK, Holding, Begin, At, Querying
  <1> HIDE DEF r
  <1>7. job' = [job EXCEPT ![c] = r]
    BY DEF Goes, r
  <1> QED
    BY <1>1, <1>4, <1>5, <1>6, <1>7, ScopeSteps DEF Owning

\* Another thread asks already.
LEMMA BeginJoins ==
    ASSUME IInv, NEW c \in Clients, Begin(c),
           entries' = [EntriesIn(job[c].seen) EXCEPT ![Key(c)] = Nil],
           InflightIn(job[c].seen)[Key(c)] # None,
           Goes(c, [To(c, "wait") EXCEPT !.flight = InflightIn(job[c].seen)[Key(c)]]),
           inflight' = InflightIn(job[c].seen), flights' = FlightsIn(job[c].seen)
    PROVE  IInv'
  <1> DEFINE s == job[c].seen
             f == InflightIn(s)[Key(c)]
  <1>1. /\ job[c] \in Job /\ JobOK(job[c]) /\ job[c].host \in Hosts
        /\ s \in Tunnels /\ s \in Nat /\ s <= tunnel.id
        /\ Key(c) \in Keys /\ UNCHANGED <<tunnel, permits, lost>>
    BY Beginner
  <1>2. scope = s /\ f = inflight[Key(c)] /\ f # None
    BY <1>1, ScopeKept
  <1>3. scope' = scope /\ inflight' = inflight /\ flights' = flights
    BY <1>2 DEF Begin, InflightIn, FlightsIn
  <1>4. f \in Flights /\ ~Querying(c) /\ job[c].flight = None
    BY <1>1, <1>2 DEF IInv, Typed, Querying, Begin, At, JobOK, Holding
  <1>5. PICK r : job' = [job EXCEPT ![c] = r] /\ r = [To(c, "wait") EXCEPT !.flight = f]
    BY DEF Goes
  <1>6. r \in Job /\ r.at = "wait" /\ r.flight = f /\ r.seen = s /\ r.host = job[c].host
    BY <1>1, <1>4, <1>5 DEF To, Job, Points
  <1>7. HostKnown(r) /\ JobOK(r)
    BY <1>1, <1>2, <1>4, <1>6, ProxyAssumption DEF HostKnown, JobOK, Holding, Tunnels, Nil
  <1>8. \A d \in Clients : job'[d] = IF d = c THEN r ELSE job[d]
    BY <1>5 DEF IInv, Typed
  <1>9. \A d \in Clients : Querying(d)' <=> d # c /\ Querying(d)
    BY <1>6, <1>8 DEF Querying
  <1>10. \A d \in Clients, k \in Keys : d # c => (Key(d) = k)' = (Key(d) = k)
    BY <1>8 DEF Key
  <1>11. \A d \in Clients : d # c => (At(d, "wait"))' = At(d, "wait")
    BY <1>8 DEF At
  <1>12. NobodyWaitsInVain'
    <2>1. ASSUME NEW k \in Keys, inflight[k] # None
          PROVE  /\ ~flights[inflight[k]].set
                 /\ \E o \in Clients : /\ Querying(o)' /\ job'[o].flight = inflight[k]
                                       /\ (Key(o) = k)'
      BY <1>4, <1>8, <1>9, <1>10, <2>1 DEF IInv, FlightsOK, NobodyWaitsInVain
    <2>2. ASSUME NEW d \in Clients, At(d, "wait")', ~flights[job'[d].flight].set
          PROVE  \E o \in Clients : Querying(o)' /\ job'[o].flight = job'[d].flight
      <3>1. CASE d = c
        BY <1>1, <1>2, <1>6, <1>8, <2>1, <3>1
      <3>2. CASE d # c
        BY <1>4, <1>8, <1>9, <1>11, <2>2, <3>2 DEF IInv, FlightsOK, NobodyWaitsInVain
      <3> QED
        BY <3>1, <3>2
    <2> QED
      BY <1>3, <2>1, <2>2 DEF NobodyWaitsInVain
  <1>13. FlightsOK'
    <2>1. \A d \in Clients : job'[d].flight # None =>
              /\ \A k \in Keys : inflight[k] = job'[d].flight => job'[d].seen = scope
              /\ \/ flights[job'[d].flight].address = Nil
                 \/ job'[d].seen <= flights[job'[d].flight].address
      BY <1>1, <1>2, <1>6, <1>8 DEF IInv, FlightsOK
    <2>2. \A d, e \in Clients : job'[d].flight # None /\ job'[d].flight = job'[e].flight
              => job'[d].seen = job'[e].seen
      BY <1>1, <1>2, <1>6, <1>8 DEF IInv, FlightsOK
    <2> QED
      BY <1>3, <1>8, <1>9, <1>12, <2>1, <2>2 DEF IInv, FlightsOK
  <1>14. /\ job' \in [Clients -> Job] /\ \A d \in Clients : HostKnown(job[d])'
         /\ \A d \in Clients : JobOK(job[d])'
    BY <1>1, <1>5, <1>6, <1>7, ThreadReplaced
  <1>15. entries' \in [Keys -> {Nil} \cup Tunnels] /\ CacheOfScope'
    BY <1>1, <1>2, <1>3, ScopeKept DEF CacheOfScope
  <1>16. Typed'
    BY <1>1, <1>3, <1>14, <1>15 DEF IInv, Typed, HostKnown
  <1> QED
    BY <1>13, <1>14, <1>15, <1>16 DEF IInv

\* The thread asks itself, with a flight that nobody holds.
LEMMA BeginAsks ==
    ASSUME IInv, NEW c \in Clients, Begin(c), NEW f \in Unused,
           entries' = [EntriesIn(job[c].seen) EXCEPT ![Key(c)] = Nil],
           Goes(c, [To(c, "query") EXCEPT !.flight = f]),
           flights' = [FlightsIn(job[c].seen) EXCEPT ![f] = [set |-> FALSE, address |-> Nil]],
           \/ inflight' = [InflightIn(job[c].seen) EXCEPT ![Key(c)] = f]
           \/ inflight' = InflightIn(job[c].seen)
    PROVE  IInv'
  <1> DEFINE s == job[c].seen
             k == Key(c)
  <1>1. /\ job[c] \in Job /\ JobOK(job[c]) /\ job[c].host \in Hosts
        /\ s \in Tunnels /\ s \in Nat /\ s <= tunnel.id
        /\ k \in Keys /\ UNCHANGED <<tunnel, permits, lost>>
    BY Beginner
  <1>2. f \in Flights /\ f # None /\ \A d \in Clients : job[d].flight # f
    BY ProxyAssumption DEF Unused
  <1>3. \A j \in Keys : inflight[j] # f
    BY DEF Unused, Registered
  <1>4. scope' = s /\ ~Querying(c) /\ job[c].flight = None /\ ~At(c, "wait")
    BY <1>1 DEF Querying, Begin, At, JobOK, Holding
  <1>5. PICK r : job' = [job EXCEPT ![c] = r] /\ r = [To(c, "query") EXCEPT !.flight = f]
    BY DEF Goes
  <1>6. r \in Job /\ r.at = "query" /\ r.flight = f /\ r.seen = s
        /\ r.host = job[c].host /\ r.ask = job[c].ask
    BY <1>1, <1>2, <1>5 DEF To, Job, Points
  <1>7. HostKnown(r) /\ JobOK(r)
    BY <1>1, <1>2, <1>6, ProxyAssumption DEF HostKnown, JobOK, Holding, Tunnels, Nil
  <1>8. \A d \in Clients : job'[d] = IF d = c THEN r ELSE job[d]
    BY <1>5 DEF IInv, Typed
  <1>9. \A d \in Clients : Querying(d)' <=> d = c \/ Querying(d)
    BY <1>6, <1>8 DEF Querying
  <1>10. \A d \in Clients, j \in Keys : (Key(d) = j)' = (Key(d) = j)
    BY <1>6, <1>8 DEF Key
  <1>11. \A d \in Clients : (At(d, "wait"))' => d # c /\ At(d, "wait")
    BY <1>6, <1>8 DEF At
  <1>12. \A d \in Clients : job[d].flight \in Flights \cup {None}
    BY DEF IInv, Typed, Job
  <1>13. /\ inflight' \in [Keys -> Flights \cup {None}]
         /\ \A j \in Keys : /\ inflight'[j] = f => j = k
                            /\ inflight'[j] \notin {None, f} =>
                                   scope = s /\ inflight'[j] = inflight[j]
    BY <1>1, <1>2, <1>3, ScopeKept
  <1>14. /\ flights' \in [Flights -> [set : BOOLEAN, address : {Nil} \cup Tunnels]]
         /\ ~flights'[f].set /\ flights'[f].address = Nil
    BY <1>1, <1>2, ScopeKept DEF Nil
  <1>15. \A g \in Flights : g # f => /\ flights'[g].address = flights[g].address
                                     /\ ~flights'[g].set => ~flights[g].set
                                     /\ scope = s => flights'[g] = flights[g]
    BY DEF FlightsIn, IInv, Typed
  <1>16. NobodyWaitsInVain'
    <2>1. ASSUME NEW j \in Keys, inflight'[j] # None
          PROVE  /\ ~flights'[inflight'[j]].set
                 /\ \E o \in Clients : /\ Querying(o)' /\ job'[o].flight = inflight'[j]
                                       /\ (Key(o) = j)'
      <3>1. CASE inflight'[j] = f
        BY <1>6, <1>8, <1>9, <1>10, <1>13, <1>14, <3>1
      <3>2. CASE inflight'[j] # f
        <4>1. scope = s /\ inflight'[j] = inflight[j] /\ inflight[j] \in Flights
          BY <1>13, <2>1, <3>2
        <4>2. PICK o \in Clients : Querying(o) /\ job[o].flight = inflight[j] /\ Key(o) = j
          BY <2>1, <4>1 DEF IInv, FlightsOK, NobodyWaitsInVain
        <4>3. ~flights[inflight[j]].set
          BY <2>1, <4>1 DEF IInv, FlightsOK, NobodyWaitsInVain
        <4> QED
          BY <1>4, <1>8, <1>9, <1>10, <1>15, <3>2, <4>1, <4>2, <4>3
      <3> QED
        BY <3>1, <3>2
    <2>2. ASSUME NEW d \in Clients, At(d, "wait")', ~flights'[job'[d].flight].set
          PROVE  \E o \in Clients : Querying(o)' /\ job'[o].flight = job'[d].flight
      <3>1. d # c /\ At(d, "wait") /\ job'[d] = job[d]
        BY <1>8, <1>11, <2>2
      <3>2. job[d].flight \in Flights /\ job[d].flight # f
        BY <1>2, <1>12, <3>1 DEF IInv, JobOK, Holding, At
      <3>3. PICK o \in Clients : Querying(o) /\ job[o].flight = job[d].flight
        BY <1>15, <2>2, <3>1, <3>2 DEF IInv, FlightsOK, NobodyWaitsInVain
      <3> QED
        BY <1>4, <1>8, <1>9, <3>1, <3>3
    <2> QED
      BY <2>1, <2>2 DEF NobodyWaitsInVain
  <1>17. FlightsOK'
    <2>1. ASSUME NEW d \in Clients, job'[d].flight # None
          PROVE  /\ \A j \in Keys : inflight'[j] = job'[d].flight => job'[d].seen = s
                 /\ \/ flights'[job'[d].flight].address = Nil
                    \/ job'[d].seen <= flights'[job'[d].flight].address
      <3>1. CASE d = c
        BY <1>6, <1>8, <1>14, <3>1
      <3>2. CASE d # c
        BY <1>2, <1>8, <1>12, <1>13, <1>15, <2>1, <3>2 DEF IInv, FlightsOK
      <3> QED
        BY <3>1, <3>2
    <2>2. \A d, e \in Clients : job'[d].flight # None /\ job'[d].flight = job'[e].flight
              => job'[d].seen = job'[e].seen
      BY <1>2, <1>6, <1>8 DEF IInv, FlightsOK
    <2>3. ASSUME NEW j \in Keys, inflight'[j] # None
          PROVE  flights'[inflight'[j]].address = Nil \/ s <= flights'[inflight'[j]].address
      BY <1>13, <1>14, <1>15, <2>3 DEF IInv, FlightsOK
    <2>4. \A d, e \in Clients : Querying(d)' /\ Querying(e)' /\ job'[d].flight = job'[e].flight
              => d = e
      BY <1>2, <1>6, <1>8, <1>9 DEF IInv, FlightsOK
    <2> QED
      BY <1>4, <1>16, <2>1, <2>2, <2>3, <2>4 DEF FlightsOK
  <1>18. /\ job' \in [Clients -> Job] /\ \A d \in Clients : HostKnown(job[d])'
         /\ \A d \in Clients : JobOK(job[d])'
    BY <1>1, <1>5, <1>6, <1>7, ThreadReplaced
  <1>19. entries' \in [Keys -> {Nil} \cup Tunnels] /\ CacheOfScope'
    BY <1>1, <1>4, ScopeKept DEF CacheOfScope
  <1>20. Typed'
    BY <1>1, <1>4, <1>13, <1>14, <1>18, <1>19 DEF IInv, Typed, HostKnown
  <1> QED
    BY <1>17, <1>18, <1>19, <1>20 DEF IInv

LEMMA BeginStep ==
    ASSUME IInv, NEW c \in Clients, Begin(c)
    PROVE  IInv'
  BY BeginKnows, BeginJoins, BeginAsks DEF Begin

\* The owner has an answer, or none; its flight is set and leaves the cache.
LEMMA FinishStep ==
    ASSUME IInv, NEW c \in Clients, Finish(c)
    PROVE  IInv'
  <1> DEFINE f    == job[c].flight
             k    == Key(c)
             a    == job[c].address
             r    == Answered(c, a)
             mine == scope = job[c].seen /\ inflight[k] = f
  <1>1. /\ job[c] \in Job /\ JobOK(job[c]) /\ job[c].host \in Hosts
        /\ job[c].seen \in Tunnels /\ job[c].seen \in Nat /\ job[c].seen <= tunnel.id
        /\ k \in Keys /\ UNCHANGED <<tunnel, permits, lost>>
    BY Beginner
  <1>2. /\ At(c, "finish") /\ Querying(c) /\ scope' = scope
        /\ inflight' = IF mine THEN [inflight EXCEPT ![k] = None] ELSE inflight
        /\ flights' = [flights EXCEPT ![f] = [set |-> TRUE, address |-> a]]
    BY DEF Finish, Querying, At
  <1>3. f \in Flights /\ f # None /\ a \in {Nil} \cup Tunnels
    BY <1>1, <1>2, ProxyAssumption DEF Job, JobOK, Holding, At
  <1>4. (a # Nil => job[c].seen <= a) /\ (job[c].keep => a = job[c].seen)
    BY <1>1, <1>2 DEF JobOK, At
  <1>5. /\ r \in Job /\ r.flight = None /\ r.seen = job[c].seen
        /\ r.at \in {"ask", "connect"}
        /\ r.at = "ask" => r.host = job[c].host
        /\ r.at = "connect" => r.address = a
    BY <1>1, <1>3, AnsweredJob
  <1>6. HostKnown(r) /\ JobOK(r)
    BY <1>1, <1>4, <1>5 DEF HostKnown, JobOK, Holding
  <1>7. job' = [job EXCEPT ![c] = r]
    BY DEF Finish, Goes
  <1> HIDE DEF r
  <1>8. \A d \in Clients : job'[d] = IF d = c THEN r ELSE job[d]
    BY <1>7 DEF IInv, Typed
  <1>9. \A d \in Clients : Querying(d)' <=> d # c /\ Querying(d)
    BY <1>5, <1>8 DEF Querying
  <1>10. \A d \in Clients, j \in Keys : d # c => (Key(d) = j)' = (Key(d) = j)
    BY <1>8 DEF Key
  <1>11. \A d \in Clients : (At(d, "wait"))' => d # c /\ At(d, "wait")
    BY <1>5, <1>8 DEF At
  <1>12. /\ inflight' \in [Keys -> Flights \cup {None}]
         /\ \A j \in Keys : inflight'[j] # None => inflight'[j] = inflight[j]
    BY <1>1, <1>2 DEF IInv, Typed
  <1>13. \A j \in Keys : inflight'[j] # f
    <2> SUFFICES ASSUME NEW j \in Keys, inflight'[j] = f
                 PROVE  FALSE
      OBVIOUS
    <2>1. inflight[j] = f
      BY <1>3, <1>12
    <2>2. PICK o \in Clients : Querying(o) /\ job[o].flight = f /\ Key(o) = j
      BY <1>3, <2>1 DEF IInv, FlightsOK, NobodyWaitsInVain
    <2>3. o = c
      BY <1>2, <2>2 DEF IInv, FlightsOK
    <2>4. j = k /\ job[c].seen = scope
      BY <1>3, <2>1, <2>2, <2>3 DEF IInv, FlightsOK
    <2> QED
      BY <1>1, <1>2, <1>3, <2>1, <2>4 DEF IInv, Typed
  <1>14. /\ flights' \in [Flights -> [set : BOOLEAN, address : {Nil} \cup Tunnels]]
         /\ \A g \in Flights : flights'[g] =
                IF g = f THEN [set |-> TRUE, address |-> a] ELSE flights[g]
    BY <1>2, <1>3 DEF IInv, Typed
  <1>15. \A d \in Clients : job[d].flight \in Flights \cup {None}
    BY DEF IInv, Typed, Job
  <1>16. NobodyWaitsInVain'
    <2>1. ASSUME NEW j \in Keys, inflight'[j] # None
          PROVE  /\ ~flights'[inflight'[j]].set
                 /\ \E o \in Clients : /\ Querying(o)' /\ job'[o].flight = inflight'[j]
                                       /\ (Key(o) = j)'
      <3>1. inflight'[j] = inflight[j] /\ inflight[j] \in Flights /\ inflight[j] # f
        BY <1>12, <1>13, <2>1
      <3>2. PICK o \in Clients : Querying(o) /\ job[o].flight = inflight[j] /\ Key(o) = j
        BY <2>1, <3>1 DEF IInv, FlightsOK, NobodyWaitsInVain
      <3>3. ~flights[inflight[j]].set
        BY <2>1, <3>1 DEF IInv, FlightsOK, NobodyWaitsInVain
      <3> QED
        BY <1>8, <1>9, <1>10, <1>14, <3>1, <3>2, <3>3
    <2>2. ASSUME NEW d \in Clients, At(d, "wait")', ~flights'[job'[d].flight].set
          PROVE  \E o \in Clients : Querying(o)' /\ job'[o].flight = job'[d].flight
      <3>1. d # c /\ At(d, "wait") /\ job'[d] = job[d]
        BY <1>8, <1>11, <2>2
      <3>2. job[d].flight \in Flights
        BY <1>15, <3>1 DEF IInv, JobOK, Holding, At
      <3>3. job[d].flight # f /\ ~flights[job[d].flight].set
        BY <1>14, <2>2, <3>1, <3>2
      <3>4. PICK o \in Clients : Querying(o) /\ job[o].flight = job[d].flight
        BY <3>1, <3>3 DEF IInv, FlightsOK, NobodyWaitsInVain
      <3> QED
        BY <1>8, <1>9, <3>1, <3>3, <3>4
    <2> QED
      BY <2>1, <2>2 DEF NobodyWaitsInVain
  <1>17. FlightsOK'
    <2>1. ASSUME NEW d \in Clients, job'[d].flight # None
          PROVE  /\ d # c /\ job'[d] = job[d]
                 /\ \A j \in Keys : inflight'[j] = job'[d].flight => job'[d].seen = scope
                 /\ \/ flights'[job'[d].flight].address = Nil
                    \/ job'[d].seen <= flights'[job'[d].flight].address
      <3>1. d # c /\ job'[d] = job[d] /\ job[d].flight \in Flights
        BY <1>5, <1>8, <1>15, <2>1
      <3>2. \A j \in Keys : inflight'[j] = job'[d].flight => job'[d].seen = scope
        BY <1>12, <2>1, <3>1 DEF IInv, FlightsOK
      <3>3. CASE job[d].flight = f
        <4>1. job[d].seen = job[c].seen
          BY <1>3, <3>3 DEF IInv, FlightsOK
        <4> QED
          BY <1>4, <1>14, <3>1, <3>2, <3>3, <4>1
      <3>4. CASE job[d].flight # f
        BY <1>14, <2>1, <3>1, <3>2, <3>4 DEF IInv, FlightsOK
      <3> QED
        BY <3>3, <3>4
    <2>2. \A d, e \in Clients : job'[d].flight # None /\ job'[d].flight = job'[e].flight
              => job'[d].seen = job'[e].seen
      BY <2>1 DEF IInv, FlightsOK
    <2>3. ASSUME NEW j \in Keys, inflight'[j] # None
          PROVE  flights'[inflight'[j]].address = Nil \/ scope <= flights'[inflight'[j]].address
      BY <1>12, <1>13, <1>14, <2>3 DEF IInv, FlightsOK
    <2>4. \A d, e \in Clients : Querying(d)' /\ Querying(e)' /\ job'[d].flight = job'[e].flight
              => d = e
      BY <1>8, <1>9 DEF IInv, FlightsOK
    <2> QED
      BY <1>2, <1>16, <2>1, <2>2, <2>3, <2>4 DEF FlightsOK
  <1>18. /\ job' \in [Clients -> Job] /\ \A d \in Clients : HostKnown(job[d])'
         /\ \A d \in Clients : JobOK(job[d])'
    BY <1>1, <1>5, <1>6, <1>7, ThreadReplaced
  <1>19. entries' \in [Keys -> {Nil} \cup Tunnels] /\ CacheOfScope'
    <2>1. CASE UNCHANGED entries
      BY <1>2, <2>1 DEF IInv, Typed, CacheOfScope
    <2>2. ASSUME mine, job[c].keep, NEW x, entries' = Stored(k, a, x)
          PROVE  <1>19!:
      BY <1>1, <1>2, <1>3, <1>4, <2>2 DEF IInv, Typed, CacheOfScope, Stored, Nil
    <2> QED
      BY <2>1, <2>2 DEF Finish
  <1>20. Typed'
    BY <1>1, <1>2, <1>12, <1>14, <1>18, <1>19 DEF IInv, Typed, HostKnown
  <1> QED
    BY <1>17, <1>18, <1>19, <1>20 DEF IInv

LEMMA InitInv == Init => IInv
  <1> SUFFICES ASSUME Init PROVE IInv
    OBVIOUS
  <1>1. Idle \in Job /\ Idle.at = "idle" /\ Idle.flight = None /\ Idle.seen = Nil
        /\ Idle.address = Nil
    BY ProxyAssumption DEF Idle, Job, Points
  <1>2. tunnel.id = 1 /\ 1 \in Tunnels /\ MaxConnections \in Nat /\ 0 \in 0..MaxLost
    BY ProxyAssumption DEF Init, Tunnels
  <1>3. \A c \in Clients : job[c] = Idle
    BY DEF Init
  <1>4. Typed
    BY <1>1, <1>2, <1>3 DEF Typed, Init, Nil
  <1>5. ASSUME NEW c \in Clients
        PROVE  JobOK(job[c])
    BY <1>1, <1>2, <1>3 DEF JobOK, Holding, Nil
  <1>6. FlightsOK
    BY <1>1, <1>3 DEF FlightsOK, NobodyWaitsInVain, Querying, At, Init
  <1> QED
    BY <1>4, <1>5, <1>6 DEF IInv, CacheOfScope, Init

LEMMA NextInv == IInv /\ [Next]_vars => IInv'
  BY ConnectionSteps, AnswerSteps, LookupSteps, QuestionSteps, OtherSteps, BeginStep, FinishStep
  DEF Next

LEMMA Invariant == Spec => []IInv
  BY InitInv, NextInv, PTL DEF Spec

\* The cache holds only addresses from the tunnel it is kept for, and a connection uses
\* none older than the tunnel its thread saw when it asked, by way of the cache, of the
\* thread's own question or of that of another thread.
THEOREM NeverOlderCorrect == Spec => []NeverOlder
  <1>1. IInv => NeverOlder
    <2> SUFFICES ASSUME IInv, NEW c \in Clients, At(c, "connect"), job[c].address # Nil
                 PROVE  job[c].address >= job[c].seen
      BY DEF NeverOlder, IInv
    <2>1. job[c].seen \in Nat /\ job[c].address \in Nat
      BY ProxyAssumption DEF IInv, Typed, Job, Nil, Tunnels
    <2> QED
      BY <2>1 DEF IInv, JobOK, At
  <1> QED
    BY <1>1, Invariant, PTL

\* Whoever waits for the answer to a question waits for a thread that asks it, however
\* often the tunnel and with it the scope of the cache changes meanwhile.
THEOREM NobodyWaitsInVainCorrect == Spec => []NobodyWaitsInVain
  <1>1. IInv => NobodyWaitsInVain
    BY DEF IInv, FlightsOK
  <1> QED
    BY <1>1, Invariant, PTL

----------------------------------------------------------------------------
(* Permits.                                                                 *)

Busy == {c \in Clients : ~At(c, "idle")}

\* A thread that is at work stays so.
LEMMA BusyStays ==
    ASSUME Typed, NEW c \in Clients, ~At(c, "idle"), NEW r, r.at # "idle",
           job' = [job EXCEPT ![c] = r]
    PROVE  Busy' = Busy
  BY DEF Typed, Busy, At

LEMMA OthersStayBusy ==
    ASSUME Typed, NEW c \in Clients,
           \/ Request(c) \/ Connect(c) \/ Look(c) \/ Forget(c) \/ Lookup(c) \/ Ask(c) \/ Drop(c)
           \/ Bare(c) \/ Begin(c) \/ Query(c) \/ Compare(c) \/ Finish(c)
           \/ Wake(c) \/ Read(c) \/ TimeOut(c)
    PROVE  Busy' = Busy /\ permits' = permits /\ lost' = lost
  <1>1. /\ ~At(c, "idle") /\ permits' = permits /\ lost' = lost
    BY DEF Request, Connect, Look, Forget, Lookup, Ask, Drop, Bare, Begin, Query, Compare,
           Finish, Wake, Read, TimeOut, At
  <1>2. job[c] \in Job
    BY DEF Typed
  <1>3. \A a : Resolved(c, a).at = "connect"
    BY DEF Resolved, Idle
  <1>4. NextQuestion(c).at # "idle" /\ \A a : Answered(c, a).at # "idle"
    BY <1>3 DEF NextQuestion, Answered, Idle
  <1>5. \A p \in Points : To(c, p) \in Job /\ To(c, p).at = p
    BY <1>2 DEF To, Job
  <1>6. ASSUME Request(c) \/ Connect(c) \/ Look(c) \/ Ask(c) \/ Query(c) \/ Compare(c)
        PROVE  \E r : Goes(c, r) /\ r.at # "idle"
    <2>1. ASSUME NEW p \in Points, p # "idle", NEW h, NEW s, NEW a, NEW b
          PROVE  /\ [To(c, p) EXCEPT !.host = h].at # "idle"
                 /\ [To(c, p) EXCEPT !.seen = s].at # "idle"
                 /\ [To(c, p) EXCEPT !.keep = b].at # "idle"
                 /\ [To(c, p) EXCEPT !.address = a, !.keep = b].at # "idle"
      BY <1>5, <2>1 DEF Job
    <2>2. {"look", "forget", "cached", "drop", "begin", "compare", "finish", "connect"}
          \subseteq Points \ {"idle"}
      BY DEF Points
    <2>3. [Idle EXCEPT !.at = "relay"].at = "relay"
      BY DEF Idle
    <2>4. CASE Request(c)
      <3>1. CASE \E h \in Hosts : Goes(c, [To(c, "look") EXCEPT !.host = h])
        <4>1. \A h : [To(c, "look") EXCEPT !.host = h].at # "idle"
          BY <2>1, <2>2
        <4> QED
          BY <3>1, <4>1
      <3>2. CASE Goes(c, To(c, "connect"))
        <4>1. To(c, "connect").at = "connect"
          BY <1>5 DEF Points
        <4> QED
          BY <3>2, <4>1
      <3> QED
        BY <2>4, <3>1, <3>2 DEF Request
    <2>5. CASE Connect(c)
      BY <2>3, <2>5 DEF Connect
    <2>6. CASE Look(c) \/ Ask(c)
      BY <2>1, <2>2, <2>6 DEF Look, Ask
    <2>7. CASE Query(c)
      BY <2>1, <2>2, <2>7 DEF Query
    <2>8. CASE Compare(c)
      BY <2>1, <2>2, <2>8 DEF Compare
    <2> QED
      BY <1>6, <2>4, <2>5, <2>6, <2>7, <2>8
  <1>7. ASSUME Forget(c) \/ Drop(c) \/ Bare(c) \/ Finish(c) \/ Wake(c) \/ Read(c) \/ TimeOut(c)
        PROVE  \E r : Goes(c, r) /\ r.at # "idle"
    <2>1. {"ask", "bare", "wake"} \subseteq Points
      BY DEF Points
    <2> QED
      BY <1>4, <1>5, <1>7, <2>1 DEF Forget, Drop, Bare, Finish, Wake, Read, TimeOut
  <1>8. ASSUME Lookup(c)
        PROVE  \E r : Goes(c, r) /\ r.at # "idle"
    <2>1. job[c].at = "cached"
      BY <1>8 DEF Lookup, At
    <2>2. [job[c] EXCEPT !.ask = @ + 1].at = "cached"
      BY <1>2, <2>1 DEF Job
    <2>3. [To(c, "ask") EXCEPT !.ask = 1].at = "ask"
      BY <1>5 DEF Job, Points
    <2> QED
      BY <1>3, <1>8, <2>2, <2>3 DEF Lookup
  <1>9. ASSUME Begin(c)
        PROVE  \E r : Goes(c, r) /\ r.at # "idle"
    <2>1. \A f : /\ [To(c, "wait") EXCEPT !.flight = f].at = "wait"
                 /\ [To(c, "query") EXCEPT !.flight = f].at = "query"
      BY <1>5 DEF Job, Points
    <2> QED
      BY <1>3, <1>9, <2>1 DEF Begin
  <1>10. PICK r : Goes(c, r) /\ r.at # "idle"
    BY <1>6, <1>7, <1>8, <1>9
  <1> QED
    BY <1>1, <1>10, BusyStays DEF Goes

LEMMA PermitsStep ==
    ASSUME IInv, PermitsBalanced, [Next]_vars
    PROVE  PermitsBalanced'
  <1>1. Typed /\ \A c \in Clients : job[c] \in Job
    BY DEF IInv, Typed
  <1>2. IsFiniteSet(Busy) /\ Cardinality(Busy) \in Nat
    BY ProxyAssumption, FS_Subset, FS_CardinalityType DEF Busy
  <1>3. permits \in Nat /\ lost \in Nat /\ MaxConnections \in Nat
        /\ permits + Cardinality(Busy) + lost = MaxConnections
    BY ProxyAssumption DEF IInv, Typed, PermitsBalanced, Busy
  <1>4. ASSUME permits' + Cardinality(Busy') + lost' = MaxConnections
        PROVE  PermitsBalanced'
    BY <1>4 DEF PermitsBalanced, Busy
  <1>5. ASSUME NEW c \in Clients, Accept(c)
        PROVE  PermitsBalanced'
    <2>1. Busy' = Busy \cup {c} /\ c \notin Busy
      BY <1>1, <1>5 DEF Busy, Accept, Goes, To, At, Typed, Job
    <2>2. Cardinality(Busy') = Cardinality(Busy) + 1
      BY <1>2, <2>1, FS_AddElement
    <2> QED
      BY <1>2, <1>3, <1>4, <1>5, <2>2 DEF Accept
  <1>6. ASSUME NEW c \in Clients, Close(c)
        PROVE  PermitsBalanced'
    <2>1. Busy' = Busy \ {c} /\ c \in Busy
      BY <1>1, <1>6 DEF Busy, Close, Goes, At, Typed, Idle
    <2>2. Cardinality(Busy') = Cardinality(Busy) - 1
      BY <1>2, <2>1, FS_RemoveElement
    <2> QED
      BY <1>2, <1>3, <1>4, <1>6, <2>2 DEF Close
  <1>7. ASSUME NEW c \in Clients, StartFails(c)
        PROVE  PermitsBalanced'
    BY <1>2, <1>3, <1>4, <1>7 DEF StartFails, Busy, At
  <1>8. ASSUME Busy' = Busy, permits' = permits, lost' = lost
        PROVE  PermitsBalanced'
    BY <1>3, <1>4, <1>8
  <1>9. CASE TunnelDown \/ TunnelUp \/ TunnelMoves \/ UNCHANGED vars
    BY <1>8, <1>9 DEF TunnelDown, TunnelUp, TunnelMoves, vars, Busy, At
  <1> QED
    BY <1>1, <1>5, <1>6, <1>7, <1>8, <1>9, OthersStayBusy DEF Next

LEMMA PermitsInvariant == Spec => []PermitsBalanced
  <1>1. Init => PermitsBalanced
    <2> SUFFICES ASSUME Init PROVE PermitsBalanced
      OBVIOUS
    <2>1. {c \in Clients : ~At(c, "idle")} = {}
      BY DEF Init, At, Idle
    <2>2. Cardinality({c \in Clients : ~At(c, "idle")}) = 0
      BY <2>1, FS_EmptySet
    <2>3. permits = MaxConnections /\ lost = 0 /\ MaxConnections \in Nat
      BY ProxyAssumption DEF Init
    <2> QED
      BY <2>2, <2>3 DEF PermitsBalanced
  <1> QED
    BY <1>1, Invariant, PermitsStep, PTL DEF Spec

\* Every permit is free, held by a connection, or was lost when its thread could not be
\* started: no way through a request, a failure or a relay keeps or doubles one.
THEOREM PermitsCorrect == Spec => []PermitsBalanced
  BY PermitsInvariant

\* The types; that no more permits are free than there are follows from their balance.
THEOREM TypeCorrect == Spec => []TypeOK
  <1>1. IInv /\ PermitsBalanced => TypeOK
    <2> SUFFICES ASSUME IInv, PermitsBalanced PROVE TypeOK
      OBVIOUS
    <2>1. Cardinality(Busy) \in Nat
      BY ProxyAssumption, FS_Subset, FS_CardinalityType DEF Busy
    <2>2. permits \in 0..MaxConnections
      BY <2>1, ProxyAssumption DEF IInv, Typed, PermitsBalanced, Busy
    <2> QED
      BY <2>2 DEF IInv, Typed, TypeOK
  <1> QED
    BY <1>1, Invariant, PermitsInvariant, PTL

----------------------------------------------------------------------------
(* Limits.                                                                  *)

Known(e)   == {k \in Keys : e[k] # Nil}
Asked(fly) == {k \in Keys : fly[k] # None}

LEMMA Fewer ==
    ASSUME NEW S \in SUBSET Keys, NEW T \in SUBSET S
    PROVE  /\ IsFiniteSet(S) /\ IsFiniteSet(T)
           /\ Cardinality(S) \in Nat /\ Cardinality(T) \in Nat
           /\ Cardinality(T) <= Cardinality(S)
  <1>1. IsFiniteSet(1..Questions)
    BY ProxyAssumption, FS_Interval
  <1>2. IsFiniteSet(Keys)
    BY <1>1, ProxyAssumption, FS_Product DEF Keys
  <1>3. IsFiniteSet(S)
    BY <1>2, FS_Subset
  <1> QED
    BY <1>3, FS_Subset, FS_CardinalityType

\* What only loses entries and flights stays within the limits.
LEMMA LosesOnly ==
    ASSUME Bounded, Known(entries') \subseteq Known(entries),
           Asked(inflight') \subseteq Asked(inflight)
    PROVE  Bounded'
  <1>1. /\ Cardinality(Known(entries')) <= Cardinality(Known(entries))
        /\ Cardinality(Known(entries')) \in Nat /\ Cardinality(Known(entries)) \in Nat
    BY Fewer DEF Known
  <1>2. /\ Cardinality(Asked(inflight')) <= Cardinality(Asked(inflight))
        /\ Cardinality(Asked(inflight')) \in Nat /\ Cardinality(Asked(inflight)) \in Nat
    BY Fewer DEF Asked
  <1>3. Cardinality(Known(entries)) <= MaxEntries /\ Cardinality(Asked(inflight)) <= MaxEntries
    BY DEF Bounded, Known, Asked
  <1>4. Cardinality(Known(entries')) <= MaxEntries /\ Cardinality(Asked(inflight')) <= MaxEntries
    BY <1>1, <1>2, <1>3, ProxyAssumption
  <1> QED
    BY <1>4 DEF Bounded, Known, Asked

\* Storing an answer evicts what is over the limit.
LEMMA EvictedFits ==
    ASSUME NEW k \in Keys, NEW address, NEW e, e = [entries EXCEPT ![k] = address],
           entries \in [Keys -> {Nil} \cup Tunnels], NEW x \in Evicted(e, k)
    PROVE  Cardinality(Known(Stored(k, address, x))) <= MaxEntries
  <1> DEFINE held == Known(e)
  <1>1. /\ x \subseteq held
        /\ Cardinality(held \ x) = IF Cardinality(held) > MaxEntries THEN MaxEntries
                                   ELSE Cardinality(held)
    BY DEF Evicted, Known
  <1>2. Known(Stored(k, address, x)) \subseteq held \ x
    BY DEF Known, Stored
  <1>3. Cardinality(held) \in Nat
    BY Fewer DEF Known
  <1>4. /\ Cardinality(Known(Stored(k, address, x))) <= Cardinality(held \ x)
        /\ Cardinality(Known(Stored(k, address, x))) \in Nat
    <2>1. held \ x \in SUBSET Keys
      BY DEF Known
    <2> QED
      BY <1>2, <2>1, Fewer
  <1>5. Cardinality(held \ x) <= MaxEntries
    BY <1>1, <1>3, ProxyAssumption
  <1>6. Cardinality(held \ x) \in Nat
    BY <1>1, <1>3, ProxyAssumption
  <1> QED
    BY <1>4, <1>5, <1>6, ProxyAssumption

LEMMA BoundedStep ==
    ASSUME IInv, Bounded, [Next]_vars
    PROVE  Bounded'
  <1>1. /\ entries \in [Keys -> {Nil} \cup Tunnels]
        /\ inflight \in [Keys -> Flights \cup {None}]
    BY DEF IInv, Typed
  <1>2. \A s : /\ Known(EntriesIn(s)) \subseteq Known(entries)
               /\ Asked(InflightIn(s)) \subseteq Asked(inflight)
               /\ EntriesIn(s) \in [Keys -> {Nil} \cup Tunnels]
               /\ InflightIn(s) \in [Keys -> Flights \cup {None}]
    BY <1>1 DEF Known, Asked, EntriesIn, InflightIn
  <1>3. ASSUME UNCHANGED cache
        PROVE  Bounded'
    BY <1>3, LosesOnly DEF cache
  <1>4. ASSUME NEW c \in Clients, Forget(c) \/ Drop(c)
        PROVE  Bounded'
    BY <1>2, <1>4, LosesOnly DEF Forget, Drop, Clear
  <1>5. ASSUME NEW c \in Clients, Lookup(c)
        PROVE  Bounded'
    <2>1. inflight' = InflightIn(job[c].seen)
      BY <1>5 DEF Lookup
    <2>2. \/ entries' = EntriesIn(job[c].seen)
          \/ entries' = [EntriesIn(job[c].seen) EXCEPT ![Key(c)] = Nil]
      BY <1>5 DEF Lookup
    <2>3. Known(entries') \subseteq Known(EntriesIn(job[c].seen))
      BY <1>2, <2>2 DEF Known
    <2> QED
      BY <1>2, <2>1, <2>3, LosesOnly
  <1>6. ASSUME NEW c \in Clients, Begin(c)
        PROVE  Bounded'
    <2> DEFINE now == EntriesIn(job[c].seen)
               fly == InflightIn(job[c].seen)
    <2>1. entries' = now \/ entries' = [now EXCEPT ![Key(c)] = Nil]
      BY <1>6 DEF Begin
    <2>2. Known(entries') \subseteq Known(entries)
      <3>1. Known(entries') \subseteq Known(now)
        BY <1>2, <2>1 DEF Known
      <3> QED
        BY <1>2, <3>1
    <2>3. \/ inflight' = fly
          \/ /\ Cardinality(Asked(fly)) < MaxEntries
             /\ \E f : inflight' = [fly EXCEPT ![Key(c)] = f]
      BY <1>6 DEF Begin, Asked
    <2>4. CASE inflight' = fly
      BY <1>2, <2>2, <2>4, LosesOnly
    <2>5. CASE /\ Cardinality(Asked(fly)) < MaxEntries
               /\ \E f : inflight' = [fly EXCEPT ![Key(c)] = f]
      <3>1. Asked(inflight') \subseteq Asked(fly) \cup {Key(c)}
        BY <1>2, <2>5 DEF Asked
      <3>2. IsFiniteSet(Asked(fly)) /\ Cardinality(Asked(fly)) \in Nat
        BY Fewer DEF Asked
      <3>3. /\ IsFiniteSet(Asked(fly) \cup {Key(c)})
            /\ Cardinality(Asked(fly) \cup {Key(c)}) <= Cardinality(Asked(fly)) + 1
            /\ Cardinality(Asked(fly) \cup {Key(c)}) \in Nat
        <4>1. /\ IsFiniteSet(Asked(fly) \cup {Key(c)})
              /\ Cardinality(Asked(fly) \cup {Key(c)}) =
                    IF Key(c) \in Asked(fly) THEN Cardinality(Asked(fly))
                    ELSE Cardinality(Asked(fly)) + 1
          <5> HIDE DEF fly
          <5> QED
            BY <3>2, FS_AddElement
        <4> QED
          BY <3>2, <4>1
      <3>4. /\ Cardinality(Asked(inflight')) <= Cardinality(Asked(fly) \cup {Key(c)})
            /\ Cardinality(Asked(inflight')) \in Nat
        <4>1. IsFiniteSet(Asked(inflight'))
          BY <3>1, <3>3, FS_Subset
        <4> QED
          BY <3>1, <3>3, <4>1, FS_Subset, FS_CardinalityType
      <3>5. Cardinality(Asked(inflight')) <= MaxEntries
        BY <2>5, <3>2, <3>3, <3>4, ProxyAssumption
      <3>6. /\ Cardinality(Known(entries')) <= Cardinality(Known(entries))
            /\ Cardinality(Known(entries')) \in Nat /\ Cardinality(Known(entries)) \in Nat
        BY <2>2, Fewer DEF Known
      <3>7. Cardinality(Known(entries')) <= MaxEntries
        BY <3>6, ProxyAssumption DEF Bounded, Known
      <3> QED
        BY <3>5, <3>7 DEF Bounded, Known, Asked
    <2> HIDE DEF now, fly
    <2> QED
      BY <2>3, <2>4, <2>5
  <1>7. ASSUME NEW c \in Clients, Finish(c)
        PROVE  Bounded'
    <2>1. Asked(inflight') \subseteq Asked(inflight)
      BY <1>1, <1>7 DEF Finish, Asked
    <2>2. Key(c) \in Keys
      BY <1>7 DEF IInv, Typed, Finish, At, Key, Keys, Job
    <2>3. \/ entries' = entries
          \/ \E x \in Evicted([entries EXCEPT ![Key(c)] = job[c].address], Key(c)) :
                entries' = Stored(Key(c), job[c].address, x)
      BY <1>7 DEF Finish
    <2>4. CASE entries' = entries
      BY <2>1, <2>4, LosesOnly
    <2>5. CASE \E x \in Evicted([entries EXCEPT ![Key(c)] = job[c].address], Key(c)) :
                  entries' = Stored(Key(c), job[c].address, x)
      <3>1. Cardinality(Known(entries')) <= MaxEntries
        BY <1>1, <2>2, <2>5, EvictedFits
      <3>2. /\ Cardinality(Asked(inflight')) <= Cardinality(Asked(inflight))
            /\ Cardinality(Asked(inflight')) \in Nat /\ Cardinality(Asked(inflight)) \in Nat
        BY <2>1, Fewer DEF Asked
      <3>3. Cardinality(Asked(inflight')) <= MaxEntries
        BY <3>2, ProxyAssumption DEF Bounded, Asked
      <3> QED
        BY <3>1, <3>3 DEF Bounded, Known, Asked
    <2> QED
      BY <2>3, <2>4, <2>5
  <1>8. ASSUME NEW c \in Clients,
               \/ Accept(c) \/ StartFails(c) \/ Request(c) \/ Connect(c) \/ Close(c)
               \/ Look(c) \/ Ask(c) \/ Bare(c) \/ Query(c) \/ Compare(c)
               \/ Wake(c) \/ Read(c) \/ TimeOut(c)
        PROVE  UNCHANGED cache
    BY <1>8 DEF Accept, StartFails, Request, Connect, Close, Look, Ask, Bare, Query,
                Compare, Wake, Read, TimeOut, cache
  <1>9. ASSUME TunnelDown \/ TunnelUp \/ TunnelMoves
        PROVE  UNCHANGED cache
    BY <1>9 DEF TunnelDown, TunnelUp, TunnelMoves, cache
  <1>10. CASE UNCHANGED vars
    BY <1>3, <1>10 DEF vars
  <1> QED
    BY <1>3, <1>4, <1>5, <1>6, <1>7, <1>8, <1>9, <1>10 DEF Next

\* Neither the answers kept nor the questions under way outgrow the limit of the cache:
\* begin registers a flight only below it, and finish evicts down to it.
THEOREM BoundedCorrect == Spec => []Bounded
  <1>1. Init => Bounded
    <2> SUFFICES ASSUME Init PROVE Bounded
      OBVIOUS
    <2>1. Known(entries) = {} /\ Asked(inflight) = {}
      BY DEF Init, Known, Asked
    <2>2. Cardinality({}) = 0
      BY FS_EmptySet
    <2> QED
      BY <2>1, <2>2, ProxyAssumption DEF Bounded, Known, Asked
  <1> QED
    BY <1>1, Invariant, BoundedStep, PTL DEF Spec

=============================================================================
