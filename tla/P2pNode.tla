------------------------------ MODULE P2pNode -------------------------------
(***************************************************************************)
(* P2pRpc: callers that send commands to the loop that owns the swarm and  *)
(* wait a while for the answer, the tables in which the loop keeps senders *)
(* of answers, relay-private mode, and the peer cache from which the node  *)
(* starts again.                                                           *)
(*                                                                         *)
(* libp2p answers every request and ends every query, in any order and any *)
(* time later.  A handler of an incoming request runs inside the loop.     *)
(***************************************************************************)
EXTENDS Naturals, Sequences

CONSTANTS Threads,
          None,
          Addresses,     \* [circuit, relay, last]: multiaddrs as far as they matter
          Heard,         \* those that peers say they listen on
          Invited,       \* the bootstrap addresses of an invitation
          Clients,       \* sets of calls: what the callers of a behaviour make use of
          MaxEntries,    \* MAX_PEER_CACHE_ENTRIES
          MaxCalls, MaxStarts, MaxHandled    \* bounds

ASSUME P2pAssumption ==
    /\ Invited \in Seq({Invited[i] : i \in DOMAIN Invited}) /\ Invited # <<>>
    /\ MaxEntries \in Nat

VARIABLES
    running,    \* "off", "open" or "relay": the P2pRpc there is, and relay_private
    relays,     \* privacy_relays
    peers,      \* addresses in `peers', in the order they were added
    swarm,      \* addresses given to the swarm: dialled, listened on, known
    queue,      \* commands on their way to the loop
    senders,    \* ids in pending, provider_queries and providing_queries
    live,       \* [id, kind]: requests and queries libp2p works on
    busy,       \* the loop is in a handler
    call,       \* call[t]: None or the call t waits for
    cache,      \* the peer cache file: None or a sequence of addresses
    failed,     \* history: why starts failed, <<mode, reason, entries in the cache>>
    client,     \* the member of Clients the callers follow
    calls, starts, handled

endpoint == <<running, relays, peers, swarm, busy>>
loop == <<queue, senders, live>>
counts == <<client, calls, starts, handled>>
vars == <<endpoint, loop, call, cache, failed, counts>>

-----------------------------------------------------------------------------
(* Addresses *)

circuit_relay(a) == IF a.circuit THEN a.relay ELSE None

\* Variant: any relay will do.
uses_any_circuit(a) == circuit_relay(a) # None

uses_configured_circuit(a) == circuit_relay(a) \in relays

\* dial: through a configured relay, or to one.
Dialable(a) ==
    uses_configured_circuit(a) \/ (~a.circuit /\ a.last # None /\ a.last \in relays)

\* The checks of listen_on, add_peer, dial and configure_privacy_relay.
Allowed(kind, a) ==
    \/ running = "open" /\ kind # "configure"
    \/ /\ running = "relay"
       /\ \/ kind \in {"listen", "add"} /\ uses_configured_circuit(a)
          \/ kind = "dial" /\ Dialable(a)
          \/ kind = "configure" /\ ~a.circuit /\ a.last # None

-----------------------------------------------------------------------------
(* Callers *)

\* The command and the receiver of its answer; `rest' is what load_peer_cache or
\* apply_invitation_bootstrap still has to add, `serves' says a start waits for it.
Command(t, id, kind, a, rest, serves) ==
    /\ call' = [call EXCEPT ![t] = [id |-> id, answer |-> None, rest |-> rest, serves |-> serves]]
    /\ queue' = Append(queue, [id |-> id, kind |-> kind, address |-> a])

Addressed == {"listen", "dial", "add", "configure"}

\* The P2pRpc was handed out and t has no call to wait for.
Free(t) ==
    /\ running # "off" /\ call[t] = None
    /\ \A u \in Threads : call[u] # None => ~call[u].serves

\* A call that its checks let pass; configure_privacy_relay records the relay first.
Request(t, kind, a) ==
    /\ Free(t) /\ calls < MaxCalls
    /\ kind \in Addressed => Allowed(kind, a)
    /\ calls' = calls + 1
    /\ relays' = IF kind = "configure" THEN relays \cup {a.last} ELSE relays
    /\ Command(t, calls', kind, a, <<>>, FALSE)
    /\ UNCHANGED <<running, peers, swarm, busy, senders, live, cache, failed, client, starts, handled>>

\* The entries of a cache are a peer and its address, those of an invitation an
\* address that ends in the peer.
Entry(a, serves) == IF serves THEN a ELSE [a EXCEPT !.last = None]

\* The next address of a list is added, or ends the list with an error.
Add(t, id, list, serves) ==
    LET a == Entry(Head(list), serves) IN
    IF (serves \/ Head(list).last # None) /\ Allowed("add", a)
      THEN Command(t, id, "add", a, Tail(list), serves) /\ UNCHANGED <<running, failed>>
      ELSE /\ call' = [call EXCEPT ![t] = None]
           /\ running' = IF serves THEN "off" ELSE running
           /\ failed' = IF serves THEN failed \cup {<<running, "refused", Len(cache)>>} ELSE failed
           /\ UNCHANGED queue

\* apply_invitation_bootstrap
Bootstrap(t) ==
    /\ Free(t) /\ calls + Len(Invited) <= MaxCalls
    /\ calls' = calls + Len(Invited)
    /\ Add(t, calls + 1, Invited, FALSE)
    /\ UNCHANGED <<relays, peers, swarm, busy, senders, live, cache, client, starts, handled>>

\* recv_timeout returns with the answer, or without it.
Return(t) ==
    LET c == call[t] IN
    /\ c # None
    /\ \/ c.answer = "ok" /\ c.rest # <<>> /\ Add(t, c.id + 1, c.rest, c.serves)
       \/ /\ c.answer = "ok" => c.rest = <<>>
          /\ call' = [call EXCEPT ![t] = None]
          /\ IF c.serves /\ c.answer # "ok"
               THEN running' = "off" /\ failed' = failed \cup {<<running, "timeout", Len(cache)>>}
               ELSE UNCHANGED <<running, failed>>
          /\ UNCHANGED queue
    /\ UNCHANGED <<relays, peers, swarm, busy, senders, live, cache, counts>>

-----------------------------------------------------------------------------
(* Starting and stopping *)

\* start_client: a loop with empty tables.
Fresh ==
    /\ relays' = {} /\ peers' = <<>> /\ swarm' = {} /\ busy' = FALSE
    /\ queue' = <<>> /\ senders' = {} /\ live' = {}

\* parse_peer_cache takes this many entries; no file is no entry.
Parsed(list) == Len(list) <= MaxEntries

\* serve_p2p or serve_p2p_relay_private: a new loop, then load_peer_cache.
Start(t, mode) ==
    LET list == IF cache = None THEN <<>> ELSE cache IN
    /\ running = "off" /\ starts < MaxStarts
    /\ starts' = starts + 1
    /\ Fresh
    /\ IF Parsed(list)
         THEN /\ calls + Len(list) <= MaxCalls
              /\ calls' = calls + Len(list)
              /\ running' = mode
              /\ call' = IF list = <<>> THEN call
                         ELSE [call EXCEPT ![t] = [id |-> calls, answer |-> "ok", rest |-> list,
                                                   serves |-> TRUE]]
              /\ UNCHANGED failed
         ELSE /\ failed' = failed \cup {<<mode, "refused", Len(list)>>}
              /\ UNCHANGED <<running, call, calls>>
    /\ UNCHANGED <<cache, client, handled>>

\* The owner drops the P2pRpc when no call borrows it.  What the old loop still takes
\* before it meets Shutdown touches only tables that are gone with it.
Stop ==
    /\ running # "off"
    /\ \A t \in Threads : call[t] = None
    /\ running' = "off"
    /\ UNCHANGED <<relays, peers, swarm, busy, loop, call, cache, failed, counts>>

\* Variant: the number of entries is not compared.
Savable == TRUE

\* save_peer_cache refuses more entries than parse_peer_cache takes.
Fits == Len(peers) <= MaxEntries

SaveCache(t) ==
    /\ Free(t) /\ Fits
    /\ cache' = peers
    /\ UNCHANGED <<endpoint, loop, call, failed, counts>>

-----------------------------------------------------------------------------
(* The loop *)

\* The answer goes to the caller, if it still waits.
Answer(id, result) ==
    call' = [t \in Threads |->
        IF call[t] # None /\ call[t].id = id THEN [call[t] EXCEPT !.answer = result] ELSE call[t]]

\* A command is taken.  Requests and queries keep their sender; start_providing, the
\* swarm and gossip may fail at once.
Take ==
    LET c == Head(queue) IN
    /\ running # "off" /\ ~busy /\ queue # <<>>
    /\ queue' = Tail(queue)
    /\ \/ /\ c.kind \in {"request", "find", "provide"}
          /\ senders' = senders \cup {c.id}
          /\ live' = live \cup {[id |-> c.id, kind |-> c.kind]}
          /\ UNCHANGED <<peers, swarm, call>>
       \/ /\ c.kind \in Addressed \cup {"gossip"}
          /\ swarm' = IF c.kind \in Addressed THEN swarm \cup {c.address} ELSE swarm
          /\ peers' = IF c.kind = "add" THEN Append(peers, c.address) ELSE peers
          /\ \E result \in {"ok", "error"} :
               (c.kind = "add" => result = "ok") /\ Answer(c.id, result)
          /\ UNCHANGED <<senders, live>>
       \/ /\ c.kind = "provide"
          /\ Answer(c.id, "error")
          /\ UNCHANGED <<peers, swarm, senders, live>>
    /\ UNCHANGED <<running, relays, busy, cache, failed, counts>>

Events == running # "off" /\ ~busy

\* GetProviders progresses: providers that were found are the answer, an empty set is not.
Progress(q, found) ==
    /\ Events /\ q.kind = "find"
    /\ IF found /\ q.id \in senders
         THEN senders' = senders \ {q.id} /\ Answer(q.id, "ok")
         ELSE UNCHANGED <<senders, call>>
    /\ UNCHANGED <<endpoint, queue, live, cache, failed, counts>>

\* Variant: the end of a query without further records is not an answer.
AnsweredLast(q) == q.id \in senders /\ q.kind # "find"

\* The events that end a request or a query answer it, if nothing did before.
Answered(q) == q.id \in senders

Complete(q, result) ==
    /\ Events
    /\ live' = live \ {q}
    /\ IF Answered(q)
         THEN senders' = senders \ {q.id} /\ Answer(q.id, result)
         ELSE UNCHANGED <<senders, call>>
    /\ UNCHANGED <<endpoint, queue, cache, failed, counts>>

\* Identify is part of the behaviour except in relay-private mode; what a peer says it
\* listens on becomes an address of it.
Identify(a) ==
    /\ Events /\ running = "open"
    /\ swarm' = swarm \cup {a}
    /\ UNCHANGED <<running, relays, peers, busy, loop, call, cache, failed, counts>>

\* An incoming request is handled inside the loop, which does nothing else meanwhile.
Handle ==
    /\ Events /\ handled < MaxHandled
    /\ busy' = TRUE /\ handled' = handled + 1
    /\ UNCHANGED <<running, relays, peers, swarm, loop, call, cache, failed, client, calls, starts>>

Handled ==
    /\ running # "off" /\ busy
    /\ busy' = FALSE
    /\ UNCHANGED <<running, relays, peers, swarm, loop, call, cache, failed, counts>>

-----------------------------------------------------------------------------

Init ==
    /\ running = "off" /\ relays = {} /\ peers = <<>> /\ swarm = {} /\ busy = FALSE
    /\ queue = <<>> /\ senders = {} /\ live = {}
    /\ call = [t \in Threads |-> None] /\ client \in Clients
    /\ cache = None /\ failed = {} /\ calls = 0 /\ starts = 0 /\ handled = 0

Calls(t) ==
    \/ \E kind \in client \cap Addressed, a \in Addresses : Request(t, kind, a)
    \/ \E kind \in client \cap {"request", "find", "provide", "gossip"} : Request(t, kind, None)
    \/ "bootstrap" \in client /\ Bootstrap(t)
    \/ "save" \in client /\ SaveCache(t)
    \/ \E mode \in {"open", "relay"} : Start(t, mode)

Next ==
    \/ \E t \in Threads : Calls(t) \/ Return(t)
    \/ Stop
    \/ Take \/ Handle \/ Handled
    \/ \E a \in Heard : Identify(a)
    \/ \E q \in live, found \in BOOLEAN : Progress(q, found)
    \/ \E q \in live, result \in {"ok", "error"} : Complete(q, result)

\* The loop runs, handlers end, libp2p ends what it began (its own timeouts), and
\* recv_timeout returns.
Fairness ==
    /\ WF_vars(Take) /\ WF_vars(Handled)
    /\ WF_vars(\E q \in live, result \in {"ok", "error"} : Complete(q, result))
    /\ \A t \in Threads : WF_vars(Return(t))

Spec == Init /\ [][Next]_vars /\ Fairness

-----------------------------------------------------------------------------
(* Properties *)

\* start_relay_private: "the remote application peer is not given a direct network
\* address".  Whatever earlier runs left in the cache, an endpoint in this mode
\* dials, listens and knows peers through relays configured in this run only, apart
\* from the relays themselves.
RelayOnly ==
    running = "relay" =>
        \A a \in swarm : circuit_relay(a) \in relays \/ (~a.circuit /\ a.last \in relays)

\* A start fails for its peer cache only in relay-private mode, which has no relay
\* configured yet and so refuses any entry, or when the loop does not answer: save
\* never leaves a cache that load would not take.
StartsFromCache == \A f \in failed : f[2] = "refused" => f[1] = "relay" /\ f[3] > 0

\* Every call returns, and as long as the endpoint runs every command reaches the
\* loop and every sender leaves its table, whether or not the caller still waits.
CallsReturn ==
    /\ \A t \in Threads : (call[t] # None) ~> (call[t] = None)
    /\ \A id \in 1..MaxCalls :
         (id \in senders \/ \E i \in DOMAIN queue : queue[i].id = id) ~>
             (running = "off" \/ (id \notin senders /\ \A i \in DOMAIN queue : queue[i].id # id))
=============================================================================
