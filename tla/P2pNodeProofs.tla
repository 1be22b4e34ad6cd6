--------------------------- MODULE P2pNodeProofs ----------------------------
(***************************************************************************)
(* Proofs about P2pNode, for every set of callers and addresses, every     *)
(* limit of the cache and all the bounds.                                  *)
(***************************************************************************)
EXTENDS P2pNode, TLAPS

USE DEF endpoint, loop, counts

-----------------------------------------------------------------------------
(* Types *)

Given == {Invited[i] : i \in DOMAIN Invited}

Address == Addresses \cup Given \cup {[a EXCEPT !.last = None] : a \in Given}

Kinds == Addressed \cup {"request", "find", "provide", "gossip"}

Commands == {c \in [id : Nat, kind : Kinds, address : Address \cup {None}] :
               c.kind \in Addressed => c.address \in Address}

CallsOf == [id : Nat, answer : {None, "ok", "error"}, rest : Seq(Address), serves : BOOLEAN]

\* What is sent, kept and saved are addresses that the callers gave.  A start fails by
\* a list that load_peer_cache works through alone.
Types ==
    /\ running \in {"off", "open", "relay"}
    /\ peers \in Seq(Address)
    /\ queue \in Seq(Commands)
    /\ call \in [Threads -> CallsOf \cup {None}]
    /\ cache \in Seq(Address) \cup {None}
    /\ calls \in Nat

\* Only the lists of an invitation have addresses to pop; a cache is added as it is.
Lists ==
    \A t \in Threads : call[t] # None /\ ~call[t].serves => call[t].rest \in Seq(Given)

\* A step through the list of load_peer_cache or apply_invitation_bootstrap keeps the types.
LEMMA AddTypes ==
    ASSUME NEW t \in Threads, NEW id \in Nat, NEW list, NEW serves \in BOOLEAN,
           Types, Lists, Add(t, id, list, serves), list # <<>>,
           IF serves THEN list \in Seq(Address) ELSE list \in Seq(Given)
    PROVE  /\ running' \in {"off", "open", "relay"}
           /\ queue' \in Seq(Commands)
           /\ call' \in [Threads -> CallsOf \cup {None}]
           /\ Lists'
<1> DEFINE a == Entry(Head(list), serves)
<1>1. list \in Seq(Address) /\ Tail(list) \in Seq(Address)
  BY DEF Address
<1>2. a \in Address
  <2>1. CASE serves
    BY <2>1, <1>1 DEF Entry
  <2>2. CASE ~serves
    <3>1. Head(list) \in Given
      BY <2>2
    <3> QED
      BY <3>1, <2>2, Zenon DEF Entry, Address
  <2> QED
    BY <2>1, <2>2, Zenon
<1>3. ~serves => Tail(list) \in Seq(Given)
  OBVIOUS
<1> HIDE DEF a
<1>4. CASE Command(t, id, "add", a, Tail(list), serves) /\ UNCHANGED <<running, failed>>
  <2>1. [id |-> id, answer |-> None, rest |-> Tail(list), serves |-> serves] \in CallsOf
    BY <1>1, Zenon DEF CallsOf
  <2>2. [id |-> id, kind |-> "add", address |-> a] \in Commands
    BY <1>2, Zenon DEF Commands, Kinds, Addressed
  <2>3. queue' \in Seq(Commands) /\ running' \in {"off", "open", "relay"}
    BY <1>4, <2>2 DEF Command, Types
  <2>4. call' \in [Threads -> CallsOf \cup {None}]
    BY <1>4, <2>1, Zenon DEF Command, Types
  <2>5. Lists'
    BY <1>4, <1>3, Zenon DEF Command, Types, Lists
  <2> QED
    BY <2>3, <2>4, <2>5, Zenon
<1>5. CASE /\ call' = [call EXCEPT ![t] = None]
           /\ running' = IF serves THEN "off" ELSE running
           /\ UNCHANGED queue
  BY <1>5, Zenon DEF Types, Lists
<1> QED
  BY <1>4, <1>5, Zenon DEF Add, a

\* The types are kept by every call, by the loop and by starting and stopping.
LEMMA TypesKept ==
    ASSUME Types, Lists, [Next]_vars
    PROVE  Types' /\ Lists'
<1>1. ASSUME NEW t \in Threads, NEW kind \in Kinds, NEW a \in Addresses \cup {None},
             Request(t, kind, a), kind \in Addressed => a \in Addresses
      PROVE  Types' /\ Lists'
  <2>1. calls' \in Nat
    BY <1>1 DEF Request, Types
  <2>2. [id |-> calls', answer |-> None, rest |-> <<>>, serves |-> FALSE] \in CallsOf
    BY <2>1 DEF CallsOf
  <2>3. [id |-> calls', kind |-> kind, address |-> a] \in Commands
    BY <1>1, <2>1, Zenon DEF Commands, Address
  <2>4. queue' \in Seq(Commands)
    BY <1>1, <2>3 DEF Request, Command, Types
  <2>5. call' \in [Threads -> CallsOf \cup {None}]
    BY <1>1, <2>2, Zenon DEF Request, Command, Types
  <2>6. Lists'
    BY <1>1 DEF Request, Command, Types, Lists
  <2> QED
    BY <1>1, <2>1, <2>4, <2>5, <2>6, Zenon DEF Request, Types
<1>2. ASSUME NEW t \in Threads, Bootstrap(t) PROVE Types' /\ Lists'
  <2>1. Invited \in Seq(Given) /\ Invited # <<>>
    BY P2pAssumption, Zenon DEF Given
  <2>2. calls' \in Nat /\ calls + 1 \in Nat
    BY <1>2, <2>1 DEF Bootstrap, Types
  <2>3. /\ running' \in {"off", "open", "relay"} /\ queue' \in Seq(Commands)
        /\ call' \in [Threads -> CallsOf \cup {None}] /\ Lists'
    BY <1>2, <2>1, <2>2, AddTypes, Zenon DEF Bootstrap
  <2> QED
    BY <1>2, <2>2, <2>3, Zenon DEF Bootstrap, Types
<1>3. ASSUME NEW t \in Threads, Return(t) PROVE Types' /\ Lists'
  <2>1. call[t] \in CallsOf
    BY <1>3, Zenon DEF Return, Types
  <2>2. CASE call[t].rest # <<>> /\ Add(t, call[t].id + 1, call[t].rest, call[t].serves)
    <3>1. /\ call[t].id + 1 \in Nat /\ call[t].serves \in BOOLEAN
          /\ call[t].rest \in Seq(Address)
      BY <2>1 DEF CallsOf
    <3>2. ~call[t].serves => call[t].rest \in Seq(Given)
      BY <1>3, Zenon DEF Return, Lists
    <3>3. /\ running' \in {"off", "open", "relay"} /\ queue' \in Seq(Commands)
          /\ call' \in [Threads -> CallsOf \cup {None}] /\ Lists'
      BY <2>2, <3>1, <3>2, AddTypes, Zenon
    <3> QED
      BY <1>3, <3>3, Zenon DEF Return, Types
  <2>3. CASE /\ call' = [call EXCEPT ![t] = None] /\ UNCHANGED queue
             /\ running' \in {"off", running}
    BY <1>3, <2>3, Zenon DEF Return, Types, Lists
  <2> QED
    BY <1>3, <2>2, <2>3, Zenon DEF Return
<1>4. ASSUME NEW t \in Threads, NEW mode \in {"open", "relay"}, Start(t, mode)
      PROVE  Types' /\ Lists'
  <2> DEFINE list == IF cache = None THEN <<>> ELSE cache
  <2>1. list \in Seq(Address) /\ Len(list) \in Nat
    BY DEF Types
  <2>2. queue' \in Seq(Commands) /\ peers' \in Seq(Address)
    BY <1>4 DEF Start, Fresh
  <2>3. calls' \in Nat /\ running' \in {"off", "open", "relay"}
    BY <1>4, <2>1 DEF Start, Types
  <2>4. [id |-> calls, answer |-> "ok", rest |-> list, serves |-> TRUE] \in CallsOf
    BY <2>1, Zenon DEF CallsOf, Types
  <2>5. call' \in {call, [call EXCEPT ![t] = [id |-> calls, answer |-> "ok", rest |-> list,
                                              serves |-> TRUE]]}
    BY <1>4, Zenon DEF Start
  <2> HIDE DEF list
  <2>6. CASE UNCHANGED call
    BY <1>4, <2>2, <2>3, <2>6, Zenon DEF Start, Types, Lists
  <2>7. CASE call' = [call EXCEPT ![t] = [id |-> calls, answer |-> "ok", rest |-> list,
                                          serves |-> TRUE]]
    <3>1. call' \in [Threads -> CallsOf \cup {None}]
      BY <2>4, <2>7, Zenon DEF Types
    <3>2. \A u \in Threads : call'[u] = call[u] \/ call'[u].serves
      BY <2>7, Zenon DEF Types
    <3>3. Lists'
      BY <3>2, Zenon DEF Lists
    <3> QED
      BY <1>4, <2>2, <2>3, <3>1, <3>3, Zenon DEF Start, Types
  <2> QED
    BY <2>5, <2>6, <2>7, Zenon
<1>5. ASSUME NEW id, NEW result \in {"ok", "error"}, Answer(id, result)
      PROVE  call' \in [Threads -> CallsOf \cup {None}] /\ Lists'
  <2>1. \A t \in Threads : call[t] # None => [call[t] EXCEPT !.answer = result] \in CallsOf
    BY Zenon DEF Types, CallsOf
  <2>2. call' \in [Threads -> CallsOf \cup {None}]
    BY <1>5, <2>1, Zenon DEF Answer, Types
  <2>3. \A t \in Threads :
          call'[t] = call[t] \/ (call[t] # None /\ call'[t] = [call[t] EXCEPT !.answer = result])
    BY <1>5, Zenon DEF Answer, Types
  <2>4. \A t \in Threads : call'[t] # None => /\ call[t] # None
                                              /\ call'[t].rest = call[t].rest
                                              /\ call'[t].serves = call[t].serves
    BY <2>1, <2>3, Zenon DEF Types, CallsOf
  <2> QED
    BY <2>2, <2>4, Zenon DEF Lists
<1>6. CASE Take
  <2> DEFINE c == Head(queue)
  <2>1. c \in Commands /\ Tail(queue) \in Seq(Commands)
    BY <1>6 DEF Take, Types
  <2>2. c.kind = "add" => c.address \in Address
    BY <2>1, Zenon DEF Commands, Addressed
  <2> HIDE DEF c
  <2>3. queue' \in Seq(Commands) /\ UNCHANGED <<running, cache, calls>>
    BY <1>6, <2>1, Zenon DEF Take
  <2>4. peers' \in Seq(Address)
    <3>1. peers' = peers \/ (c.kind = "add" /\ peers' = Append(peers, c.address))
      BY <1>6, Zenon DEF Take, c
    <3> QED
      BY <3>1, <2>2 DEF Types
  <2>5. UNCHANGED call \/ \E result \in {"ok", "error"} : Answer(c.id, result)
    BY <1>6, Zenon DEF Take, c
  <2>6. call' \in [Threads -> CallsOf \cup {None}] /\ Lists'
    BY <2>5, <1>5, Zenon DEF Types, Lists
  <2> QED
    BY <2>3, <2>4, <2>6, Zenon DEF Types
<1>7. ASSUME NEW q \in live, NEW found \in BOOLEAN, Progress(q, found) PROVE Types' /\ Lists'
  BY <1>7, <1>5, Zenon DEF Progress, Types, Lists
<1>8. ASSUME NEW q \in live, NEW result \in {"ok", "error"}, Complete(q, result)
      PROVE  Types' /\ Lists'
  BY <1>8, <1>5, Zenon DEF Complete, Types, Lists
<1>9. ASSUME NEW t \in Threads, SaveCache(t) PROVE Types' /\ Lists'
  BY <1>9, Zenon DEF SaveCache, Types, Lists
<1>10. CASE Stop \/ Handle \/ Handled \/ (\E a \in Heard : Identify(a)) \/ UNCHANGED vars
  BY <1>10, Zenon DEF Stop, Handle, Handled, Identify, vars, Types, Lists
<1>11. ASSUME NEW t \in Threads, Calls(t) PROVE Types' /\ Lists'
  <2>1. CASE \E kind \in client \cap Addressed, a \in Addresses : Request(t, kind, a)
    BY <2>1, <1>1, Zenon DEF Kinds
  <2>2. CASE \E kind \in client \cap {"request", "find", "provide", "gossip"} :
               Request(t, kind, None)
    BY <2>2, <1>1, Zenon DEF Kinds, Addressed
  <2> QED
    BY <1>11, <2>1, <2>2, <1>2, <1>4, <1>9, Zenon DEF Calls
<1> QED
  BY <1>3, <1>6, <1>7, <1>8, <1>10, <1>11, Zenon DEF Next

-----------------------------------------------------------------------------
(* Relay-private mode *)

\* A way through a configured relay, or to one.
Through(a) == circuit_relay(a) \in relays \/ (~a.circuit /\ a.last \in relays)

\* RelayOnly for what is queued as well: a command may reach the loop long after
\* the check that let it pass, when its caller has given up.
Relayed ==
    running = "relay" =>
        /\ \A a \in swarm : Through(a)
        /\ \A i \in DOMAIN queue : queue[i].kind \in Addressed => Through(queue[i].address)

\* An addressed command that passes the checks, with its relay recorded, goes
\* through a relay or to one.
LEMMA AllowedThrough ==
    ASSUME NEW kind \in Addressed, NEW a, running = "relay", Allowed(kind, a),
           relays' = IF kind = "configure" THEN relays \cup {a.last} ELSE relays
    PROVE  Through(a)'
  BY Zenon DEF Allowed, uses_configured_circuit, Dialable, Through, circuit_relay, Addressed

\* A command is queued behind those that are there.
LEMMA Queued ==
    ASSUME Types, Relayed, NEW kind, NEW a, NEW id, UNCHANGED <<running, swarm>>,
           relays \subseteq relays',
           queue' = Append(queue, [id |-> id, kind |-> kind, address |-> a]),
           running = "relay" /\ kind \in Addressed => Through(a)'
    PROVE  Relayed'
<1> SUFFICES ASSUME running = "relay" PROVE Relayed'
  BY Zenon DEF Relayed
<1>1. \A b : Through(b) => Through(b)'
  BY Zenon DEF Through, circuit_relay
<1>2. \A i \in DOMAIN queue' : \/ i \in DOMAIN queue /\ queue'[i] = queue[i]
                               \/ queue'[i] = [id |-> id, kind |-> kind, address |-> a]
  BY DEF Types
<1> QED
  BY <1>1, <1>2 DEF Relayed

\* Adding from a list queues a command that passed the check, or nothing.
LEMMA AddRelayed ==
    ASSUME NEW t, NEW id, NEW list, NEW serves \in BOOLEAN, Types, Relayed,
           Add(t, id, list, serves), UNCHANGED <<relays, swarm>>
    PROVE  Relayed'
<1> DEFINE a == Entry(Head(list), serves)
<1> HIDE DEF a
<1>1. CASE Allowed("add", a) /\ Command(t, id, "add", a, Tail(list), serves) /\ UNCHANGED running
  <2>1. running = "relay" => Through(a)'
    BY <1>1, AllowedThrough, Zenon DEF Addressed
  <2> QED
    BY <1>1, <2>1, Queued, Zenon DEF Command
<1>2. CASE running' \in {"off", running} /\ UNCHANGED queue
  BY <1>2, Zenon DEF Relayed, Through, circuit_relay
<1> QED
  BY <1>1, <1>2, Zenon DEF Add, a

\* What the loop takes out of the queue went through the checks; nothing else adds
\* addresses in relay-private mode.
LEMMA RelayedKept ==
    ASSUME Types, Lists, Relayed, [Next]_vars
    PROVE  Relayed'
<1>1. ASSUME NEW t \in Threads, NEW kind, NEW a, Request(t, kind, a) PROVE Relayed'
  <2>1. running = "relay" /\ kind \in Addressed => Through(a)'
    BY <1>1, AllowedThrough, Zenon DEF Request
  <2>2. relays \subseteq relays' /\ UNCHANGED <<running, swarm>>
    BY <1>1, Zenon DEF Request
  <2> QED
    BY <1>1, <2>1, <2>2, Queued, Zenon DEF Request, Command
<1>2. ASSUME NEW t \in Threads, Bootstrap(t) PROVE Relayed'
  BY <1>2, AddRelayed, Zenon DEF Bootstrap
<1>3. ASSUME NEW t \in Threads, Return(t) PROVE Relayed'
  <2>1. call[t].serves \in BOOLEAN
    BY <1>3, Zenon DEF Return, Types, CallsOf
  <2>2. CASE Add(t, call[t].id + 1, call[t].rest, call[t].serves)
    BY <1>3, <2>1, <2>2, AddRelayed, Zenon DEF Return
  <2>3. CASE running' \in {"off", running} /\ UNCHANGED <<queue, swarm, relays>>
    BY <2>3, Zenon DEF Relayed, Through, circuit_relay
  <2> QED
    BY <1>3, <2>2, <2>3, Zenon DEF Return
<1>4. ASSUME NEW t \in Threads, NEW mode, Start(t, mode) PROVE Relayed'
  <2>1. swarm' = {} /\ queue' = <<>>
    BY <1>4, Zenon DEF Start, Fresh
  <2> QED
    BY <2>1 DEF Relayed
<1>5. CASE Take
  <2> DEFINE c == Head(queue)
  <2>1. /\ UNCHANGED <<running, relays>> /\ queue # <<>> /\ queue' = Tail(queue)
        /\ swarm' = swarm \/ (c.kind \in Addressed /\ swarm' = swarm \cup {c.address})
    BY <1>5, Zenon DEF Take
  <2>2. c = queue[1] /\ 1 \in DOMAIN queue
    BY <2>1 DEF Types
  <2>3. \A i \in DOMAIN queue' : i + 1 \in DOMAIN queue /\ queue'[i] = queue[i + 1]
    BY <2>1 DEF Types
  <2> HIDE DEF c
  <2>4. \A a : Through(a)' <=> Through(a)
    BY <2>1, Zenon DEF Through, circuit_relay
  <2> QED
    BY <2>1, <2>2, <2>3, <2>4, Zenon DEF Relayed
<1>6. ASSUME NEW a, Identify(a) PROVE Relayed'
  BY <1>6, Zenon DEF Identify, Relayed
<1>7. CASE UNCHANGED <<relays, swarm, queue>> /\ running' \in {"off", running}
  BY <1>7, Zenon DEF Relayed, Through, circuit_relay
<1>8. ASSUME NEW t \in Threads, Calls(t) PROVE Relayed'
  BY <1>8, <1>1, <1>2, <1>4, <1>7, Zenon DEF Calls, SaveCache
<1>9. CASE Stop \/ Handle \/ Handled \/ UNCHANGED vars
  BY <1>9, <1>7, Zenon DEF Stop, Handle, Handled, vars
<1>10. CASE \/ \E q \in live, found \in BOOLEAN : Progress(q, found)
            \/ \E q \in live, result \in {"ok", "error"} : Complete(q, result)
  BY <1>10, <1>7, Zenon DEF Progress, Complete
<1> QED
  BY <1>3, <1>5, <1>6, <1>8, <1>9, <1>10, Zenon DEF Next

\* RelayOnly holds whatever the callers do, whatever the caches of earlier runs hold
\* and however late the loop takes a command.
THEOREM PrivateUsesRelays == Spec => []RelayOnly
<1>1. Init => Types /\ Lists /\ Relayed
  BY DEF Init, Types, Lists, Relayed
<1>2. Types /\ Lists /\ Relayed /\ [Next]_vars => (Types /\ Lists /\ Relayed)'
  BY TypesKept, RelayedKept, Zenon
<1>3. Relayed => RelayOnly
  BY Zenon DEF Relayed, RelayOnly, Through
<1> QED
  BY <1>1, <1>2, <1>3, PTL DEF Spec

-----------------------------------------------------------------------------
(* Starts *)

\* A start works through its cache alone; the cache is not empty and does not
\* change meanwhile.
Serving ==
    /\ running = "off" => \A t \in Threads : call[t] = None
    /\ \A t \in Threads : call[t] # None /\ call[t].serves =>
         /\ cache \in Seq(Address) /\ Len(cache) > 0
         /\ \A u \in Threads \ {t} : call[u] = None
    /\ cache # None => Len(cache) <= MaxEntries

\* No other call begins while a start waits, and save keeps to the limit of load.
LEMMA ServingKept ==
    ASSUME Types, Lists, Serving, StartsFromCache, [Next]_vars
    PROVE  Serving' /\ StartsFromCache'
<1>1. ASSUME NEW t \in Threads, NEW kind, NEW a, Request(t, kind, a)
      PROVE  Serving' /\ StartsFromCache'
  BY <1>1, Zenon DEF Request, Free, Command, Types, Serving, StartsFromCache
<1>2. ASSUME NEW t \in Threads, NEW id, NEW list, NEW serves \in BOOLEAN,
             Add(t, id, list, serves), UNCHANGED cache, running # "off",
             \A u \in Threads \ {t} : call[u] # None => ~call[u].serves /\ ~serves,
             serves => cache \in Seq(Address) /\ Len(cache) > 0
      PROVE  Serving' /\ StartsFromCache'
  <2> DEFINE a == Entry(Head(list), serves)
  <2> HIDE DEF a
  <2>1. CASE Command(t, id, "add", a, Tail(list), serves) /\ UNCHANGED <<running, failed>>
    BY <1>2, <2>1, Zenon DEF Command, Types, Serving, StartsFromCache
  <2>2. CASE /\ ~(serves /\ Allowed("add", a))
             /\ call' = [call EXCEPT ![t] = None]
             /\ running' = IF serves THEN "off" ELSE running
             /\ failed' = IF serves THEN failed \cup {<<running, "refused", Len(cache)>>} ELSE failed
    <3>1. Serving'
      BY <1>2, <2>2, Zenon DEF Types, Serving
    <3>2. serves => running = "relay"
      BY <1>2, <2>2, Zenon DEF Types, Allowed
    <3> QED
      BY <1>2, <2>2, <3>1, <3>2 DEF StartsFromCache
  <2> QED
    BY <1>2, <2>1, <2>2, Zenon DEF Add, a
<1>3. ASSUME NEW t \in Threads, Bootstrap(t) PROVE Serving' /\ StartsFromCache'
  BY <1>3, <1>2, Zenon DEF Bootstrap, Free
<1>4. ASSUME NEW t \in Threads, Return(t) PROVE Serving' /\ StartsFromCache'
  <2>1. call[t] \in CallsOf /\ call[t].serves \in BOOLEAN
    BY <1>4, Zenon DEF Return, Types, CallsOf
  <2>2. running # "off" /\ UNCHANGED cache
    BY <1>4, Zenon DEF Return, Serving
  <2>3. \A u \in Threads \ {t} : call[u] # None => ~call[u].serves /\ ~call[t].serves
    BY <1>4, Zenon DEF Return, Serving
  <2>4. call[t].serves => cache \in Seq(Address) /\ Len(cache) > 0
    BY <1>4, Zenon DEF Return, Serving
  <2>5. CASE Add(t, call[t].id + 1, call[t].rest, call[t].serves)
    BY <2>1, <2>2, <2>3, <2>4, <2>5, <1>2, Zenon
  <2>6. CASE /\ call' = [call EXCEPT ![t] = None]
             /\ IF call[t].serves /\ call[t].answer # "ok"
                  THEN /\ running' = "off"
                       /\ failed' = failed \cup {<<running, "timeout", Len(cache)>>}
                  ELSE UNCHANGED <<running, failed>>
    <3>1. Serving'
      BY <2>2, <2>3, <2>6, <1>4, Zenon DEF Types, Serving, Return
    <3>2. StartsFromCache'
      BY <2>6 DEF StartsFromCache
    <3> QED
      BY <3>1, <3>2, Zenon
  <2> QED
    BY <1>4, <2>5, <2>6, Zenon DEF Return
<1>5. ASSUME NEW t \in Threads, NEW mode \in {"open", "relay"}, Start(t, mode)
      PROVE  Serving' /\ StartsFromCache'
  <2> DEFINE list == IF cache = None THEN <<>> ELSE cache
  <2>1. list \in Seq(Address) /\ Len(list) \in Nat /\ Parsed(list)
    BY P2pAssumption DEF Types, Serving, Parsed
  <2>2. /\ UNCHANGED <<failed, cache>> /\ running' = mode /\ \A u \in Threads : call[u] = None
        /\ \/ UNCHANGED call
           \/ /\ list # <<>>
              /\ call' = [call EXCEPT ![t] = [id |-> calls, answer |-> "ok", rest |-> list,
                                              serves |-> TRUE]]
    BY <1>5, <2>1, Zenon DEF Start, Serving
  <2>3. list # <<>> => cache \in Seq(Address) /\ Len(cache) > 0
    BY <2>1 DEF Types
  <2> HIDE DEF list
  <2> QED
    BY <2>2, <2>3, Zenon DEF Serving, StartsFromCache, Types
<1>6. ASSUME NEW t \in Threads, SaveCache(t) PROVE Serving' /\ StartsFromCache'
  BY <1>6, Zenon DEF SaveCache, Free, Fits, Types, Serving, StartsFromCache
<1>7. ASSUME NEW id, NEW result, Answer(id, result), UNCHANGED <<running, cache, failed>>
      PROVE  Serving' /\ StartsFromCache'
  <2>1. \A t \in Threads :
          call'[t] = call[t] \/ (call[t] # None /\ call'[t] = [call[t] EXCEPT !.answer = result])
    BY <1>7, Zenon DEF Answer, Types
  <2>2. \A t \in Threads :
          call[t] # None => [call[t] EXCEPT !.answer = result].serves = call[t].serves
    BY Zenon DEF Types, CallsOf
  <2>3. \A t \in Threads : /\ call[t] = None => call'[t] = None
                           /\ call'[t] # None => call[t] # None /\ call'[t].serves = call[t].serves
    BY <2>1, <2>2, Zenon
  <2> QED
    BY <1>7, <2>3, Zenon DEF Serving, StartsFromCache
<1>8. CASE UNCHANGED <<call, cache, failed>> /\ running' = running
  BY <1>8, Zenon DEF Serving, StartsFromCache
<1>9. CASE Stop
  BY <1>9, Zenon DEF Stop, Serving, StartsFromCache
<1>10. CASE Take
  <2>1. /\ UNCHANGED <<running, cache, failed>>
        /\ UNCHANGED call \/ \E id, result : Answer(id, result)
    BY <1>10, Zenon DEF Take
  <2> QED
    BY <2>1, <1>7, <1>8, Zenon
<1>11. CASE \/ \E q \in live, found \in BOOLEAN : Progress(q, found)
            \/ \E q \in live, result \in {"ok", "error"} : Complete(q, result)
  BY <1>11, <1>7, <1>8, Zenon DEF Progress, Complete
<1>12. CASE Handle \/ Handled \/ (\E a \in Heard : Identify(a)) \/ UNCHANGED vars
  BY <1>12, <1>8, Zenon DEF Handle, Handled, Identify, vars
<1>13. ASSUME NEW t \in Threads, Calls(t) PROVE Serving' /\ StartsFromCache'
  BY <1>13, <1>1, <1>3, <1>5, <1>6, Zenon DEF Calls
<1> QED
  BY <1>4, <1>9, <1>10, <1>11, <1>12, <1>13, Zenon DEF Next

\* A start is refused for its cache in relay-private mode only, and then for a cache
\* that is not empty: what one run saves the next one takes.
THEOREM StartsAreRefusedInPrivateOnly == Spec => []StartsFromCache
<1>1. Init => Types /\ Lists /\ Serving /\ StartsFromCache
  BY DEF Init, Types, Lists, Serving, StartsFromCache
<1>2. Types /\ Lists /\ Serving /\ StartsFromCache /\ [Next]_vars
        => (Types /\ Lists /\ Serving /\ StartsFromCache)'
  BY TypesKept, ServingKept, Zenon
<1> QED
  BY <1>1, <1>2, PTL DEF Spec
=============================================================================
