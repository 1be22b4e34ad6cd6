--------------------------- MODULE AnonymousAuth ----------------------------
(***************************************************************************)
(* AnonymousIssuer and AnonymousVerifier: scope keys that rotate with the  *)
(* epoch, the issuance allowance of members, descriptors, and tokens that  *)
(* are redeemed once.                                                      *)
(*                                                                         *)
(* Calls run in parallel.  A call is given the time its caller read before *)
(* it began, and each step below is one critical section: the clock moves  *)
(* and other calls go on between them.  Signatures cannot be forged; calls *)
(* that fail before they change anything are left out.                     *)
(***************************************************************************)
EXTENDS Naturals, FiniteSets, Sequences

CONSTANTS Threads, Members, Permissions,
          Ids,                   \* truncated ids of keys, one byte in the code
          Nonces,
          None,
          EpochSeconds,          \* CredentialPolicy::epoch_seconds
          MaxIssues,             \* max_issues_per_member_epoch
          MaxScopeKeys,          \* max_active_scope_keys
          MaxNullifiers,         \* max_nullifiers
          Given,                 \* Given[n]: the token with nonce n, [scope, valid]
          Modes,                 \* which calls are made: "issuer", "pruned", "verifier"
          MaxKeys, MaxTime, MaxCalls   \* bounds

\* The scopes of the tokens that are presented.
Presented == {Given[n].scope : n \in Nonces}

\* A key is generated for one scope; None is no thread, key or call.
ASSUME AnonymousAssumption ==
    /\ EpochSeconds \in Nat \ {0}
    /\ MaxIssues \in Nat
    /\ \A s \in Presented : s.epoch \in Nat
    /\ \A r, s \in Presented : r.key = s.key => r = s
    /\ None \notin Threads \cup [id : Ids, n : Nat]
    /\ None \notin [op : {"add"}, now : Nat, arg : Presented, at : {"key"}, old : SUBSET Presented,
                    scope : Presented \cup {None}, time : Nat]

VARIABLES
    mode, clock,
    keys,         \* OpenSslIssuerKeys: keys[id], None or a key
    scopes,       \* descriptors of the issuer
    issuance,     \* <<member, epoch, count>>
    generating,   \* key_generation: None or its holder
    made,         \* keys generated
    offered,      \* scopes of challenges that were returned
    signed,       \* history: <<member, scope, call>> signed with the key of the scope
    listed,       \* descriptors of the verifier
    origin,       \* MemoryOriginKeyStore: its keys
    nonces,       \* BoundedNonceStore: <<nonce, state, expiry>>
    uses,         \* history: uses[n], the times n was reserved at when it was redeemed
    call,         \* call[t]: None or the call in progress
    calls

issuer == <<keys, scopes, issuance, generating, made, offered, signed>>
verifier == <<listed, origin, nonces, uses>>
vars == <<mode, clock, issuer, verifier, call, calls>>

\* CredentialPolicy::epoch
epoch(now) == now \div EpochSeconds
Expiry(scope) == (scope.epoch + 1) * EpochSeconds

Expired(set, now) == {s \in set : Expiry(s) <= now}

\* A call begins; `arg' is what it was called with.
Begin(t, op, arg) ==
    /\ call[t] = None
    /\ calls < MaxCalls
    /\ calls' = calls + 1
    /\ call' = [call EXCEPT ![t] = [op |-> op, now |-> clock, arg |-> arg, at |-> "start",
                                    old |-> {}, scope |-> None, time |-> clock]]
    /\ UNCHANGED <<mode, clock, issuer, verifier>>

At(t, op, at) == call[t] # None /\ call[t].op = op /\ call[t].at = at

To(t, at) == call' = [call EXCEPT ![t].at = at]
End(t) == call' = [call EXCEPT ![t] = None]

-----------------------------------------------------------------------------
(* AnonymousIssuer *)

\* challenge takes key_generation; it and prune then collect the expired scopes.
Collect(t) ==
    /\ At(t, "challenge", "start") \/ At(t, "prune", "start")
    /\ call[t].op = "challenge" => generating = None
    /\ generating' = IF call[t].op = "challenge" THEN t ELSE generating
    /\ call' = [call EXCEPT ![t].at = "drop", ![t].old = Expired(scopes, call[t].now)]
    /\ UNCHANGED <<mode, clock, keys, scopes, issuance, made, offered, signed, verifier, calls>>

InPrune(t, at) == At(t, "challenge", at) \/ At(t, "prune", at)

\* Variant: an expired scope keeps its private key.
DropKeyLeft(t) ==
    /\ InPrune(t, "drop")
    /\ \E s \in call[t].old : call' = [call EXCEPT ![t].at = "unlist", ![t].scope = s]
    /\ UNCHANGED <<mode, clock, issuer, verifier, calls>>

\* prune removes the private key of an expired scope by its id ...
DropKey(t) ==
    /\ InPrune(t, "drop")
    /\ \E s \in call[t].old :
         /\ keys' = [keys EXCEPT ![s.key.id] = None]
         /\ call' = [call EXCEPT ![t].at = "unlist", ![t].scope = s]
    /\ UNCHANGED <<mode, clock, scopes, issuance, generating, made, offered, signed, verifier,
                   calls>>

\* ... and then its descriptor.
DropScope(t) ==
    /\ InPrune(t, "unlist")
    /\ scopes' = scopes \ {call[t].scope}
    /\ call' = [call EXCEPT ![t].at = "drop", ![t].old = @ \ {call[t].scope}]
    /\ UNCHANGED <<mode, clock, keys, issuance, generating, made, offered, signed, verifier, calls>>

\* At last it forgets the counters of past epochs.
DropCounters(t) ==
    /\ InPrune(t, "drop") /\ call[t].old = {}
    /\ issuance' = {c \in issuance : c[2] >= epoch(call[t].now)}
    /\ IF call[t].op = "prune" THEN End(t) ELSE To(t, "find")
    /\ UNCHANGED <<mode, clock, keys, scopes, generating, made, offered, signed, verifier, calls>>

Wanted(t, s) == s.permission = call[t].arg /\ s.epoch = epoch(call[t].now)

\* challenge returns the scope of this epoch, or gives up at the limit of keys, or
\* generates a key until its id is free.
Find(t) ==
    /\ At(t, "challenge", "find")
    /\ \/ /\ \E s \in scopes : Wanted(t, s)
          /\ offered' = offered \cup {s \in scopes : Wanted(t, s)}
          /\ generating' = None
          /\ End(t)
          /\ UNCHANGED <<keys, made>>
       \/ /\ ~ \E s \in scopes : Wanted(t, s)
          /\ Cardinality(scopes) >= MaxScopeKeys \/ \A i \in Ids : keys[i] # None
          /\ generating' = None
          /\ End(t)
          /\ UNCHANGED <<keys, made, offered>>
       \/ /\ ~ \E s \in scopes : Wanted(t, s)
          /\ Cardinality(scopes) < MaxScopeKeys /\ made < MaxKeys
          /\ made' = made + 1
          /\ \E i \in Ids :
               LET key == [id |-> i, n |-> made'] IN
               /\ keys[i] = None
               /\ keys' = [keys EXCEPT ![i] = key]
               /\ call' = [call EXCEPT ![t].at = "publish", ![t].scope =
                     [permission |-> call[t].arg, epoch |-> epoch(call[t].now), key |-> key]]
          /\ UNCHANGED <<generating, offered>>
    /\ UNCHANGED <<mode, clock, scopes, issuance, signed, verifier, calls>>

\* The descriptor is stored and the challenge returned.
Publish(t) ==
    /\ At(t, "challenge", "publish")
    /\ scopes' = scopes \cup {call[t].scope}
    /\ offered' = offered \cup {call[t].scope}
    /\ generating' = None
    /\ End(t)
    /\ UNCHANGED <<mode, clock, keys, issuance, made, signed, verifier, calls>>

\* issue(member, scope): the scope is the current one and has a descriptor.
Check(t) ==
    /\ At(t, "issue", "start")
    /\ IF call[t].arg[2].epoch = epoch(call[t].now) /\ call[t].arg[2] \in scopes
         THEN To(t, "count") ELSE End(t)
    /\ UNCHANGED <<mode, clock, issuer, verifier, calls>>

Issued(m, e) == {c \in issuance : c[1] = m /\ c[2] = e}
Count(m, e) == IF Issued(m, e) = {} THEN 0 ELSE (CHOOSE c \in Issued(m, e) : TRUE)[3]

\* The member's counter of the epoch goes up, before the key is looked for.
CountIssue(t) ==
    LET m == call[t].arg[1] e == epoch(call[t].now)
        kept == {c \in issuance : c[2] >= e} IN
    /\ At(t, "issue", "count")
    /\ IF Count(m, e) >= MaxIssues
         THEN issuance' = kept /\ End(t)
         ELSE /\ issuance' = (kept \ Issued(m, e)) \cup {<<m, e, Count(m, e) + 1>>}
              /\ To(t, "sign")
    /\ UNCHANGED <<mode, clock, keys, scopes, generating, made, offered, signed, verifier, calls>>

\* What the key at the id of the scope signs is a token if it is the scope's key.
Sign(t) ==
    LET scope == call[t].arg[2] IN
    /\ At(t, "issue", "sign")
    /\ signed' = IF keys[scope.key.id] = scope.key
                   THEN signed \cup {<<call[t].arg[1], scope, Cardinality(signed)>>} ELSE signed
    /\ End(t)
    /\ UNCHANGED <<mode, clock, keys, scopes, issuance, generating, made, offered, verifier, calls>>

-----------------------------------------------------------------------------
(* AnonymousVerifier *)

\* add_descriptor checks expiry; it and redeem, whose token has to be of the
\* current epoch, collect the expired descriptors.
CollectListed(t) ==
    /\ At(t, "add", "start") \/ At(t, "redeem", "start")
    /\ IF \/ call[t].op = "add" /\ Expiry(call[t].arg) > call[t].now
          \/ call[t].op = "redeem" /\ Given[call[t].arg].scope.epoch = epoch(call[t].now)
         THEN call' = [call EXCEPT ![t].at = "unlist", ![t].old = Expired(listed, call[t].now)]
         ELSE End(t)
    /\ UNCHANGED <<mode, clock, issuer, verifier, calls>>

InClean(t, at) == At(t, "add", at) \/ At(t, "redeem", at)

\* prune removes an expired descriptor and then its key ...
Unlist(t) ==
    /\ InClean(t, "unlist")
    /\ \E s \in call[t].old :
         /\ listed' = listed \ {s}
         /\ call' = [call EXCEPT ![t].at = "forget", ![t].scope = s]
    /\ UNCHANGED <<mode, clock, issuer, origin, nonces, uses, calls>>

\* Variant: every key of that id is removed.
RemovedAll(key) == {k \in origin : k.id = key.id}

\* ... leaving other keys of the same id alone: remove_exact.
Removed(key) == origin \cap {key}

Forget(t) ==
    /\ InClean(t, "forget")
    /\ origin' = origin \ Removed(call[t].scope.key)
    /\ call' = [call EXCEPT ![t].at = "unlist", ![t].old = @ \ {call[t].scope}]
    /\ UNCHANGED <<mode, clock, issuer, listed, nonces, uses, calls>>

\* add_descriptor lists the scope unless it is there or the limit is reached ...
List(t) ==
    /\ At(t, "add", "unlist") /\ call[t].old = {}
    /\ IF call[t].arg \in listed \/ Cardinality(listed) >= MaxScopeKeys
         THEN End(t) /\ UNCHANGED listed
         ELSE listed' = listed \cup {call[t].arg} /\ To(t, "key")
    /\ UNCHANGED <<mode, clock, issuer, origin, nonces, uses, calls>>

\* ... and then stores its key.
AddKey(t) ==
    /\ At(t, "add", "key")
    /\ origin' = origin \cup {call[t].arg.key}
    /\ End(t)
    /\ UNCHANGED <<mode, clock, issuer, listed, nonces, uses, calls>>

\* redeem needs the descriptor of the token's scope.
Look(t) ==
    /\ At(t, "redeem", "unlist") /\ call[t].old = {}
    /\ IF Given[call[t].arg].scope \in listed THEN To(t, "reserve") ELSE End(t)
    /\ UNCHANGED <<mode, clock, issuer, verifier, calls>>

\* Variant: a nonce is kept one second less than an epoch.
RetentionShort == EpochSeconds - 1

\* BoundedNonceStore::retention_seconds
Retention == EpochSeconds

\* redeem_token reserves the nonce, at the time of the system's clock.
Reserve(t) ==
    LET kept == {v \in nonces : v[3] > clock} IN
    /\ At(t, "redeem", "reserve")
    /\ IF (\E v \in kept : v[1] = call[t].arg) \/ Cardinality(kept) >= MaxNullifiers
         THEN nonces' = kept /\ End(t)
         ELSE /\ nonces' = kept \cup {<<call[t].arg, "Reserved", clock + Retention>>}
              /\ call' = [call EXCEPT ![t].at = "verify", ![t].time = clock]
    /\ UNCHANGED <<mode, clock, issuer, listed, origin, uses, calls>>

\* It verifies the token with the stored keys, and commits or releases the nonce.
Verify(t) ==
    LET n == call[t].arg
        mine == {v \in nonces : v[1] = n}
        good == Given[n].valid /\ Given[n].scope.key \in origin IN
    /\ At(t, "redeem", "verify")
    /\ nonces' = IF good THEN (nonces \ mine) \cup {<<n, "Committed", v[3]>> : v \in mine}
                 ELSE nonces \ {v \in mine : v[2] = "Reserved"}
    /\ uses' = IF good THEN [uses EXCEPT ![n] = Append(@, call[t].time)] ELSE uses
    /\ End(t)
    /\ UNCHANGED <<mode, clock, issuer, listed, origin, calls>>

-----------------------------------------------------------------------------

Tick ==
    /\ clock < MaxTime
    /\ clock' = clock + 1
    /\ UNCHANGED <<mode, issuer, verifier, call, calls>>

Init ==
    /\ mode \in Modes /\ clock = 0
    /\ keys = [i \in Ids |-> None] /\ scopes = {} /\ issuance = {} /\ generating = None
    /\ made = 0 /\ offered = {} /\ signed = {}
    /\ listed = {} /\ origin = {} /\ nonces = {} /\ uses = [n \in Nonces |-> <<>>]
    /\ call = [t \in Threads |-> None] /\ calls = 0

Calls(t) ==
    \/ mode # "verifier" /\ \E p \in Permissions : Begin(t, "challenge", p)
    \/ mode # "verifier" /\ \E m \in Members, s \in offered : Begin(t, "issue", <<m, s>>)
    \/ mode = "pruned" /\ Begin(t, "prune", None)
    \/ mode = "verifier" /\ \E s \in Presented : Begin(t, "add", s)
    \/ mode = "verifier" /\ \E n \in Nonces : Begin(t, "redeem", n)

Steps(t) ==
    \/ Collect(t) \/ DropKey(t) \/ DropScope(t) \/ DropCounters(t) \/ Find(t) \/ Publish(t)
    \/ Check(t) \/ CountIssue(t) \/ Sign(t)
    \/ CollectListed(t) \/ Unlist(t) \/ Forget(t) \/ List(t) \/ AddKey(t)
    \/ Look(t) \/ Reserve(t) \/ Verify(t)

Next == Tick \/ \E t \in Threads : Calls(t) \/ Steps(t)

Spec == Init /\ [][Next]_vars

-----------------------------------------------------------------------------
(* Properties *)

\* "Maximum blind issuances for one enrolled member in one epoch": no member gets
\* more tokens of an epoch, though counters are forgotten at the next one while late
\* calls still run.
QuotaHolds ==
    \A m \in Members, e \in 0..epoch(MaxTime) :
        Cardinality({x \in signed : x[1] = m /\ x[2].epoch = e}) <= MaxIssues

\* An allowance that was spent gives a token as long as the epoch lasts, when keys
\* are pruned by challenge only; and a listed scope that has not expired has its key
\* at the verifier once its add_descriptor has stored it.
KeysLive ==
    /\ mode = "issuer" => \A t \in Threads :
         At(t, "issue", "sign") /\ Expiry(call[t].arg[2]) > clock =>
             keys[call[t].arg[2].key.id] = call[t].arg[2].key
    /\ \A s \in listed :
         \/ s.key \in origin \/ Expiry(s) <= clock
         \/ \E t \in Threads : At(t, "add", "key") /\ call[t].arg = s

\* "Tokens are one-use": of all calls that redeem a token, one at most reserved it
\* before its epoch ended; any other was overtaken by the clock after it had been
\* given its time.
OneUse ==
    \A n \in Nonces :
        Cardinality({i \in DOMAIN uses[n] : uses[n][i] < Expiry(Given[n].scope)}) <= 1
=============================================================================
