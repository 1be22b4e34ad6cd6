------------------------ MODULE AnonymousAuthProofs -------------------------
(***************************************************************************)
(* Tokens are one-use, members keep to their allowance, and keys that are  *)
(* current are there, for any number of calls, tokens and members, any     *)
(* length of an epoch and any limits.                                      *)
(*                                                                         *)
(* A nonce is reserved for an epoch's length from the time of reservation, *)
(* which is not before the token's epoch began, so a reservation made in   *)
(* time outlives the token's epoch.  Until then it is released only by the *)
(* call that made it.  The invariants of the other two are introduced      *)
(* where they are defined.                                                 *)
(***************************************************************************)
EXTENDS AnonymousAuth, FiniteSetTheorems, TLAPS

\* The token with nonce n is of an epoch that ends at Bound(n).
Bound(n) == Expiry(Given[n].scope)

CallSound(t) ==
    call[t] # None =>
      /\ call[t] = [op |-> call[t].op, now |-> call[t].now, arg |-> call[t].arg,
                    at |-> call[t].at, old |-> call[t].old, scope |-> call[t].scope,
                    time |-> call[t].time]
      /\ call[t].now \in Nat /\ call[t].now <= clock
      /\ call[t].time \in Nat /\ call[t].time <= clock
      /\ call[t].op = "redeem" =>
           /\ call[t].arg \in Nonces
           /\ call[t].at # "start" => Given[call[t].arg].scope.epoch = epoch(call[t].now)

Typed ==
    /\ clock \in Nat
    /\ call = [t \in Threads |-> call[t]]
    /\ uses \in [Nonces -> Seq(Nat)]
    /\ nonces \subseteq Nonces \X {"Reserved", "Committed"} \X Nat
    /\ \A t \in Threads : CallSound(t)

\* Call t has reserved n before the token's epoch ended.
Early(t, n) == At(t, "redeem", "verify") /\ call[t].arg = n /\ call[t].time < Bound(n)

EarlyUses(n) == {i \in DOMAIN uses[n] : uses[n][i] < Bound(n)}

\* One call at most has reserved n in time, or has redeemed it; and as long as the
\* epoch lasts the reservation is kept.
Single(n) ==
    /\ \A i, j \in EarlyUses(n) : i = j
    /\ \A t, u \in Threads : Early(t, n) /\ Early(u, n) => t = u
    /\ \A t \in Threads : Early(t, n) => EarlyUses(n) = {}
    /\ clock < Bound(n) /\ ((\E t \in Threads : Early(t, n)) \/ EarlyUses(n) # {})
         => \E v \in nonces : v[1] = n /\ v[3] >= Bound(n)

UseInv == Typed /\ \A n \in Nonces : Single(n)

-----------------------------------------------------------------------------

\* A reservation lasts longer than the epoch it is made in.
LEMMA Outlives ==
    ASSUME NEW now \in Nat, NEW time \in Nat, now <= time
    PROVE  (epoch(now) + 1) * EpochSeconds <= time + EpochSeconds
<1>0. EpochSeconds \in Nat \ {0}
  BY AnonymousAssumption, Zenon
<1>1. epoch(now) \in Nat /\ epoch(now) * EpochSeconds <= now
  BY <1>0 DEF epoch
<1>2. (epoch(now) + 1) * EpochSeconds = epoch(now) * EpochSeconds + EpochSeconds
  BY <1>0, <1>1
<1>3. epoch(now) * EpochSeconds \in Nat
  BY <1>0, <1>1
<1> QED
  BY <1>0, <1>1, <1>2, <1>3

\* Epochs end at a time.
LEMMA BoundIsTime == \A n \in Nonces : Bound(n) \in Nat
  BY AnonymousAssumption DEF Bound, Expiry, Presented

\* A step of call t that neither reserves nor verifies.
LEMMA OtherStep ==
    ASSUME UseInv, NEW t \in Threads, UNCHANGED <<clock, nonces, uses>>,
           call' = [call EXCEPT ![t] = call'[t]],
           ~At(t, "redeem", "verify"), ~At(t, "redeem", "verify")', CallSound(t)'
    PROVE  UseInv'
<1>1. call = [u \in Threads |-> call[u]] /\ \A u \in Threads \ {t} : call'[u] = call[u]
  BY Zenon DEF UseInv, Typed
<1>2. ASSUME NEW u \in Threads \ {t} PROVE CallSound(u)'
  <2>1. CallSound(u) /\ call'[u] = call[u]
    BY <1>1, Zenon DEF UseInv, Typed
  <2> QED
    BY <2>1, Zenon DEF CallSound
<1>3. Typed'
  BY <1>1, <1>2, Zenon DEF UseInv, Typed
<1>4. ASSUME NEW n \in Nonces PROVE Single(n)'
  <2>1. Single(n)
    BY Zenon DEF UseInv
  <2>2. \A u \in Threads : Early(u, n)' <=> Early(u, n)
    BY <1>1, Zenon DEF Early, At
  <2>3. EarlyUses(n)' = EarlyUses(n)
    BY Zenon DEF EarlyUses
  <2> QED
    BY <2>1, <2>2, <2>3, Zenon DEF Single
<1> QED
  BY <1>3, <1>4, Zenon DEF UseInv

\* A call that goes on to `at', not to "verify", or ends.
LEMMA GoesOn ==
    ASSUME UseInv, NEW t \in Threads, UNCHANGED <<clock, nonces, uses>>,
           call[t] # None, call[t].op # "redeem" \/ call[t].at # "verify",
           NEW at, NEW old, NEW scope,
           \/ call' = [call EXCEPT ![t] = None]
           \/ /\ call' = [call EXCEPT ![t] = [call[t] EXCEPT !.at = at, !.old = old, !.scope = scope]]
              /\ call[t].op = "redeem" =>
                   at # "verify" /\ Given[call[t].arg].scope.epoch = epoch(call[t].now)
    PROVE  UseInv'
<1>1. call = [u \in Threads |-> call[u]] /\ CallSound(t)
  BY Zenon DEF UseInv, Typed
<1>2. CASE call' = [call EXCEPT ![t] = None]
  <2>1. call'[t] = None
    BY <1>1, <1>2, Zenon
  <2> QED
    BY <1>2, <2>1, OtherStep, Zenon DEF CallSound, At
<1>3. CASE /\ call' = [call EXCEPT ![t] = [call[t] EXCEPT !.at = at, !.old = old, !.scope = scope]]
           /\ call[t].op = "redeem" =>
                at # "verify" /\ Given[call[t].arg].scope.epoch = epoch(call[t].now)
  <2> DEFINE c == [op |-> call[t].op, now |-> call[t].now, arg |-> call[t].arg, at |-> at,
                   old |-> old, scope |-> scope, time |-> call[t].time]
  <2>1. [call[t] EXCEPT !.at = at, !.old = old, !.scope = scope] = c
    <3> DEFINE r == call[t]
               s == [r EXCEPT !.at = at, !.old = old, !.scope = scope]
    <3>1. ASSUME NEW op, NEW now, NEW arg, NEW time,
                 r \in [op : {op}, now : {now}, arg : {arg}, at : {r.at}, old : {r.old},
                        scope : {r.scope}, time : {time}]
          PROVE  s \in [op : {op}, now : {now}, arg : {arg}, at : {at}, old : {old},
                        scope : {scope}, time : {time}]
      BY ONLY <3>1, Zenon
    <3>2. r \in [op : {r.op}, now : {r.now}, arg : {r.arg}, at : {r.at}, old : {r.old},
                 scope : {r.scope}, time : {r.time}]
      BY <1>1, Zenon DEF CallSound
    <3> HIDE DEF s
    <3>3. s \in [op : {r.op}, now : {r.now}, arg : {r.arg}, at : {at}, old : {old},
                 scope : {scope}, time : {r.time}]
      BY <3>1, <3>2
    <3>4. s = c
      BY <3>3, Zenon
    <3> QED
      BY <3>4, Zenon DEF s
  <2>2. call'[t] = c
    BY <1>1, <1>3, <2>1, Zenon
  <2>3. CallSound(t)'
    BY <1>1, <1>3, <2>2, Zenon DEF CallSound
  <2>4. ~At(t, "redeem", "verify")'
    BY <1>3, <2>2 DEF At
  <2>5. call' = [call EXCEPT ![t] = call'[t]]
    BY <1>3, <2>1, <2>2, Zenon
  <2> QED
    BY <2>3, <2>4, <2>5, OtherStep, Zenon DEF At
<1> QED
  BY <1>2, <1>3, Zenon

\* A call begins with the time of the clock.
LEMMA BeginKeeps ==
    ASSUME UseInv, NEW t \in Threads, NEW op, NEW arg, Begin(t, op, arg),
           op = "redeem" => arg \in Nonces
    PROVE  UseInv'
<1> DEFINE c == [op |-> op, now |-> clock, arg |-> arg, at |-> "start", old |-> {},
                 scope |-> None, time |-> clock]
<1>1. call = [u \in Threads |-> call[u]] /\ clock \in Nat /\ call[t] = None
  BY Zenon DEF UseInv, Typed, Begin
<1>2. call'[t] = c /\ call' = [call EXCEPT ![t] = call'[t]] /\ UNCHANGED <<clock, nonces, uses>>
  BY <1>1, Zenon DEF Begin, verifier
<1>3. CallSound(t)'
  BY <1>1, <1>2 DEF CallSound
<1>4. ~At(t, "redeem", "verify")'
  BY <1>2 DEF At
<1> QED
  BY <1>1, <1>2, <1>3, <1>4, OtherStep, Zenon DEF At

\* The steps of the issuer, and of add_descriptor and redeem before the reservation.
LEMMA StepsBefore ==
    ASSUME UseInv, NEW t \in Threads, Steps(t), ~Reserve(t), ~Verify(t)
    PROVE  UseInv'
<1> DEFINE c == call[t]
<1>0. call = [u \in Threads |-> call[u]] /\ CallSound(t)
  BY Zenon DEF UseInv, Typed
<1>1. UNCHANGED <<clock, nonces, uses>> /\ c # None
      /\ (c.op # "redeem" \/ c.at \in {"start", "unlist", "forget"})
  BY Zenon DEF Steps, Collect, DropKey, DropScope, DropCounters, Find, Publish, Check, CountIssue,
     Sign, CollectListed, Unlist, Forget, List, AddKey, Look, At, InPrune, InClean, verifier
<1>2. c.op # "redeem" \/ c.at # "verify"
  BY <1>1, Zenon
<1>3. c = [c EXCEPT !.at = c.at, !.old = c.old, !.scope = c.scope]
  BY <1>0, <1>1, Zenon DEF CallSound
<1>4. ASSUME End(t) PROVE UseInv'
  BY <1>1, <1>2, <1>4, GoesOn, Zenon DEF End
<1>5. ASSUME NEW at, To(t, at),
             c.op = "redeem" => at # "verify" /\ Given[c.arg].scope.epoch = epoch(c.now)
      PROVE  UseInv'
  <2>1. [c EXCEPT !.at = at] = [c EXCEPT !.at = at, !.old = c.old, !.scope = c.scope]
    BY <1>0, <1>1, Zenon DEF CallSound
  <2>2. call' = [call EXCEPT ![t] = [c EXCEPT !.at = at, !.old = c.old, !.scope = c.scope]]
    BY <1>5, <2>1, Zenon DEF To
  <2> QED
    BY <1>1, <1>2, <1>5, <2>2, GoesOn, Zenon
<1>6. ASSUME NEW at, NEW old, call' = [call EXCEPT ![t].at = at, ![t].old = old],
             c.op = "redeem" => at # "verify" /\ Given[c.arg].scope.epoch = epoch(c.now)
      PROVE  UseInv'
  <2>1. [c EXCEPT !.at = at, !.old = old] = [c EXCEPT !.at = at, !.old = old, !.scope = c.scope]
    BY <1>0, <1>1, Zenon DEF CallSound
  <2>2. call' = [call EXCEPT ![t] = [c EXCEPT !.at = at, !.old = old, !.scope = c.scope]]
    BY <1>0, <1>6, <2>1, Zenon
  <2>3. c.op = "redeem" => at # "verify" /\ Given[c.arg].scope.epoch = epoch(c.now)
    BY <1>6, Zenon
  <2> HIDE DEF c
  <2> QED
    BY <1>1, <1>2, <2>2, <2>3, GoesOn, Zenon DEF c
<1>7. ASSUME NEW at, NEW s, call' = [call EXCEPT ![t].at = at, ![t].scope = s],
             c.op = "redeem" => at # "verify" /\ Given[c.arg].scope.epoch = epoch(c.now)
      PROVE  UseInv'
  <2>1. [c EXCEPT !.at = at, !.scope = s] = [c EXCEPT !.at = at, !.old = c.old, !.scope = s]
    BY <1>0, <1>1, Zenon DEF CallSound
  <2>2. call' = [call EXCEPT ![t] = [c EXCEPT !.at = at, !.old = c.old, !.scope = s]]
    BY <1>0, <1>7, <2>1, Zenon
  <2>3. c.op = "redeem" => at # "verify" /\ Given[c.arg].scope.epoch = epoch(c.now)
    BY <1>7, Zenon
  <2> HIDE DEF c
  <2> QED
    BY <1>1, <1>2, <2>2, <2>3, GoesOn, Zenon DEF c
<1>8. c.op = "redeem" /\ c.at # "start" => Given[c.arg].scope.epoch = epoch(c.now)
  BY <1>0, <1>1, Zenon DEF CallSound
<1>9. CASE Collect(t) \/ DropScope(t)
  <2>1. c.op # "redeem"
    BY <1>9, Zenon DEF Collect, DropScope, At, InPrune
  <2>2. CASE Collect(t)
    BY <1>6, <2>1, <2>2, Zenon DEF Collect
  <2>3. CASE DropScope(t)
    <3>1. call' = [call EXCEPT ![t].at = "drop", ![t].old = c.old \ {c.scope}]
      BY <1>0, <2>3, Zenon DEF DropScope
    <3> QED
      BY <1>6, <2>1, <3>1, Zenon
  <2> QED
    BY <1>9, <2>2, <2>3, Zenon
<1>10. CASE DropKey(t) \/ Find(t)
  <2>1. c.op # "redeem"
    BY <1>10, Zenon DEF DropKey, Find, At, InPrune
  <2>2. CASE DropKey(t)
    BY <1>7, <2>1, <2>2, Zenon DEF DropKey
  <2>3. CASE Find(t)
    BY <1>4, <1>7, <2>1, <2>3, Zenon DEF Find
  <2> QED
    BY <1>10, <2>2, <2>3, Zenon
<1>11. CASE DropCounters(t) \/ Publish(t) \/ Check(t) \/ CountIssue(t) \/ Sign(t) \/ List(t)
            \/ AddKey(t)
  <2>1. c.op # "redeem"
    BY <1>11, Zenon DEF DropCounters, Publish, Check, CountIssue, Sign, List, AddKey, At, InPrune
  <2>2. End(t) \/ \E at : To(t, at)
    BY <1>11, Zenon DEF DropCounters, Publish, Check, CountIssue, Sign, List, AddKey
  <2> QED
    BY <1>4, <1>5, <2>1, <2>2, Zenon
<1>12. CASE CollectListed(t)
  BY <1>4, <1>6, <1>12, Zenon DEF CollectListed
<1>13. CASE Unlist(t)
  BY <1>1, <1>7, <1>8, <1>13, Zenon DEF Unlist, At, InClean
<1>14. CASE Forget(t)
  <2>1. call' = [call EXCEPT ![t].at = "unlist", ![t].old = c.old \ {c.scope}] /\ c.at = "forget"
    BY <1>0, <1>14, Zenon DEF Forget, InClean, At
  <2> QED
    BY <1>6, <1>8, <2>1, Zenon
<1>15. CASE Look(t)
  BY <1>4, <1>5, <1>8, <1>15, Zenon DEF Look, At
<1> QED
  BY <1>9, <1>10, <1>11, <1>12, <1>13, <1>14, <1>15, Zenon DEF Steps

\* Reservations that have expired are dropped, none of a token whose epoch lasts.
LEMMA PruningKeeps ==
    ASSUME UseInv, NEW t \in Threads, At(t, "redeem", "reserve"),
           nonces' = {v \in nonces : v[3] > clock}, UNCHANGED <<clock, uses>>,
           call' = [call EXCEPT ![t] = None]
    PROVE  UseInv'
<1>1. call = [u \in Threads |-> call[u]] /\ clock \in Nat /\ Typed
  BY Zenon DEF UseInv, Typed
<1>2. call'[t] = None /\ \A u \in Threads \ {t} : call'[u] = call[u]
  BY <1>1, Zenon
<1>3. \A u \in Threads : CallSound(u)'
  BY <1>1, <1>2, Zenon DEF Typed, CallSound
<1>4. Typed'
  BY <1>1, <1>3, Zenon DEF Typed
<1>5. ASSUME NEW n \in Nonces PROVE Single(n)'
  <2>1. Single(n) /\ Bound(n) \in Nat
    BY BoundIsTime, Zenon DEF UseInv
  <2>2. \A u \in Threads : Early(u, n)' <=> Early(u, n)
    BY <1>2, Zenon DEF Early, At
  <2>3. EarlyUses(n)' = EarlyUses(n)
    BY Zenon DEF EarlyUses
  <2>4. \A v \in nonces : v[3] \in Nat
    BY <1>1, Zenon DEF Typed
  <2> QED
    BY <1>1, <2>1, <2>2, <2>3, <2>4 DEF Single
<1> QED
  BY <1>4, <1>5, Zenon DEF UseInv

\* The nonce is reserved past the end of the token's epoch, if it was not already.
LEMMA ReserveKeeps ==
    ASSUME UseInv, NEW t \in Threads, Reserve(t)
    PROVE  UseInv'
<1>0. Typed /\ clock \in Nat /\ call = [u \in Threads |-> call[u]] /\ CallSound(t)
      /\ At(t, "redeem", "reserve") /\ UNCHANGED <<clock, uses>>
  BY Zenon DEF UseInv, Typed, Reserve
<1>n. PICK n \in Nonces : n = call[t].arg
  BY <1>0, Zenon DEF CallSound, At
<1> DEFINE kept == {v \in nonces : v[3] > clock}
           entry == <<n, "Reserved", clock + Retention>>
<1>1. CASE (\E v \in kept : v[1] = n) \/ Cardinality(kept) >= MaxNullifiers
  <2>1. nonces' = kept /\ call' = [call EXCEPT ![t] = None]
    BY <1>1, <1>n, Zenon DEF Reserve, End
  <2> QED
    BY <1>0, <2>1, PruningKeeps, Zenon
<1>2. CASE ~((\E v \in kept : v[1] = n) \/ Cardinality(kept) >= MaxNullifiers)
  <2>1. /\ nonces' = kept \cup {entry}
        /\ call' = [call EXCEPT ![t].at = "verify", ![t].time = clock]
    BY <1>2, <1>n, Zenon DEF Reserve
  <2>2. n \in Nonces /\ call[t].now \in Nat /\ call[t].now <= clock
        /\ Given[n].scope.epoch = epoch(call[t].now)
    BY <1>0, <1>n, Zenon DEF CallSound, At
  <2>3. Retention \in Nat /\ clock + Retention >= Bound(n)
    BY <1>0, <2>2, Outlives, BoundIsTime, AnonymousAssumption, Zenon DEF Bound, Expiry, Retention
  <2>4. /\ call'[t].op = "redeem" /\ call'[t].at = "verify" /\ call'[t].arg = n
        /\ call'[t].now = call[t].now /\ call'[t].time = clock
        /\ call'[t] = [op |-> call'[t].op, now |-> call'[t].now, arg |-> call'[t].arg,
                       at |-> call'[t].at, old |-> call'[t].old, scope |-> call'[t].scope,
                       time |-> call'[t].time]
    <3> DEFINE r == call[t]
               s == [r EXCEPT !.at = "verify", !.time = clock]
    <3>1. ASSUME NEW op, NEW now, NEW arg, NEW old, NEW scope, NEW time,
                 r \in [op : {op}, now : {now}, arg : {arg}, at : {r.at}, old : {old},
                        scope : {scope}, time : {r.time}]
          PROVE  s \in [op : {op}, now : {now}, arg : {arg}, at : {"verify"}, old : {old},
                        scope : {scope}, time : {clock}]
      BY ONLY <3>1, Zenon
    <3>2. r \in [op : {r.op}, now : {r.now}, arg : {r.arg}, at : {r.at}, old : {r.old},
                 scope : {r.scope}, time : {r.time}]
      BY <1>0, Zenon DEF CallSound, At
    <3>3. call'[t] = s
      BY <1>0, <2>1, Zenon
    <3> HIDE DEF s
    <3>4. s \in [op : {r.op}, now : {r.now}, arg : {r.arg}, at : {"verify"}, old : {r.old},
                 scope : {r.scope}, time : {clock}]
      BY <3>1, <3>2
    <3> QED
      BY <1>0, <1>n, <3>3, <3>4, Zenon DEF At
  <2>5. \A u \in Threads \ {t} : call'[u] = call[u]
    BY <1>0, <2>1, Zenon
  <2>6. CallSound(t)'
    BY <1>0, <2>2, <2>4 DEF CallSound
  <2>7. \A u \in Threads \ {t} : CallSound(u)'
    BY <1>0, <2>5, Zenon DEF Typed, CallSound
  <2>8. call' = [u \in Threads |-> call'[u]]
    BY <1>0, <2>1, Zenon
  <2>9. Typed'
    <3>1. nonces' \subseteq Nonces \X {"Reserved", "Committed"} \X Nat
      BY <1>0, <2>1, <2>2, <2>3 DEF Typed
    <3> QED
      BY <1>0, <2>6, <2>7, <2>8, <3>1, Zenon DEF Typed
  <2>10. \A v \in nonces : v[3] \in Nat
    BY <1>0, Zenon DEF Typed
  <2>11. ASSUME NEW m \in Nonces, m # n PROVE Single(m)'
    <3>1. Single(m) /\ Bound(m) \in Nat
      BY BoundIsTime, Zenon DEF UseInv
    <3>2. \A u \in Threads : Early(u, m)' <=> Early(u, m)
      BY <1>0, <2>4, <2>5, <2>11, Zenon DEF Early, At
    <3>3. EarlyUses(m)' = EarlyUses(m)
      BY <1>0, Zenon DEF EarlyUses
    <3>4. kept \subseteq nonces'
      BY <2>1, Zenon
    <3> QED
      BY <1>0, <2>10, <3>1, <3>2, <3>3, <3>4 DEF Single
  <2>12. Single(n)'
    <3>1. Single(n) /\ Bound(n) \in Nat
      BY <2>2, BoundIsTime, Zenon DEF UseInv
    <3>2. \A u \in Threads \ {t} : Early(u, n)' <=> Early(u, n)
      BY <2>5, Zenon DEF Early, At
    <3>3. EarlyUses(n)' = EarlyUses(n)
      BY <1>0, Zenon DEF EarlyUses
    <3>4. CASE clock < Bound(n)
      <4>1. ~ \E v \in nonces : v[1] = n /\ v[3] >= Bound(n)
        BY <1>0, <1>2, <2>10, <3>1, <3>4
      <4>2. EarlyUses(n) = {} /\ \A u \in Threads : ~Early(u, n)
        BY <3>1, <3>4, <4>1, Zenon DEF Single
      <4>3. entry \in nonces' /\ entry[1] = n /\ entry[3] >= Bound(n)
        BY <2>1, <2>3, Zenon
      <4> QED
        BY <3>2, <3>3, <4>2, <4>3, Zenon DEF Single
    <3>5. CASE ~(clock < Bound(n))
      <4>1. ~Early(t, n)'
        BY <1>0, <2>4, <3>5, Zenon DEF Early, Bound, Expiry
      <4> QED
        BY <1>0, <3>1, <3>2, <3>3, <3>5, <4>1, Zenon DEF Single
    <3> QED
      BY <3>4, <3>5, Zenon
  <2> QED
    BY <2>9, <2>11, <2>12, Zenon DEF UseInv
<1> QED
  BY <1>1, <1>2, Zenon

\* The call that reserved the nonce in time, and no other, commits or releases it.
LEMMA VerifyKeeps ==
    ASSUME UseInv, NEW t \in Threads, Verify(t)
    PROVE  UseInv'
<1>0. /\ Typed /\ clock \in Nat /\ call = [u \in Threads |-> call[u]] /\ CallSound(t)
      /\ At(t, "redeem", "verify") /\ clock' = clock /\ call' = [call EXCEPT ![t] = None]
  BY Zenon DEF UseInv, Typed, Verify, End
<1>n. PICK n \in Nonces : n = call[t].arg
  BY <1>0, Zenon DEF CallSound, At
<1> DEFINE mine == {v \in nonces : v[1] = n}
           good == Given[n].valid /\ Given[n].scope.key \in origin
<1>1. /\ nonces' = IF good THEN (nonces \ mine) \cup {<<n, "Committed", v[3]>> : v \in mine}
                   ELSE nonces \ {v \in mine : v[2] = "Reserved"}
      /\ uses' = IF good THEN [uses EXCEPT ![n] = Append(@, call[t].time)] ELSE uses
  BY <1>n, Zenon DEF Verify
<1>2. n \in Nonces /\ call[t].time \in Nat /\ call[t].time <= clock
  BY <1>0, <1>n, Zenon DEF CallSound, At
<1> HIDE DEF good
<1>3. call'[t] = None /\ \A u \in Threads \ {t} : call'[u] = call[u]
  BY <1>0, Zenon
<1>4. \A u \in Threads : CallSound(u)'
  BY <1>0, <1>3, Zenon DEF Typed, CallSound
<1>5. \A v \in nonces : v \in Nonces \X {"Reserved", "Committed"} \X Nat
  BY <1>0, Zenon DEF Typed
<1>6. Typed'
  <2>1. nonces' \subseteq Nonces \X {"Reserved", "Committed"} \X Nat
    BY <1>1, <1>2, <1>5
  <2>2. uses' \in [Nonces -> Seq(Nat)]
    BY <1>0, <1>1, <1>2 DEF Typed
  <2> QED
    BY <1>0, <1>4, <2>1, <2>2, Zenon DEF Typed
<1>7. \A m \in Nonces, u \in Threads : Early(u, m)' <=> u # t /\ Early(u, m)
  BY <1>3, Zenon DEF Early, At
<1>8. ASSUME NEW m \in Nonces, m # n PROVE Single(m)'
  <2>1. Single(m)
    BY Zenon DEF UseInv
  <2>2. EarlyUses(m)' = EarlyUses(m)
    BY <1>0, <1>1, <1>2, <1>8, Zenon DEF EarlyUses, Typed
  <2>3. \A v \in nonces : v[1] = m => v \in nonces'
    BY <1>1, <1>8, Zenon
  <2> QED
    BY <1>0, <1>7, <2>1, <2>2, <2>3, Zenon DEF Single
<1>9. Single(n)'
  <2>1. Single(n) /\ Bound(n) \in Nat
    BY <1>2, BoundIsTime, Zenon DEF UseInv
  <2>2. Early(t, n) <=> call[t].time < Bound(n)
    BY <1>0, <1>n, Zenon DEF Early
  <2>3. uses[n] \in Seq(Nat)
    BY <1>0, <1>2, Zenon DEF Typed
  <2>4. CASE good
    <3>1. uses'[n] = Append(uses[n], call[t].time)
      BY <1>0, <1>1, <1>2, <2>4, Zenon DEF Typed
    <3>2. EarlyUses(n)' = EarlyUses(n) \cup
             (IF call[t].time < Bound(n) THEN {Len(uses[n]) + 1} ELSE {})
      <4>1. DOMAIN uses'[n] = DOMAIN uses[n] \cup {Len(uses[n]) + 1}
        BY <1>2, <2>3, <3>1
      <4>2. \A i \in DOMAIN uses[n] : uses'[n][i] = uses[n][i]
        BY <1>2, <2>3, <3>1
      <4>3. uses'[n][Len(uses[n]) + 1] = call[t].time
        BY <1>2, <2>3, <3>1
      <4>4. EarlyUses(n)' = {i \in DOMAIN uses'[n] : uses'[n][i] < Bound(n)}
        BY Zenon DEF EarlyUses, Bound, Expiry
      <4> QED
        BY <4>1, <4>2, <4>3, <4>4, Zenon DEF EarlyUses
    <3>3. \A v \in nonces : v[1] = n => \E w \in nonces' : w[1] = n /\ w[3] = v[3]
      <4>1. ASSUME NEW v \in nonces, v[1] = n
            PROVE  \E w \in nonces' : w[1] = n /\ w[3] = v[3]
        <5>1. <<n, "Committed", v[3]>> \in nonces'
          BY <1>1, <2>4, <4>1, Zenon
        <5> QED
          BY <5>1, Zenon
      <4> QED
        BY <4>1, Zenon
    <3>4. CASE call[t].time < Bound(n)
      <4>1. EarlyUses(n) = {} /\ \A u \in Threads : Early(u, n) => u = t
        BY <2>1, <2>2, <3>4, Zenon DEF Single
      <4>2. EarlyUses(n)' = {Len(uses[n]) + 1} /\ \A u \in Threads : ~Early(u, n)'
        BY <1>2, <1>7, <3>2, <3>4, <4>1, Zenon
      <4>3. clock < Bound(n) => \E w \in nonces' : w[1] = n /\ w[3] >= Bound(n)
        BY <2>1, <2>2, <3>3, <3>4, Zenon DEF Single
      <4> QED
        BY <1>0, <4>2, <4>3, Zenon DEF Single
    <3>5. CASE ~(call[t].time < Bound(n))
      <4>1. ~(clock < Bound(n)) /\ EarlyUses(n)' = EarlyUses(n)
        BY <1>0, <1>2, <2>1, <3>2, <3>5
      <4> QED
        BY <1>0, <1>2, <1>7, <2>1, <4>1, Zenon DEF Single
    <3> QED
      BY <3>4, <3>5, Zenon
  <2>5. CASE ~good
    <3>1. EarlyUses(n)' = EarlyUses(n)
      BY <1>1, <2>5, Zenon DEF EarlyUses
    <3>2. CASE call[t].time < Bound(n)
      <4>1. EarlyUses(n) = {} /\ \A u \in Threads : Early(u, n) => u = t
        BY <2>1, <2>2, <3>2, Zenon DEF Single
      <4> QED
        BY <1>2, <1>7, <3>1, <4>1, Zenon DEF Single
    <3>3. CASE ~(call[t].time < Bound(n))
      <4>1. ~(clock < Bound(n))
        BY <1>0, <1>2, <2>1, <3>3
      <4> QED
        BY <1>0, <1>2, <1>7, <2>1, <3>1, <4>1, Zenon DEF Single
    <3> QED
      BY <3>2, <3>3, Zenon
  <2> QED
    BY <2>4, <2>5, Zenon
<1> QED
  BY <1>6, <1>8, <1>9, Zenon DEF UseInv

\* Time passes, or nothing happens.
LEMMA TimeKeeps ==
    ASSUME UseInv, Tick \/ UNCHANGED vars
    PROVE  UseInv'
<1>1. UNCHANGED <<nonces, uses, call>> /\ clock \in Nat /\ clock' \in Nat /\ clock' >= clock
      /\ Typed
  BY DEF UseInv, Typed, Tick, vars, verifier
<1>2. \A t \in Threads : CallSound(t)'
  BY <1>1 DEF Typed, CallSound
<1>3. Typed'
  BY <1>1, <1>2, Zenon DEF Typed
<1>4. ASSUME NEW n \in Nonces PROVE Single(n)'
  <2>1. Single(n) /\ Bound(n) \in Nat
    BY BoundIsTime, Zenon DEF UseInv
  <2>2. EarlyUses(n)' = EarlyUses(n) /\ \A t \in Threads : Early(t, n)' <=> Early(t, n)
    BY <1>1, Zenon DEF EarlyUses, Early, At
  <2> QED
    BY <1>1, <2>1, <2>2 DEF Single
<1> QED
  BY <1>3, <1>4, Zenon DEF UseInv

\* What every step keeps.
LEMMA StepsKeepUse == UseInv /\ [Next]_vars => UseInv'
<1> SUFFICES ASSUME UseInv, [Next]_vars PROVE UseInv'
  BY Zenon
<1>1. ASSUME NEW t \in Threads, Calls(t) PROVE UseInv'
  BY <1>1, BeginKeeps, Zenon DEF Calls
<1>2. ASSUME NEW t \in Threads, Steps(t) PROVE UseInv'
  BY <1>2, StepsBefore, ReserveKeeps, VerifyKeeps, Zenon
<1> QED
  BY <1>1, <1>2, TimeKeeps, Zenon DEF Next

LEMMA InitUse == Init => UseInv
<1> SUFFICES ASSUME Init PROVE UseInv
  BY Zenon
<1>1. Typed
  BY DEF Init, Typed, CallSound
<1>2. \A n \in Nonces : Single(n)
  BY DEF Init, Single, EarlyUses, Early, At
<1> QED
  BY <1>1, <1>2, Zenon DEF UseInv

\* Of all calls that redeem a token, one at most reserved it before its epoch ended.
THEOREM TokensAreOneUse == Spec => []OneUse
<1>1. UseInv => OneUse
  <2> SUFFICES ASSUME UseInv, NEW n \in Nonces PROVE Cardinality(EarlyUses(n)) <= 1
    BY Zenon DEF OneUse, EarlyUses, Bound
  <2>1. \A i, j \in EarlyUses(n) : i = j
    BY Zenon DEF UseInv, Single
  <2>2. CASE EarlyUses(n) = {}
    BY <2>2, FS_EmptySet
  <2>3. CASE EarlyUses(n) # {}
    <3>1. PICK i : EarlyUses(n) = {i}
      BY <2>1, <2>3, Zenon
    <3>2. Cardinality({i}) = 1
      BY FS_Singleton, Zenon
    <3> QED
      BY <3>1, <3>2
  <2> QED
    BY <2>2, <2>3, Zenon
<1> QED
  BY <1>1, InitUse, StepsKeepUse, PTL DEF Spec

-----------------------------------------------------------------------------
(* The allowance of a member.                                              *)
(*                                                                         *)
(* Counters of an epoch are forgotten only once no call that was begun in  *)
(* it can still sign: whoever forgets them, or offered the scope that the  *)
(* one who forgets them was called with, has removed the keys of all       *)
(* scopes it could have been called with, and a removed key never returns. *)

Gone(s) == keys[s.key.id] # s.key

Made(s) ==
    /\ s.key \in [id : Ids, n : Nat] /\ s.key.n <= made
    /\ s.epoch \in Nat /\ s.epoch <= epoch(clock)

\* An issue call that was begun in the epoch of its scope.
Timely(u) == call[u] # None /\ call[u].op = "issue" /\ call[u].arg[2].epoch = epoch(call[u].now)

\* The scope of every such call of an epoch before e is in the set or has no key.
Settled(e, set) ==
    \A u \in Threads :
        Timely(u) /\ call[u].arg[2].epoch < e => call[u].arg[2] \in set \/ Gone(call[u].arg[2])

Pruning(t) == call[t].op \in {"challenge", "prune"} /\ call[t].at # "start"

IssuerCall(t) ==
    call[t] # None =>
      /\ call[t].op = "issue" =>
           call[t].arg[2] \in offered /\ (call[t].at # "start" => Timely(t))
      /\ Pruning(t) =>
           /\ call[t].old \subseteq offered
           /\ call[t].at = "unlist" => call[t].scope \in offered /\ Gone(call[t].scope)
           /\ call[t].at \in {"find", "publish"} => call[t].old = {}
           /\ call[t].at = "publish" =>
                Made(call[t].scope) /\ call[t].scope.epoch = epoch(call[t].now)
           /\ Settled(epoch(call[t].now), call[t].old)

ScopesSettled ==
    /\ made \in Nat /\ keys = [i \in Ids |-> keys[i]] /\ scopes \subseteq offered
    /\ \A s \in offered : Made(s) /\ (s \in scopes \/ Gone(s)) /\ Settled(s.epoch, {})
    /\ \A t \in Threads : IssuerCall(t)

Closed(e) == epoch(clock) > e /\ Settled(e + 1, {})

\* Calls that have been counted for member m in epoch e and will sign.
Pending(m, e) ==
    {u \in Threads : /\ At(u, "issue", "sign") /\ call[u].arg[1] = m
                     /\ call[u].arg[2].epoch = e /\ ~Gone(call[u].arg[2])}

Tokens(m, e) == {x \in signed : x[1] = m /\ x[2].epoch = e}

Spent(m, e) == Cardinality(Tokens(m, e)) + Cardinality(Pending(m, e))

Quota(m, e) ==
    /\ IsFiniteSet(Tokens(m, e)) /\ IsFiniteSet(Pending(m, e))
    /\ \A c, d \in Issued(m, e) : c = d
    /\ \A c \in Issued(m, e) : c[3] \in 0..MaxIssues
    /\ Spent(m, e) <= MaxIssues
    /\ Closed(e) \/ Spent(m, e) <= Count(m, e)

QuotaInv == UseInv /\ ScopesSettled /\ \A m \in Members, e \in Nat : Quota(m, e)

\* Epochs grow with the time, and end when the next begins.
LEMMA Epochs ==
    ASSUME NEW a \in Nat, NEW b \in Nat, a <= b
    PROVE  /\ epoch(a) \in Nat /\ epoch(b) \in Nat /\ epoch(a) <= epoch(b)
           /\ \A e \in Nat : e < epoch(b) => (e + 1) * EpochSeconds <= b
<1>0. EpochSeconds \in Nat \ {0}
  BY AnonymousAssumption, Zenon
<1>1. epoch(a) \in Nat /\ epoch(b) \in Nat /\ epoch(b) * EpochSeconds <= b
      /\ epoch(a) * EpochSeconds <= a
  BY <1>0 DEF epoch
<1>2. b < (epoch(b) + 1) * EpochSeconds
  BY <1>0 DEF epoch
<1>3. ASSUME NEW e \in Nat, NEW f \in Nat, e < f PROVE (e + 1) * EpochSeconds <= f * EpochSeconds
  <2>1. PICK d \in Nat : f = (e + 1) + d
    BY <1>3
  <2>2. f * EpochSeconds = (e + 1) * EpochSeconds + d * EpochSeconds
    BY <1>0, <2>1
  <2>3. d * EpochSeconds \in Nat /\ (e + 1) * EpochSeconds \in Nat
    BY <1>0
  <2> QED
    BY <2>2, <2>3
<1>4. \A e \in Nat : (e + 1) * EpochSeconds \in Nat /\ e * EpochSeconds \in Nat
  BY <1>0
<1>5. epoch(a) <= epoch(b)
  <2> SUFFICES ASSUME epoch(b) < epoch(a) PROVE FALSE
    BY <1>1
  <2>1. (epoch(b) + 1) * EpochSeconds <= epoch(a) * EpochSeconds
    BY <1>1, <1>3, Zenon
  <2> QED
    BY <1>1, <1>2, <1>4, <2>1
<1>6. ASSUME NEW e \in Nat, e < epoch(b) PROVE (e + 1) * EpochSeconds <= b
  BY <1>1, <1>3, <1>4, <1>6
<1> QED
  BY <1>1, <1>5, <1>6, Zenon

\* How a step moves its call on, leaving the others alone.
Others(t) == \A u \in Threads \ {t} : call'[u] = call[u]

Moves(t, at, old, scope) ==
    /\ Others(t)
    /\ call'[t].op = call[t].op /\ call'[t].now = call[t].now /\ call'[t].arg = call[t].arg
    /\ call'[t].at = at /\ call'[t].old = old /\ call'[t].scope = scope

LEMMA Moved ==
    ASSUME Typed, NEW t \in Threads, call[t] # None, NEW at, NEW old, NEW scope
    PROVE  /\ To(t, at) => Moves(t, at, call[t].old, call[t].scope)
           /\ call' = [call EXCEPT ![t].at = at, ![t].old = old] => Moves(t, at, old, call[t].scope)
           /\ call' = [call EXCEPT ![t].at = at, ![t].scope = scope]
                => Moves(t, at, call[t].old, scope)
           /\ End(t) => Others(t) /\ call'[t] = None
<1> DEFINE r == call[t]
<1>0. call = [u \in Threads |-> call[u]]
      /\ r \in [op : {r.op}, now : {r.now}, arg : {r.arg}, at : {r.at}, old : {r.old},
                scope : {r.scope}, time : {r.time}]
  BY DEF Typed, CallSound
<1>1. ASSUME NEW op, NEW now, NEW arg, NEW o, NEW s, NEW time, NEW a,
             r \in [op : {op}, now : {now}, arg : {arg}, at : {a}, old : {o}, scope : {s}, time : {time}]
      PROVE  /\ [r EXCEPT !.at = at] \in [op : {op}, now : {now}, arg : {arg}, at : {at}, old : {o},
                                          scope : {s}, time : {time}]
             /\ [r EXCEPT !.at = at, !.old = old] \in
                   [op : {op}, now : {now}, arg : {arg}, at : {at}, old : {old}, scope : {s},
                    time : {time}]
             /\ [r EXCEPT !.at = at, !.scope = scope] \in
                   [op : {op}, now : {now}, arg : {arg}, at : {at}, old : {o}, scope : {scope},
                    time : {time}]
  BY ONLY <1>1, Zenon
<1>2. /\ To(t, at) => call'[t] = [r EXCEPT !.at = at] /\ Others(t)
      /\ call' = [call EXCEPT ![t].at = at, ![t].old = old]
           => call'[t] = [r EXCEPT !.at = at, !.old = old] /\ Others(t)
      /\ call' = [call EXCEPT ![t].at = at, ![t].scope = scope]
           => call'[t] = [r EXCEPT !.at = at, !.scope = scope] /\ Others(t)
      /\ End(t) => Others(t) /\ call'[t] = None
  BY <1>0, Zenon DEF To, Others, End
<1>3. /\ [r EXCEPT !.at = at] \in [op : {r.op}, now : {r.now}, arg : {r.arg}, at : {at},
                                   old : {r.old}, scope : {r.scope}, time : {r.time}]
      /\ [r EXCEPT !.at = at, !.old = old] \in
            [op : {r.op}, now : {r.now}, arg : {r.arg}, at : {at}, old : {old}, scope : {r.scope},
             time : {r.time}]
      /\ [r EXCEPT !.at = at, !.scope = scope] \in
            [op : {r.op}, now : {r.now}, arg : {r.arg}, at : {at}, old : {r.old}, scope : {scope},
             time : {r.time}]
  BY <1>0, <1>1, Zenon
<1> QED
  BY <1>2, <1>3, Zenon DEF Moves

\* A key that was removed is never generated again.
LEMMA GoneStays ==
    ASSUME ScopesSettled,
           \/ keys' = keys
           \/ \E i \in Ids : keys' = [keys EXCEPT ![i] = None]
           \/ \E i \in Ids : keys' = [keys EXCEPT ![i] = [id |-> i, n |-> made + 1]]
    PROVE  /\ \A s : Made(s) /\ Gone(s) => Gone(s)'
           /\ keys' = [i \in Ids |-> keys'[i]]
<1>1. keys = [i \in Ids |-> keys[i]] /\ made \in Nat
  BY Zenon DEF ScopesSettled
<1>2. keys' = [i \in Ids |-> keys'[i]]
  BY <1>1, Zenon
<1>3. ASSUME NEW s, Made(s), Gone(s) PROVE keys'[s.key.id] # s.key
  <2>1. s.key \in [id : Ids, n : Nat] /\ s.key.n <= made /\ s.key # None
    BY <1>3, AnonymousAssumption, Zenon DEF Made
  <2> QED
    BY <1>1, <1>3, <2>1 DEF Gone
<1>4. \A s : Made(s) /\ Gone(s) => Gone(s)'
  BY <1>3, Zenon DEF Gone
<1> QED
  BY <1>2, <1>4, Zenon

\* What a step of call t leaves as it was, while no key returns.
Stays(t) ==
    /\ Others(t)
    /\ call[t] # None
    /\ call'[t] = None \/ (/\ call'[t].op = call[t].op /\ call'[t].now = call[t].now
                           /\ call'[t].arg = call[t].arg)
    /\ clock' = clock
    /\ made' \in Nat /\ made <= made'
    /\ keys' = [i \in Ids |-> keys'[i]]
    /\ \A s : Made(s) /\ Gone(s) => Gone(s)'
    /\ offered \subseteq offered'

LEMMA Frame ==
    ASSUME ScopesSettled, NEW t \in Threads, Stays(t)
    PROVE  /\ \A s : Made(s) => Made(s)'
           /\ \A e, set : Settled(e, set) => Settled(e, set)'
           /\ \A u \in Threads \ {t} : IssuerCall(u)'
           /\ \A e : Closed(e) => Closed(e)'
<1>1. \A s : Made(s) => Made(s)'
  BY DEF Made, Stays, ScopesSettled
<1>2. ASSUME NEW u \in Threads, Timely(u)'
      PROVE  Timely(u) /\ call'[u].arg = call[u].arg /\ Made(call[u].arg[2])
  <2>1. Timely(u) /\ call'[u].arg = call[u].arg
    BY <1>2, Zenon DEF Timely, Stays, Others
  <2> QED
    BY <2>1, Zenon DEF Timely, ScopesSettled, IssuerCall
<1>3. ASSUME NEW e, NEW set, Settled(e, set) PROVE Settled(e, set)'
  BY <1>2, <1>3, Zenon DEF Settled, Stays
<1>4. ASSUME NEW u \in Threads \ {t} PROVE IssuerCall(u)'
  <2>1. PICK c : c = call[u] /\ c = call'[u] /\ IssuerCall(u)
    BY Zenon DEF Stays, Others, ScopesSettled
  <2> SUFFICES ASSUME c # None PROVE IssuerCall(u)'
    BY <2>1, Zenon DEF IssuerCall
  <2>2. c.op = "issue" => c.arg[2] \in offered' /\ (c.at # "start" => Timely(u)')
    BY <2>1, Zenon DEF IssuerCall, Stays, Timely
  <2>3. ASSUME Pruning(u)
        PROVE  /\ c.old \subseteq offered'
               /\ c.at = "unlist" => c.scope \in offered' /\ Gone(c.scope)'
               /\ c.at \in {"find", "publish"} => c.old = {}
               /\ c.at = "publish" => Made(c.scope)' /\ c.scope.epoch = epoch(c.now)
               /\ Settled(epoch(c.now), c.old)'
    BY <1>1, <1>3, <2>1, <2>3, Zenon DEF IssuerCall, Stays, ScopesSettled
  <2> QED
    BY <2>1, <2>2, <2>3, Zenon DEF IssuerCall, Pruning
<1>5. ASSUME NEW e, Closed(e) PROVE Closed(e)'
  BY <1>3, <1>5, Zenon DEF Closed, Stays
<1> QED
  BY <1>1, <1>3, <1>4, <1>5, Zenon

\* Sets that grow by one element at most.
LEMMA AtMostOneMore ==
    ASSUME NEW S, NEW T, NEW x, IsFiniteSet(S), T \subseteq S \cup {x}
    PROVE  /\ IsFiniteSet(T) /\ Cardinality(T) \in Nat /\ Cardinality(S) \in Nat
           /\ Cardinality(T) <= Cardinality(S) + 1
<1>1. IsFiniteSet(S \cup {x}) /\ Cardinality(S) \in Nat
      /\ Cardinality(S \cup {x}) = IF x \in S THEN Cardinality(S) ELSE Cardinality(S) + 1
  BY FS_AddElement, FS_CardinalityType, Zenon
<1>2. IsFiniteSet(T) /\ Cardinality(T) <= Cardinality(S \cup {x}) /\ Cardinality(T) \in Nat
  BY <1>1, FS_Subset, FS_CardinalityType, Zenon
<1> QED
  BY <1>1, <1>2

LEMMA PendingStays ==
    ASSUME ScopesSettled, NEW t \in Threads, Stays(t), ~At(t, "issue", "sign")', NEW m, NEW e
    PROVE  Pending(m, e)' \subseteq Pending(m, e) \ {t}
<1> SUFFICES ASSUME NEW u \in Threads, u \in Pending(m, e)' PROVE u \in Pending(m, e) \ {t}
  BY Zenon DEF Pending
<1>1. u # t /\ call'[u] = call[u] /\ IssuerCall(u)
  BY Zenon DEF Pending, Stays, Others, ScopesSettled
<1>2. PICK s : s = call[u].arg[2] /\ s = call'[u].arg[2] /\ Made(s)
  BY <1>1, Zenon DEF Pending, At, IssuerCall, ScopesSettled
<1>3. Gone(s) => Gone(s)'
  BY <1>2, Zenon DEF Stays
<1> QED
  BY <1>1, <1>2, <1>3, Zenon DEF Pending, At

LEMMA QuotaFrame ==
    ASSUME NEW m, NEW e, Quota(m, e), UNCHANGED <<Issued(m, e), Tokens(m, e)>>,
           Pending(m, e)' \subseteq Pending(m, e), Closed(e) => Closed(e)'
    PROVE  Quota(m, e)'
<1>1. IsFiniteSet(Pending(m, e)') /\ Cardinality(Pending(m, e)') <= Cardinality(Pending(m, e))
      /\ Cardinality(Pending(m, e)') \in Nat /\ Cardinality(Pending(m, e)) \in Nat
      /\ Cardinality(Tokens(m, e)) \in Nat
  BY FS_Subset, FS_CardinalityType, Zenon DEF Quota
<1>2. UNCHANGED Count(m, e) /\ Count(m, e) \in Nat
  BY AnonymousAssumption DEF Count, Quota
<1>3. Spent(m, e)' <= Spent(m, e) /\ Spent(m, e)' \in Nat /\ Spent(m, e) \in Nat
  BY <1>1 DEF Spent
<1> QED
  BY <1>1, <1>2, <1>3, AnonymousAssumption DEF Quota

LEMMA ScopesKept ==
    ASSUME ScopesSettled, NEW t \in Threads, Stays(t), IssuerCall(t)', UNCHANGED <<scopes, offered>>
    PROVE  ScopesSettled'
<1>1. ASSUME NEW s \in offered
      PROVE  Made(s)' /\ (s \in scopes' \/ Gone(s)') /\ Settled(s.epoch, {})'
  BY <1>1, Frame, Zenon DEF ScopesSettled, Stays
<1>2. \A u \in Threads : IssuerCall(u)'
  BY Frame, Zenon
<1> QED
  BY <1>1, <1>2, Zenon DEF ScopesSettled, Stays

\* A step that changes neither scopes nor counters nor what was signed.
LEMMA QuietStep ==
    ASSUME QuotaInv, UseInv', NEW t \in Threads, Stays(t), IssuerCall(t)',
           ~At(t, "issue", "sign")', UNCHANGED <<scopes, offered, issuance, signed>>
    PROVE  QuotaInv'
<1>0. ScopesSettled
  BY Zenon DEF QuotaInv
<1>1. ScopesSettled'
  BY <1>0, ScopesKept, Zenon
<1>2. ASSUME NEW m \in Members, NEW e \in Nat PROVE Quota(m, e)'
  <2>1. Quota(m, e) /\ (Closed(e) => Closed(e)') /\ Pending(m, e)' \subseteq Pending(m, e)
    BY <1>0, Frame, PendingStays, Zenon DEF QuotaInv
  <2>2. UNCHANGED <<Issued(m, e), Tokens(m, e)>>
    BY Zenon DEF Issued, Tokens
  <2> QED
    BY <2>1, <2>2, QuotaFrame, Zenon
<1> QED
  BY <1>1, <1>2, Zenon DEF QuotaInv

\* The steps of the verifier concern the issuer in no way.
LEMMA VerifierSteps ==
    ASSUME QuotaInv, UseInv', NEW t \in Threads, UNCHANGED issuer, clock' = clock,
           call[t] # None, call[t].op \in {"add", "redeem"}, Others(t),
           \/ call'[t] = None
           \/ /\ call'[t].op = call[t].op /\ call'[t].now = call[t].now
              /\ call'[t].arg = call[t].arg
    PROVE  QuotaInv'
<1>1. ScopesSettled /\ UNCHANGED <<keys, scopes, issuance, made, offered, signed>>
  BY Zenon DEF QuotaInv, issuer
<1>2. Stays(t)
  BY <1>1, GoneStays DEF Stays, ScopesSettled
<1>3. IssuerCall(t)' /\ ~At(t, "issue", "sign")'
  BY Zenon DEF IssuerCall, Pruning, At
<1> QED
  BY <1>1, <1>2, <1>3, QuietStep, Zenon

LEMMA CollectQuota ==
    ASSUME QuotaInv, UseInv', NEW t \in Threads, Collect(t)
    PROVE  QuotaInv'
<1>0. ScopesSettled /\ Typed /\ call[t] # None /\ call[t].op \in {"challenge", "prune"}
  BY Zenon DEF QuotaInv, UseInv, Collect, At
<1>1. PICK now, old : now = call[t].now /\ old = Expired(scopes, now)
  BY Zenon
<1>2. Moves(t, "drop", old, call[t].scope)
  BY <1>0, <1>1, Moved, Zenon DEF Collect
<1>3. Stays(t)
  BY <1>0, <1>2, GoneStays DEF Collect, Stays, Moves, ScopesSettled
<1>4. Settled(epoch(now), old)
  <2> SUFFICES ASSUME NEW u \in Threads, Timely(u), call[u].arg[2].epoch < epoch(now)
               PROVE  call[u].arg[2] \in old \/ Gone(call[u].arg[2])
    BY Zenon DEF Settled
  <2>1. PICK s \in offered : s = call[u].arg[2] /\ Made(s) /\ (s \in scopes \/ Gone(s))
    BY <1>0, Zenon DEF ScopesSettled, IssuerCall, Timely
  <2>2. now \in Nat
    BY <1>0, <1>1, Zenon DEF Typed, CallSound
  <2>3. \A e \in Nat : e < epoch(now) => (e + 1) * EpochSeconds <= now
    BY <2>2, Epochs
  <2>4. Expiry(s) <= now
    BY <2>1, <2>3, Zenon DEF Expiry, Made
  <2> QED
    BY <1>1, <2>1, <2>4, Zenon DEF Expired
<1>5. Settled(epoch(now), old)'
  BY <1>0, <1>3, <1>4, Frame, Zenon
<1>6. IssuerCall(t)'
  BY <1>0, <1>1, <1>2, <1>5, Zenon DEF IssuerCall, Moves, Collect, ScopesSettled, Expired
<1>7. ~At(t, "issue", "sign")'
  BY <1>0, <1>2, Zenon DEF At, Moves
<1> QED
  BY <1>3, <1>6, <1>7, QuietStep, Zenon DEF Collect

LEMMA DropKeyQuota ==
    ASSUME QuotaInv, UseInv', NEW t \in Threads, DropKey(t)
    PROVE  QuotaInv'
<1>0. ScopesSettled /\ Typed /\ call[t] # None /\ call[t].op \in {"challenge", "prune"}
      /\ call[t].at = "drop" /\ IssuerCall(t) /\ Pruning(t)
  BY Zenon DEF QuotaInv, UseInv, DropKey, InPrune, At, ScopesSettled, Pruning
<1>1. PICK s \in call[t].old : /\ keys' = [keys EXCEPT ![s.key.id] = None]
                               /\ call' = [call EXCEPT ![t].at = "unlist", ![t].scope = s]
  BY Zenon DEF DropKey
<1>2. s \in offered /\ Made(s) /\ s.key \in [id : Ids, n : Nat]
  BY <1>0, Zenon DEF IssuerCall, ScopesSettled, Made
<1>3. PICK c : c = call[t] /\ Moves(t, "unlist", c.old, s)
  BY <1>0, <1>1, Moved, Zenon
<1>a. /\ \A r : Made(r) /\ Gone(r) => Gone(r)'
      /\ keys' = [i \in Ids |-> keys'[i]]
  BY <1>0, <1>1, <1>2, GoneStays, Zenon
<1>4. Stays(t)
  BY <1>0, <1>3, <1>a DEF DropKey, Stays, Moves, ScopesSettled
<1>5. Gone(s)'
  BY <1>0, <1>1, <1>2, AnonymousAssumption, Zenon DEF Gone, ScopesSettled
<1>6. Settled(epoch(c.now), c.old)'
  BY <1>0, <1>3, <1>4, Frame, Zenon DEF IssuerCall
<1>7. offered' = offered
  BY Zenon DEF DropKey
<1>8. IssuerCall(t)'
  BY <1>0, <1>2, <1>3, <1>5, <1>6, <1>7, Zenon DEF IssuerCall, Moves
<1>9. ~At(t, "issue", "sign")'
  BY <1>3, Zenon DEF At, Moves
<1> QED
  BY <1>4, <1>8, <1>9, QuietStep, Zenon DEF DropKey

LEMMA CheckQuota ==
    ASSUME QuotaInv, UseInv', NEW t \in Threads, Check(t)
    PROVE  QuotaInv'
<1>0. ScopesSettled /\ Typed /\ call[t] # None /\ call[t].op = "issue"
  BY Zenon DEF QuotaInv, UseInv, Check, At
<1>1. UNCHANGED <<keys, scopes, issuance, made, offered, signed, clock>>
  BY Zenon DEF Check, issuer
<1>2. PICK c : c = call[t]
  BY Zenon
<1>3. \/ call'[t] = None /\ Others(t)
      \/ Moves(t, "count", c.old, c.scope) /\ c.arg[2].epoch = epoch(c.now)
  BY <1>0, <1>2, Moved, Zenon DEF Check
<1>4. Stays(t)
  BY <1>0, <1>1, <1>2, <1>3, GoneStays DEF Stays, Moves, ScopesSettled
<1>5. IssuerCall(t)'
  BY <1>0, <1>1, <1>2, <1>3, Zenon DEF IssuerCall, Moves, ScopesSettled, Pruning, Timely
<1>6. ~At(t, "issue", "sign")'
  BY <1>3, Zenon DEF At, Moves
<1> QED
  BY <1>1, <1>4, <1>5, <1>6, QuietStep, Zenon

\* A descriptor is removed after its key.
LEMMA DropScopeQuota ==
    ASSUME QuotaInv, UseInv', NEW t \in Threads, DropScope(t)
    PROVE  QuotaInv'
<1>0. ScopesSettled /\ Typed /\ call[t] # None /\ call[t].op \in {"challenge", "prune"}
      /\ call[t].at = "unlist" /\ IssuerCall(t) /\ Pruning(t)
      /\ UNCHANGED <<clock, keys, issuance, made, offered, signed>>
  BY Zenon DEF QuotaInv, UseInv, DropScope, InPrune, At, ScopesSettled, Pruning
<1>1. PICK c : c = call[t] /\ call' = [call EXCEPT ![t].at = "drop", ![t].old = c.old \ {c.scope}]
  BY <1>0, Zenon DEF DropScope, Typed
<1>2. Moves(t, "drop", c.old \ {c.scope}, c.scope)
  BY <1>0, <1>1, Moved, Zenon
<1>3. Stays(t)
  BY <1>0, <1>2, GoneStays DEF Stays, Moves, ScopesSettled
<1>4. c.old \subseteq offered /\ Gone(c.scope) /\ Settled(epoch(c.now), c.old)
  BY <1>0, <1>1, Zenon DEF IssuerCall
<1>5. Settled(epoch(c.now), c.old \ {c.scope})
  BY <1>4, Zenon DEF Settled
<1>6. Settled(epoch(c.now), c.old \ {c.scope})'
  BY <1>0, <1>3, <1>5, Frame, Zenon
<1>7. IssuerCall(t)'
  BY <1>0, <1>1, <1>2, <1>4, <1>6, Zenon DEF IssuerCall, Moves
<1>8. ~At(t, "issue", "sign")'
  BY <1>2, Zenon DEF At, Moves
<1>9. ScopesSettled'
  <2>1. \A s \in offered : Made(s)' /\ Settled(s.epoch, {})'
    BY <1>0, <1>3, Frame, Zenon DEF ScopesSettled
  <2>2. \A s \in offered : s \in scopes' \/ Gone(s)'
    BY <1>0, <1>1, <1>4, Zenon DEF ScopesSettled, DropScope, Gone
  <2>3. \A u \in Threads : IssuerCall(u)'
    BY <1>0, <1>3, <1>7, Frame, Zenon
  <2>4. scopes' \subseteq offered'
    BY <1>0, Zenon DEF ScopesSettled, DropScope
  <2> QED
    BY <1>0, <1>3, <2>1, <2>2, <2>3, <2>4, Zenon DEF ScopesSettled, Stays
<1>10. ASSUME NEW m \in Members, NEW e \in Nat PROVE Quota(m, e)'
  <2>1. Quota(m, e) /\ (Closed(e) => Closed(e)') /\ Pending(m, e)' \subseteq Pending(m, e)
    BY <1>0, <1>3, <1>8, Frame, PendingStays, Zenon DEF QuotaInv
  <2>2. UNCHANGED <<Issued(m, e), Tokens(m, e)>>
    BY <1>0, Zenon DEF Issued, Tokens
  <2> QED
    BY <2>1, <2>2, QuotaFrame, Zenon
<1> QED
  BY <1>9, <1>10, Zenon DEF QuotaInv

\* The counter of an epoch that is closed may go.
LEMMA QuotaClosed ==
    ASSUME NEW m, NEW e, Quota(m, e), Closed(e)', Issued(m, e)' \subseteq Issued(m, e),
           UNCHANGED Tokens(m, e), Pending(m, e)' \subseteq Pending(m, e)
    PROVE  Quota(m, e)'
<1>1. IsFiniteSet(Pending(m, e)') /\ Cardinality(Pending(m, e)') <= Cardinality(Pending(m, e))
      /\ Cardinality(Pending(m, e)') \in Nat /\ Cardinality(Pending(m, e)) \in Nat
      /\ Cardinality(Tokens(m, e)) \in Nat
  BY FS_Subset, FS_CardinalityType, Zenon DEF Quota
<1>2. Spent(m, e)' <= Spent(m, e) /\ Spent(m, e)' \in Nat /\ Spent(m, e) \in Nat
  BY <1>1 DEF Spent
<1> QED
  BY <1>1, <1>2, AnonymousAssumption DEF Quota

\* Whoever forgets the counters of the epochs before e has the keys of all their scopes
\* removed.
LEMMA Forgotten ==
    ASSUME NEW e \in Nat, Settled(e, {}), e <= epoch(clock), Typed
    PROVE  \A f \in Nat : f < e => Closed(f)
<1> SUFFICES ASSUME NEW f \in Nat, f < e PROVE Closed(f)
  BY Zenon
<1>1. epoch(clock) \in Nat /\ epoch(clock) > f
  BY Epochs DEF Typed
<1>2. ASSUME NEW u \in Threads, Timely(u), call[u].arg[2].epoch < f + 1
      PROVE  Gone(call[u].arg[2])
  <2>1. call[u].arg[2].epoch < e
    <3>1. call[u].now \in Nat /\ call[u].arg[2].epoch = epoch(call[u].now)
      BY <1>2, Zenon DEF Timely, Typed, CallSound
    <3>2. epoch(call[u].now) \in Nat
      BY <3>1, Epochs
    <3> QED
      BY <1>2, <3>1, <3>2
  <2> QED
    BY <1>2, <2>1, Zenon DEF Settled
<1> QED
  BY <1>1, <1>2, Zenon DEF Closed, Settled

LEMMA DropCountersQuota ==
    ASSUME QuotaInv, UseInv', NEW t \in Threads, DropCounters(t)
    PROVE  QuotaInv'
<1>0. ScopesSettled /\ Typed /\ call[t] # None /\ call[t].op \in {"challenge", "prune"}
      /\ call[t].at = "drop" /\ IssuerCall(t) /\ Pruning(t) /\ call[t].old = {}
      /\ UNCHANGED <<clock, keys, scopes, made, offered, signed>>
      /\ issuance' = {c \in issuance : c[2] >= epoch(call[t].now)}
  BY Zenon DEF QuotaInv, UseInv, DropCounters, InPrune, At, ScopesSettled, Pruning
<1>1. PICK c : c = call[t]
  BY Zenon
<1>2. (call'[t] = None /\ Others(t)) \/ Moves(t, "find", {}, c.scope)
  BY <1>0, <1>1, Moved, Zenon DEF DropCounters
<1>3. Stays(t)
  BY <1>0, <1>2, GoneStays DEF Stays, Moves, ScopesSettled
<1>4. Settled(epoch(c.now), {}) /\ Settled(epoch(c.now), {})'
  BY <1>0, <1>1, <1>3, Frame, Zenon DEF IssuerCall
<1>5. IssuerCall(t)' /\ ~At(t, "issue", "sign")'
  BY <1>0, <1>1, <1>2, <1>4, Zenon DEF IssuerCall, Moves, At
<1>6. ScopesSettled'
  BY <1>0, <1>3, <1>5, ScopesKept, Zenon
<1>7. c.now \in Nat /\ clock \in Nat /\ epoch(c.now) \in Nat /\ epoch(c.now) <= epoch(clock)
  BY <1>0, <1>1, Epochs, Zenon DEF Typed, CallSound
<1>8. ASSUME NEW m \in Members, NEW e \in Nat PROVE Quota(m, e)'
  <2>1. Quota(m, e) /\ (Closed(e) => Closed(e)') /\ Pending(m, e)' \subseteq Pending(m, e)
    BY <1>0, <1>3, <1>5, Frame, PendingStays, Zenon DEF QuotaInv
  <2>2. UNCHANGED Tokens(m, e) /\ Issued(m, e)' \subseteq Issued(m, e)
    BY <1>0, Zenon DEF Issued, Tokens
  <2>3. CASE e < epoch(c.now)
    <3>1. Closed(e)
      BY <1>0, <1>4, <1>7, <2>3, Forgotten, Zenon
    <3> QED
      BY <2>1, <2>2, <3>1, QuotaClosed, Zenon
  <2>4. CASE ~(e < epoch(c.now))
    <3>1. UNCHANGED Issued(m, e)
      BY <1>0, <1>1, <1>7, <2>4 DEF Issued
    <3> QED
      BY <2>1, <2>2, <3>1, QuotaFrame, Zenon
  <2> QED
    BY <2>3, <2>4, Zenon
<1> QED
  BY <1>6, <1>8, Zenon DEF QuotaInv

\* challenge finds a scope, which was offered before, gives up, or generates a new key.
LEMMA FindQuota ==
    ASSUME QuotaInv, UseInv', NEW t \in Threads, Find(t)
    PROVE  QuotaInv'
<1>0. ScopesSettled /\ Typed /\ call[t] # None /\ call[t].op = "challenge"
      /\ call[t].at = "find" /\ IssuerCall(t) /\ Pruning(t)
      /\ UNCHANGED <<clock, scopes, issuance, signed>>
  BY Zenon DEF QuotaInv, UseInv, Find, At, ScopesSettled, Pruning
<1>1. CASE End(t) /\ UNCHANGED <<keys, made>> /\ offered' \subseteq offered \cup scopes
           /\ offered \subseteq offered'
  <2>1. call'[t] = None /\ Others(t) /\ offered' = offered
    BY <1>0, <1>1, Moved, Zenon DEF ScopesSettled
  <2>2. Stays(t)
    BY <1>0, <1>1, <2>1, GoneStays DEF Stays, ScopesSettled
  <2>3. IssuerCall(t)' /\ ~At(t, "issue", "sign")'
    BY <2>1, Zenon DEF IssuerCall, At
  <2> QED
    BY <1>0, <2>1, <2>2, <2>3, QuietStep, Zenon
<1>2. ASSUME NEW i \in Ids, NEW key, key = [id |-> i, n |-> made'], made' = made + 1,
             keys' = [keys EXCEPT ![i] = key], offered' = offered,
             call' = [call EXCEPT ![t].at = "publish", ![t].scope =
                        [permission |-> call[t].arg, epoch |-> epoch(call[t].now), key |-> key]]
      PROVE  QuotaInv'
  <2>1. PICK c, scope : c = call[t] /\ scope = [permission |-> c.arg, epoch |-> epoch(c.now), key |-> key]
    BY Zenon
  <2>2. Moves(t, "publish", c.old, scope)
    BY <1>0, <1>2, <2>1, Moved, Zenon
  <2>3. /\ \A r : Made(r) /\ Gone(r) => Gone(r)'
        /\ keys' = [j \in Ids |-> keys'[j]]
    BY <1>0, <1>2, GoneStays, Zenon
  <2>4. Stays(t)
    BY <1>0, <1>2, <2>1, <2>2, <2>3 DEF Stays, Moves, ScopesSettled
  <2>5. c.now \in Nat /\ clock \in Nat /\ epoch(c.now) \in Nat /\ epoch(c.now) <= epoch(clock)
    BY <1>0, <2>1, Epochs, Zenon DEF Typed, CallSound
  <2>6. Made(scope)' /\ scope.epoch = epoch(c.now)
    BY <1>0, <1>2, <2>1, <2>5 DEF Made, ScopesSettled
  <2>7. c.old = {} /\ Settled(epoch(c.now), c.old)
    BY <1>0, <2>1, Zenon DEF IssuerCall
  <2>8. Settled(epoch(c.now), c.old)'
    BY <1>0, <2>4, <2>7, Frame, Zenon
  <2>9. IssuerCall(t)' /\ ~At(t, "issue", "sign")'
    BY <1>0, <1>2, <2>1, <2>2, <2>6, <2>7, <2>8, Zenon DEF IssuerCall, Moves, At
  <2> QED
    BY <1>0, <1>2, <2>4, <2>9, QuietStep, Zenon
<1> QED
  BY <1>1, <1>2, Zenon DEF Find

\* A scope of an epoch is offered when the keys of all earlier ones are removed.
LEMMA PublishQuota ==
    ASSUME QuotaInv, UseInv', NEW t \in Threads, Publish(t)
    PROVE  QuotaInv'
<1>0. ScopesSettled /\ Typed /\ call[t] # None /\ call[t].op = "challenge"
      /\ call[t].at = "publish" /\ IssuerCall(t) /\ Pruning(t)
      /\ UNCHANGED <<clock, keys, issuance, made, signed>>
  BY Zenon DEF QuotaInv, UseInv, Publish, At, ScopesSettled, Pruning
<1>1. PICK c, scope : c = call[t] /\ scope = c.scope
  BY Zenon
<1>2. call'[t] = None /\ Others(t) /\ scopes' = scopes \cup {scope} /\ offered' = offered \cup {scope}
  BY <1>0, <1>1, Moved, Zenon DEF Publish
<1>3. Stays(t)
  BY <1>0, <1>2, GoneStays DEF Stays, ScopesSettled
<1>4. IssuerCall(t)' /\ ~At(t, "issue", "sign")'
  BY <1>2, Zenon DEF IssuerCall, At
<1>5. Made(scope) /\ Settled(scope.epoch, {})
  BY <1>0, <1>1, Zenon DEF IssuerCall
<1>6. ScopesSettled'
  <2>1. \A s \in offered' : Made(s)' /\ Settled(s.epoch, {})'
    BY <1>0, <1>2, <1>3, <1>5, Frame, Zenon DEF ScopesSettled
  <2>2. \A s \in offered' : s \in scopes' \/ Gone(s)'
    BY <1>0, <1>2, Zenon DEF ScopesSettled, Gone
  <2>3. \A u \in Threads : IssuerCall(u)'
    BY <1>0, <1>3, <1>4, Frame, Zenon
  <2> QED
    BY <1>0, <1>2, <1>3, <2>1, <2>2, <2>3, Zenon DEF ScopesSettled, Stays
<1>7. ASSUME NEW m \in Members, NEW e \in Nat PROVE Quota(m, e)'
  <2>1. Quota(m, e) /\ (Closed(e) => Closed(e)') /\ Pending(m, e)' \subseteq Pending(m, e)
    BY <1>0, <1>3, <1>4, Frame, PendingStays, Zenon DEF QuotaInv
  <2>2. UNCHANGED <<Issued(m, e), Tokens(m, e)>>
    BY <1>0, Zenon DEF Issued, Tokens
  <2> QED
    BY <2>1, <2>2, QuotaFrame, Zenon
<1> QED
  BY <1>6, <1>7, Zenon DEF QuotaInv

\* The counter goes up before the key is looked for; counters of past epochs go.
LEMMA CountQuota ==
    ASSUME QuotaInv, UseInv', NEW t \in Threads, CountIssue(t)
    PROVE  QuotaInv'
<1>0. ScopesSettled /\ Typed /\ call[t] # None /\ call[t].op = "issue"
      /\ call[t].at = "count" /\ IssuerCall(t)
      /\ UNCHANGED <<clock, keys, scopes, made, offered, signed>>
  BY Zenon DEF QuotaInv, UseInv, CountIssue, At, ScopesSettled
<1>1. PICK c, s : c = call[t] /\ s = c.arg[2] /\ s \in offered /\ s.epoch = epoch(c.now)
  BY <1>0, Zenon DEF IssuerCall, Timely
<1>2. PICK n, f : n = c.arg[1] /\ f = epoch(c.now) /\ f \in Nat /\ f <= epoch(clock)
  BY <1>0, <1>1, Epochs, Zenon DEF Typed, CallSound
<1> DEFINE kept == {x \in issuance : x[2] >= f}
<1>3. \/ Count(n, f) >= MaxIssues /\ issuance' = kept /\ call'[t] = None /\ Others(t)
      \/ /\ ~(Count(n, f) >= MaxIssues) /\ Moves(t, "sign", c.old, c.scope)
         /\ issuance' = (kept \ Issued(n, f)) \cup {<<n, f, Count(n, f) + 1>>}
  BY <1>0, <1>1, <1>2, Moved, Zenon DEF CountIssue
<1>4. Stays(t)
  BY <1>0, <1>1, <1>3, GoneStays DEF Stays, Moves, ScopesSettled
<1>5. IssuerCall(t)'
  BY <1>0, <1>1, <1>3, Zenon DEF IssuerCall, Moves, Timely, Pruning
<1>6. ScopesSettled'
  BY <1>0, <1>4, <1>5, ScopesKept, Zenon
<1>7. Settled(f, {}) /\ \A e \in Nat : e < f => Closed(e)
  BY <1>0, <1>1, <1>2, Forgotten, Zenon DEF ScopesSettled
<1>8. ASSUME NEW m, NEW e PROVE Pending(m, e)' \subseteq Pending(m, e) \cup
               (IF m = n /\ e = f /\ ~Gone(s) /\ At(t, "issue", "sign")' THEN {t} ELSE {})
  <2>1. ASSUME NEW u \in Pending(m, e)', u # t PROVE u \in Pending(m, e)
    <3>1. call'[u] = call[u]
      BY <1>4, <2>1, Zenon DEF Stays, Others, Pending
    <3> QED
      BY <1>0, <3>1, Zenon DEF Pending, At, Gone
  <2>2. ASSUME t \in Pending(m, e)' PROVE m = n /\ e = f /\ ~Gone(s) /\ At(t, "issue", "sign")'
    BY <1>0, <1>1, <1>2, <1>3, <2>2, Zenon DEF Pending, At, Gone, Moves
  <2> QED
    BY <2>1, <2>2, Zenon
<1>9. ASSUME NEW m \in Members, NEW e \in Nat PROVE Quota(m, e)'
  <2>1. Quota(m, e) /\ (Closed(e) => Closed(e)') /\ UNCHANGED Tokens(m, e)
    BY <1>0, <1>4, Frame, Zenon DEF QuotaInv, Tokens
  <2>2. CASE e < f
    <3>1. Issued(m, e)' \subseteq Issued(m, e)
      BY <1>2, <1>3, <2>2 DEF Issued
    <3>2. Pending(m, e)' \subseteq Pending(m, e) /\ Closed(e)'
      BY <1>7, <1>8, <2>1, <2>2
    <3> QED
      BY <2>1, <3>1, <3>2, QuotaClosed, Zenon
  <2>3. CASE ~(e < f) /\ ~(m = n /\ e = f)
    <3>1. UNCHANGED Issued(m, e)
      BY <1>2, <1>3, <2>3 DEF Issued
    <3>2. Pending(m, e)' \subseteq Pending(m, e)
      BY <1>8, <2>3, Zenon
    <3> QED
      BY <2>1, <3>1, <3>2, QuotaFrame, Zenon
  <2>4. CASE m = n /\ e = f
    <3>1. CASE issuance' = kept /\ call'[t] = None
      <4>1. UNCHANGED Issued(m, e)
        BY <1>2, <2>4, <3>1 DEF Issued
      <4>2. Pending(m, e)' \subseteq Pending(m, e)
        BY <1>8, <3>1, Zenon DEF At
      <4> QED
        BY <2>1, <4>1, <4>2, QuotaFrame, Zenon
    <3>2. CASE /\ ~(Count(n, f) >= MaxIssues)
               /\ issuance' = (kept \ Issued(n, f)) \cup {<<n, f, Count(n, f) + 1>>}
      <4>1. Issued(m, e)' = {<<m, e, Count(m, e) + 1>>}
        BY <1>2, <2>4, <3>2 DEF Issued
      <4>2. Count(m, e) \in Nat /\ Count(m, e) + 1 <= MaxIssues
        BY <2>1, <2>4, <3>2, AnonymousAssumption DEF Count, Quota
      <4>3. Count(m, e)' = Count(m, e) + 1
        <5> DEFINE k == Count(m, e) + 1
        <5>1. \A x \in {<<m, e, k>>} : x[3] = k
          OBVIOUS
        <5>2. Count(m, e)' = (CHOOSE x \in {<<m, e, k>>} : TRUE)[3]
          BY <4>1, Zenon DEF Count
        <5> QED
          BY <5>1, <5>2, Zenon
      <4>4. /\ IsFiniteSet(Tokens(m, e)) /\ Cardinality(Tokens(m, e)) \in Nat
            /\ IsFiniteSet(Pending(m, e)) /\ Cardinality(Pending(m, e)) \in Nat
        BY <2>1, FS_CardinalityType, Zenon DEF Quota
      <4>5. CASE Gone(s)
        <5>1. Pending(m, e)' \subseteq Pending(m, e)
          BY <1>8, <4>5, Zenon
        <5>2. IsFiniteSet(Pending(m, e)') /\ Cardinality(Pending(m, e)') \in Nat
              /\ Cardinality(Pending(m, e)') <= Cardinality(Pending(m, e))
          BY <4>4, <5>1, FS_Subset, FS_CardinalityType, Zenon
        <5>3. Spent(m, e)' <= Spent(m, e) /\ Spent(m, e) \in Nat /\ Spent(m, e)' \in Nat
          BY <2>1, <4>4, <5>2 DEF Spent
        <5>4. Spent(m, e)' <= MaxIssues /\ (Closed(e)' \/ Spent(m, e)' <= Count(m, e)')
          BY <2>1, <4>2, <4>3, <5>3, AnonymousAssumption DEF Quota
        <5> QED
          BY <2>1, <4>1, <4>2, <4>4, <5>2, <5>4, AnonymousAssumption DEF Quota
      <4>6. CASE ~Gone(s)
        <5>1. Timely(t) /\ call[t].arg[2] = s /\ s.epoch = e
          BY <1>0, <1>1, <1>2, <2>4, Zenon DEF IssuerCall
        <5>2. ~Closed(e)
          BY <4>6, <5>1 DEF Closed, Settled
        <5>3. Spent(m, e) <= Count(m, e)
          BY <2>1, <5>2, Zenon DEF Quota
        <5>5. Pending(m, e)' \subseteq Pending(m, e) \cup {t}
          BY <1>8, Zenon
        <5>6. IsFiniteSet(Pending(m, e)') /\ Cardinality(Pending(m, e)') \in Nat
              /\ Cardinality(Pending(m, e)') <= Cardinality(Pending(m, e)) + 1
          BY <4>4, <5>5, AtMostOneMore, Zenon
        <5>7. Spent(m, e)' <= Spent(m, e) + 1 /\ Spent(m, e) \in Nat /\ Spent(m, e)' \in Nat
          BY <2>1, <4>4, <5>6 DEF Spent
        <5>8. Spent(m, e)' <= MaxIssues /\ Spent(m, e)' <= Count(m, e)'
          BY <4>2, <4>3, <5>3, <5>7, AnonymousAssumption
        <5> QED
          BY <2>1, <4>1, <4>2, <4>4, <5>6, <5>8, AnonymousAssumption DEF Quota
      <4> QED
        BY <4>5, <4>6, Zenon
    <3> QED
      BY <1>3, <3>1, <3>2, Zenon
  <2> QED
    BY <1>2, <2>2, <2>3, <2>4, Zenon
<1> QED
  BY <1>6, <1>9, Zenon DEF QuotaInv

\* A call that was counted signs, if the scope still has its key.
LEMMA SignQuota ==
    ASSUME QuotaInv, UseInv', NEW t \in Threads, Sign(t)
    PROVE  QuotaInv'
<1>0. ScopesSettled /\ Typed /\ call[t] # None /\ At(t, "issue", "sign")
      /\ UNCHANGED <<clock, keys, scopes, issuance, made, offered>>
  BY Zenon DEF QuotaInv, UseInv, Sign, At, ScopesSettled
<1>1. call'[t] = None /\ Others(t)
  BY <1>0, Moved, Zenon DEF Sign
<1>2. Stays(t)
  BY <1>0, <1>1, GoneStays DEF Stays, ScopesSettled
<1>3. IssuerCall(t)' /\ ~At(t, "issue", "sign")'
  BY <1>1, Zenon DEF IssuerCall, At
<1>4. ScopesSettled'
  BY <1>0, <1>2, <1>3, ScopesKept, Zenon
<1>5. PICK n, s, k : n = call[t].arg[1] /\ s = call[t].arg[2] /\ k = Cardinality(signed)
  BY Zenon
<1>6. signed' = IF Gone(s) THEN signed ELSE signed \cup {<<n, s, k>>}
  BY <1>5, Zenon DEF Sign, Gone
<1>7. ASSUME NEW m \in Members, NEW e \in Nat PROVE Quota(m, e)'
  <2>1. Quota(m, e) /\ (Closed(e) => Closed(e)') /\ Pending(m, e)' \subseteq Pending(m, e) \ {t}
    BY <1>0, <1>2, <1>3, Frame, PendingStays, Zenon DEF QuotaInv
  <2>2. UNCHANGED Issued(m, e)
    BY <1>0, Zenon DEF Issued
  <2>3. CASE ~(m = n /\ e = s.epoch /\ ~Gone(s))
    <3>1. UNCHANGED Tokens(m, e)
      BY <1>6, <2>3 DEF Tokens
    <3> QED
      BY <2>1, <2>2, <3>1, QuotaFrame, Zenon
  <2>4. CASE m = n /\ e = s.epoch /\ ~Gone(s)
    <3>1. t \in Pending(m, e)
      BY <1>0, <1>5, <2>4, Zenon DEF Pending
    <3>2. /\ IsFiniteSet(Tokens(m, e)) /\ Cardinality(Tokens(m, e)) \in Nat
          /\ IsFiniteSet(Pending(m, e)) /\ Cardinality(Pending(m, e)) \in Nat
      BY <2>1, FS_CardinalityType, Zenon DEF Quota
    <3>3. IsFiniteSet(Pending(m, e) \ {t})
          /\ Cardinality(Pending(m, e) \ {t}) = Cardinality(Pending(m, e)) - 1
      BY <3>1, <3>2, FS_RemoveElement, Zenon
    <3>4. IsFiniteSet(Pending(m, e)') /\ Cardinality(Pending(m, e)') \in Nat
          /\ Cardinality(Pending(m, e)') <= Cardinality(Pending(m, e)) - 1
      BY <2>1, <3>3, FS_Subset, FS_CardinalityType
    <3>5. Tokens(m, e)' \subseteq Tokens(m, e) \cup {<<n, s, k>>}
      BY <1>6, Zenon DEF Tokens
    <3>6. IsFiniteSet(Tokens(m, e)') /\ Cardinality(Tokens(m, e)') \in Nat
          /\ Cardinality(Tokens(m, e)') <= Cardinality(Tokens(m, e)) + 1
      BY <3>2, <3>5, AtMostOneMore, Zenon
    <3>7. Spent(m, e)' <= Spent(m, e) /\ Spent(m, e) \in Nat /\ Spent(m, e)' \in Nat
      BY <3>2, <3>4, <3>6 DEF Spent
    <3>8. UNCHANGED Count(m, e) /\ Count(m, e) \in Nat
      BY <2>1, <2>2, AnonymousAssumption DEF Count, Quota
    <3> QED
      BY <2>1, <2>2, <3>4, <3>6, <3>7, <3>8, AnonymousAssumption DEF Quota
  <2> QED
    BY <2>3, <2>4, Zenon
<1> QED
  BY <1>4, <1>7, Zenon DEF QuotaInv

\* No call that begins is given a scope of an epoch whose counters may be forgotten and
\* passes for one begun in time; and time only closes epochs.
LEMMA BeginQuota ==
    ASSUME QuotaInv, UseInv', NEW t \in Threads, NEW op, NEW arg, Begin(t, op, arg),
           op = "issue" => arg[2] \in offered
    PROVE  QuotaInv'
<1>0. ScopesSettled /\ Typed /\ call = [u \in Threads |-> call[u]]
      /\ UNCHANGED <<clock, keys, scopes, issuance, made, offered, signed>>
  BY Zenon DEF QuotaInv, UseInv, Typed, Begin, issuer
<1>1. /\ \A u \in Threads \ {t} : call'[u] = call[u]
      /\ call'[t] = [op |-> op, now |-> clock, arg |-> arg, at |-> "start", old |-> {},
                     scope |-> None, time |-> clock]
  BY <1>0, Zenon DEF Begin
<1>2. clock \in Nat /\ epoch(clock) \in Nat
  BY <1>0, Epochs DEF Typed
<1>3. ASSUME NEW e \in Nat, e <= epoch(clock), NEW set, Settled(e, set) PROVE Settled(e, set)'
  <2> SUFFICES ASSUME NEW u \in Threads, Timely(u)', call'[u].arg[2].epoch < e
               PROVE  call'[u].arg[2] \in set \/ Gone(call[u].arg[2])
    BY <1>0, <1>1, <1>2, <1>3 DEF Settled, Gone, Timely
  <2>1. u # t
    BY <1>1, <1>2, <1>3 DEF Timely
  <2> QED
    BY <1>1, <1>3, <2>1, Zenon DEF Settled, Timely
<1>4. \A s : Made(s)' <=> Made(s)
  BY <1>0, Zenon DEF Made
<1>5. \A s : Gone(s)' <=> Gone(s)
  BY <1>0, Zenon DEF Gone
<1>6. ASSUME NEW u \in Threads \ {t} PROVE IssuerCall(u)'
  <2>1. PICK c : c = call[u] /\ c = call'[u] /\ IssuerCall(u)
    BY <1>0, <1>1, Zenon DEF ScopesSettled
  <2> SUFFICES ASSUME c # None PROVE IssuerCall(u)'
    BY <2>1, Zenon DEF IssuerCall
  <2>2. epoch(c.now) \in Nat /\ epoch(c.now) <= epoch(clock)
    BY <1>0, <1>2, <2>1, Epochs, Zenon DEF Typed, CallSound
  <2>3. Pruning(u) => Settled(epoch(c.now), c.old)'
    BY <1>3, <2>1, <2>2, Zenon DEF IssuerCall
  <2> QED
    BY <1>0, <1>4, <1>5, <2>1, <2>3, Zenon DEF IssuerCall, Pruning, Timely
<1>7. IssuerCall(t)'
  BY <1>0, <1>1 DEF IssuerCall, Pruning
<1>8. ScopesSettled'
  <2>1. \A s \in offered : Made(s)' /\ (s \in scopes' \/ Gone(s)') /\ Settled(s.epoch, {})'
    BY <1>0, <1>3, <1>4, <1>5, Zenon DEF ScopesSettled, Made
  <2> QED
    BY <1>0, <1>6, <1>7, <2>1, Zenon DEF ScopesSettled
<1>9. ASSUME NEW m \in Members, NEW e \in Nat PROVE Quota(m, e)'
  <2>1. Pending(m, e)' \subseteq Pending(m, e)
    BY <1>1, <1>5 DEF Pending, At
  <2>2. Closed(e) => Closed(e)'
    BY <1>0, <1>2, <1>3 DEF Closed
  <2>3. UNCHANGED <<Issued(m, e), Tokens(m, e)>>
    BY <1>0, Zenon DEF Issued, Tokens
  <2> QED
    BY <2>1, <2>2, <2>3, QuotaFrame, Zenon DEF QuotaInv
<1> QED
  BY <1>8, <1>9, Zenon DEF QuotaInv

LEMMA TimeQuota ==
    ASSUME QuotaInv, UseInv', Tick \/ UNCHANGED vars
    PROVE  QuotaInv'
<1>0. ScopesSettled /\ Typed /\ UNCHANGED <<keys, scopes, issuance, made, offered, signed, call>>
  BY Zenon DEF QuotaInv, UseInv, Tick, vars, issuer
<1>1. clock \in Nat /\ clock' \in Nat /\ clock <= clock'
  BY <1>0 DEF Typed, Tick, vars
<1>2. epoch(clock) \in Nat /\ epoch(clock') \in Nat /\ epoch(clock) <= epoch(clock')
  BY <1>1, Epochs, Zenon
<1>3. \A e, set : Settled(e, set)' <=> Settled(e, set)
  BY <1>0, Zenon DEF Settled, Timely, Gone
<1>4. \A s : Made(s) => Made(s)'
  BY <1>0, <1>2 DEF Made
<1>5. ASSUME NEW u \in Threads PROVE IssuerCall(u)'
  <2>1. PICK c : c = call[u] /\ c = call'[u] /\ IssuerCall(u)
    BY <1>0, Zenon DEF ScopesSettled
  <2> QED
    BY <1>0, <1>3, <1>4, <2>1, Zenon DEF IssuerCall, Pruning, Timely, Gone
<1>6. ScopesSettled'
  BY <1>0, <1>3, <1>4, <1>5, Zenon DEF ScopesSettled, Gone
<1>7. ASSUME NEW m \in Members, NEW e \in Nat PROVE Quota(m, e)'
  <2>1. Pending(m, e)' \subseteq Pending(m, e) /\ UNCHANGED <<Issued(m, e), Tokens(m, e)>>
    BY <1>0, Zenon DEF Pending, At, Gone, Issued, Tokens
  <2>2. Closed(e) => Closed(e)'
    BY <1>2, <1>3 DEF Closed
  <2> QED
    BY <2>1, <2>2, QuotaFrame, Zenon DEF QuotaInv
<1> QED
  BY <1>6, <1>7, Zenon DEF QuotaInv

LEMMA VerifierQuota ==
    ASSUME QuotaInv, UseInv', NEW t \in Threads,
           CollectListed(t) \/ Unlist(t) \/ Forget(t) \/ List(t) \/ AddKey(t) \/ Look(t)
             \/ Reserve(t) \/ Verify(t)
    PROVE  QuotaInv'
<1>0. Typed /\ call = [u \in Threads |-> call[u]]
  BY Zenon DEF QuotaInv, UseInv, Typed
<1>1. UNCHANGED <<clock, issuer>> /\ call[t] # None /\ call[t].op \in {"add", "redeem"}
  BY Zenon DEF CollectListed, Unlist, Forget, List, AddKey, Look, Reserve, Verify, InClean, At
<1>2. CASE End(t)
  <2>1. call'[t] = None /\ Others(t)
    BY <1>0, <1>1, <1>2, Moved, Zenon
  <2> QED
    BY <1>1, <2>1, VerifierSteps, Zenon
<1>3. ASSUME NEW at, NEW old, NEW scope, Moves(t, at, old, scope) PROVE QuotaInv'
  BY <1>1, <1>3, VerifierSteps, Zenon DEF Moves
<1>4. CASE Reserve(t) /\ ~End(t)
  <2>1. call' = [call EXCEPT ![t] = [call[t] EXCEPT !.at = "verify", !.time = clock]]
    BY <1>0, <1>4, Zenon DEF Reserve
  <2>2. call'[t] = [call[t] EXCEPT !.at = "verify", !.time = clock] /\ Others(t)
    BY <1>0, <2>1, Zenon DEF Others
  <2>3. /\ call'[t].op = call[t].op /\ call'[t].now = call[t].now /\ call'[t].arg = call[t].arg
    BY <1>0, <1>1, <2>2, Zenon DEF Typed, CallSound
  <2> QED
    BY <1>1, <2>2, <2>3, VerifierSteps, Zenon
<1>5. CASE (\E at : To(t, at)) \/ (\E at, old : call' = [call EXCEPT ![t].at = at, ![t].old = old])
           \/ (\E at, scope : call' = [call EXCEPT ![t].at = at, ![t].scope = scope])
  BY <1>0, <1>1, <1>3, <1>5, Moved, Zenon
<1>6. ASSUME Forget(t) PROVE \E at, old : call' = [call EXCEPT ![t].at = at, ![t].old = old]
  BY <1>0, <1>6, Zenon DEF Forget
<1> QED
  BY <1>2, <1>4, <1>5, <1>6, Zenon DEF CollectListed, Unlist, List, AddKey, Look, Verify

LEMMA StepsKeepQuota == QuotaInv /\ [Next]_vars => QuotaInv'
<1> SUFFICES ASSUME QuotaInv, [Next]_vars PROVE QuotaInv'
  BY Zenon
<1>0. UseInv'
  BY StepsKeepUse, Zenon DEF QuotaInv
<1>1. ASSUME NEW t \in Threads, Calls(t) PROVE QuotaInv'
  <2>1. CASE \E m \in Members, s \in offered : Begin(t, "issue", <<m, s>>)
    <3>1. PICK m \in Members, s \in offered : Begin(t, "issue", <<m, s>>)
      BY <2>1, Zenon
    <3>2. <<m, s>>[2] = s
      BY Zenon
    <3> QED
      BY <1>0, <3>1, <3>2, BeginQuota, Zenon
  <2> QED
    BY <1>0, <1>1, <2>1, BeginQuota, Zenon DEF Calls
<1>2. ASSUME NEW t \in Threads, Steps(t) PROVE QuotaInv'
  BY <1>0, <1>2, CollectQuota, DropKeyQuota, DropScopeQuota, DropCountersQuota, FindQuota,
     PublishQuota, CheckQuota, CountQuota, SignQuota, VerifierQuota, Zenon DEF Steps
<1> QED
  BY <1>0, <1>1, <1>2, TimeQuota, Zenon DEF Next

LEMMA InitQuota == Init => QuotaInv
<1> SUFFICES ASSUME Init PROVE QuotaInv
  BY Zenon
<1>1. ScopesSettled
  BY Zenon DEF Init, ScopesSettled, IssuerCall
<1>2. ASSUME NEW m \in Members, NEW e \in Nat PROVE Quota(m, e)
  <2>1. Tokens(m, e) = {} /\ Pending(m, e) = {} /\ Issued(m, e) = {}
    BY Zenon DEF Init, Tokens, Pending, At, Issued
  <2> QED
    BY <2>1, FS_EmptySet, AnonymousAssumption DEF Quota, Spent, Count
<1> QED
  BY <1>1, <1>2, InitUse, Zenon DEF QuotaInv

\* No member gets more tokens of an epoch than its allowance, whatever calls interleave and
\* however late they run.
THEOREM QuotaIsKept == Spec => []QuotaHolds
<1>1. QuotaInv => QuotaHolds
  <2> SUFFICES ASSUME QuotaInv, NEW m \in Members, NEW e \in Nat
               PROVE  Cardinality(Tokens(m, e)) <= MaxIssues
    BY DEF QuotaHolds, Tokens
  <2>1. Quota(m, e)
    BY Zenon DEF QuotaInv
  <2>2. Cardinality(Tokens(m, e)) \in Nat /\ Cardinality(Pending(m, e)) \in Nat
    BY <2>1, FS_CardinalityType, Zenon DEF Quota
  <2> QED
    BY <2>1, <2>2, AnonymousAssumption DEF Quota, Spent
<1> QED
  BY <1>1, InitQuota, StepsKeepQuota, PTL DEF Spec

-----------------------------------------------------------------------------
(* Keys that are not expired.                                              *)
(*                                                                         *)
(* When only challenge prunes, it does so alone: no id is free for a new   *)
(* key between the two removals of one scope, so that the id of an expired *)
(* scope never leads to the key of another.                                *)

Holds(t) ==
    call[t] # None =>
      /\ call[t].op # "prune"
      /\ Pruning(t) =>
           /\ generating = t
           /\ call[t].old \subseteq scopes
           /\ \A s \in call[t].old : Expiry(s) <= clock
           /\ \A s \in scopes : Gone(s) => call[t].at = "unlist" /\ s = call[t].scope
           /\ call[t].at = "unlist" => Expiry(call[t].scope) <= clock
           /\ call[t].at = "publish" =>
                ~Gone(call[t].scope) /\ \A s \in scopes : s.key # call[t].scope.key

Serial ==
    /\ \A t \in Threads : Holds(t)
    /\ \A s \in offered : Expiry(s) <= clock \/ s \in scopes
    /\ \A s \in scopes : ~Gone(s) \/ (Expiry(s) <= clock /\ generating # None)
    /\ \A r, s \in scopes : r.key = s.key => r = s

SerialInv == QuotaInv /\ (mode = "issuer" => Serial)

\* The steps of all but the one that generates.
LEMMA SerialFrame ==
    ASSUME SerialInv, QuotaInv',
           \A u \in Threads : \/ call'[u] = call[u] \/ call'[u] = None
                              \/ call'[u].op # "prune" /\ ~Pruning(u)',
           UNCHANGED <<mode, keys, scopes, offered, generating>>, clock' \in Nat, clock <= clock'
    PROVE  SerialInv'
<1> SUFFICES ASSUME mode = "issuer" PROVE Serial'
  BY Zenon DEF SerialInv
<1>0. Serial /\ ScopesSettled /\ clock \in Nat
  BY Zenon DEF SerialInv, QuotaInv, UseInv, Typed
<1>1. \A s \in offered : Expiry(s) \in Nat
  BY <1>0, AnonymousAssumption DEF Expiry, ScopesSettled, Made
<1>2. scopes \subseteq offered
  BY <1>0, Zenon DEF ScopesSettled
<1>3. ASSUME NEW u \in Threads, call'[u] = call[u] PROVE Holds(u)'
  <2>1. PICK c : c = call[u] /\ c = call'[u] /\ Holds(u)
    BY <1>0, <1>3, Zenon DEF Serial
  <2>2. Pruning(u) /\ c # None /\ c.at = "unlist" => c.scope \in offered
    BY <1>0, <2>1, Zenon DEF ScopesSettled, IssuerCall
  <2> QED
    BY <1>0, <1>1, <1>2, <2>1, <2>2 DEF Holds, Pruning, Gone
<1>4. \A u \in Threads : Holds(u)'
  BY <1>3, Zenon DEF Holds
<1> QED
  BY <1>0, <1>1, <1>2, <1>4 DEF Serial, Gone

\* While one generates, no other does.
LEMMA Alone ==
    ASSUME Serial, NEW t \in Threads, Others(t), generating \in {None, t}
    PROVE  \A u \in Threads \ {t} : Holds(u)'
<1> SUFFICES ASSUME NEW u \in Threads \ {t} PROVE Holds(u)'
  BY Zenon
<1>1. PICK c : c = call[u] /\ c = call'[u] /\ Holds(u)
  BY Zenon DEF Serial, Others
<1> QED
  BY <1>1, AnonymousAssumption, Zenon DEF Holds, Pruning

LEMMA CollectSerial ==
    ASSUME SerialInv, QuotaInv', NEW t \in Threads, Collect(t)
    PROVE  SerialInv'
<1>0. /\ call[t] # None /\ Typed /\ ScopesSettled /\ clock \in Nat
      /\ UNCHANGED <<mode, clock, keys, scopes, offered>>
  BY Zenon DEF Collect, At, SerialInv, QuotaInv, UseInv, Typed
<1> SUFFICES ASSUME mode = "issuer" PROVE Serial'
  BY <1>0, Zenon DEF SerialInv
<1>1. Serial /\ call[t].op = "challenge" /\ generating = None /\ generating' = t
  BY <1>0, Zenon DEF SerialInv, Collect, Serial, Holds, At
<1>2. PICK c, old : c = call[t] /\ old = Expired(scopes, c.now) /\ Moves(t, "drop", old, c.scope)
  BY <1>0, Moved, Zenon DEF Collect
<1>3. Holds(t)'
  <2>1. old \subseteq scopes /\ \A s \in old : Expiry(s) <= clock
    <3>1. c.now \in Nat /\ c.now <= clock /\ \A s \in scopes : Expiry(s) \in Nat
      BY <1>0, <1>2, AnonymousAssumption DEF Typed, CallSound, Expiry, ScopesSettled, Made
    <3> QED
      BY <1>0, <1>2, <3>1 DEF Expired
  <2>2. \A s \in scopes : ~Gone(s)'
    BY <1>0, <1>1, Zenon DEF Serial, Gone
  <2> QED
    BY <1>0, <1>1, <1>2, <2>1, <2>2, Zenon DEF Holds, Moves
<1>4. \A u \in Threads \ {t} : Holds(u)'
  BY <1>1, <1>2, Alone, Zenon DEF Moves
<1> QED
  BY <1>0, <1>1, <1>3, <1>4, Zenon DEF Serial, Gone

\* The key that is removed is that of the scope.
LEMMA DropKeySerial ==
    ASSUME SerialInv, QuotaInv', NEW t \in Threads, DropKey(t)
    PROVE  SerialInv'
<1>0. /\ call[t] # None /\ Typed /\ ScopesSettled /\ Pruning(t) /\ call[t].at = "drop"
      /\ UNCHANGED <<mode, clock, scopes, offered, generating>>
  BY Zenon DEF DropKey, InPrune, At, SerialInv, QuotaInv, UseInv, Pruning
<1> SUFFICES ASSUME mode = "issuer" PROVE Serial'
  BY <1>0, Zenon DEF SerialInv
<1>1. Serial /\ Holds(t) /\ generating = t /\ t # None
  BY <1>0, AnonymousAssumption, Zenon DEF SerialInv, Serial, Holds
<1>2. PICK s \in call[t].old : /\ keys' = [keys EXCEPT ![s.key.id] = None]
                               /\ call' = [call EXCEPT ![t].at = "unlist", ![t].scope = s]
  BY Zenon DEF DropKey
<1>3. PICK c : c = call[t] /\ Moves(t, "unlist", c.old, s)
  BY <1>0, <1>2, Moved, Zenon
<1>4. s \in scopes /\ Expiry(s) <= clock /\ \A r \in scopes : ~Gone(r)
  BY <1>0, <1>1, Zenon DEF Holds
<1>5. ASSUME NEW r \in scopes, r # s PROVE ~Gone(r)'
  <2>1. keys[r.key.id] = r.key /\ keys[s.key.id] = s.key /\ r.key # s.key
    BY <1>1, <1>4, <1>5, Zenon DEF Gone, Serial
  <2>2. r.key.id \in Ids /\ s.key.id \in Ids /\ keys = [i \in Ids |-> keys[i]]
    BY <1>0, <1>4, Zenon DEF ScopesSettled, Made
  <2> QED
    BY <1>2, <2>1, <2>2, Zenon DEF Gone
<1>6. Holds(t)'
  BY <1>0, <1>1, <1>3, <1>4, <1>5, Zenon DEF Holds, Moves
<1>7. \A u \in Threads \ {t} : Holds(u)'
  BY <1>1, <1>3, Alone, Zenon DEF Moves
<1> QED
  BY <1>0, <1>1, <1>4, <1>5, <1>6, <1>7, Zenon DEF Serial

LEMMA DropScopeSerial ==
    ASSUME SerialInv, QuotaInv', NEW t \in Threads, DropScope(t)
    PROVE  SerialInv'
<1>0. /\ call[t] # None /\ Typed /\ ScopesSettled /\ Pruning(t) /\ call[t].at = "unlist"
      /\ UNCHANGED <<mode, clock, keys, offered, generating>>
  BY Zenon DEF DropScope, InPrune, At, SerialInv, QuotaInv, UseInv, Pruning
<1> SUFFICES ASSUME mode = "issuer" PROVE Serial'
  BY <1>0, Zenon DEF SerialInv
<1>1. Serial /\ Holds(t) /\ generating = t
  BY <1>0, Zenon DEF SerialInv, Serial, Holds
<1>2. PICK c : c = call[t] /\ call' = [call EXCEPT ![t].at = "drop", ![t].old = c.old \ {c.scope}]
               /\ scopes' = scopes \ {c.scope}
  BY <1>0, Zenon DEF DropScope, Typed
<1>3. Moves(t, "drop", c.old \ {c.scope}, c.scope)
  BY <1>0, <1>2, Moved, Zenon
<1>4. Expiry(c.scope) <= clock /\ \A s \in scopes' : ~Gone(s) /\ ~Gone(s)'
  BY <1>0, <1>1, <1>2, Zenon DEF Holds, Gone
<1>5. Holds(t)'
  BY <1>0, <1>1, <1>2, <1>3, <1>4, Zenon DEF Holds, Moves
<1>6. \A u \in Threads \ {t} : Holds(u)'
  BY <1>1, <1>3, Alone, Zenon DEF Moves
<1> QED
  BY <1>0, <1>1, <1>2, <1>4, <1>5, <1>6, Zenon DEF Serial

LEMMA DropCountersSerial ==
    ASSUME SerialInv, QuotaInv', NEW t \in Threads, DropCounters(t)
    PROVE  SerialInv'
<1>0. /\ call[t] # None /\ Typed /\ ScopesSettled /\ Pruning(t) /\ call[t].at = "drop"
      /\ call[t].old = {} /\ UNCHANGED <<mode, clock, keys, scopes, offered, generating>>
  BY Zenon DEF DropCounters, InPrune, At, SerialInv, QuotaInv, UseInv, Pruning
<1> SUFFICES ASSUME mode = "issuer" PROVE Serial'
  BY <1>0, Zenon DEF SerialInv
<1>1. Serial /\ Holds(t) /\ generating = t /\ call[t].op # "prune"
  BY <1>0, Zenon DEF SerialInv, Serial, Holds
<1>2. PICK c : c = call[t] /\ Moves(t, "find", c.old, c.scope)
  BY <1>0, <1>1, Moved, Zenon DEF DropCounters
<1>3. Holds(t)'
  BY <1>0, <1>1, <1>2, Zenon DEF Holds, Moves, Gone
<1>4. \A u \in Threads \ {t} : Holds(u)'
  BY <1>1, <1>2, Alone, Zenon DEF Moves
<1> QED
  BY <1>0, <1>1, <1>3, <1>4, Zenon DEF Serial, Gone

\* A new key is put at a free id.
LEMMA FindSerial ==
    ASSUME SerialInv, QuotaInv', NEW t \in Threads, Find(t)
    PROVE  SerialInv'
<1>0. /\ call[t] # None /\ Typed /\ ScopesSettled /\ Pruning(t) /\ call[t].at = "find"
      /\ UNCHANGED <<mode, clock, scopes>>
  BY Zenon DEF Find, At, SerialInv, QuotaInv, UseInv, Pruning
<1> SUFFICES ASSUME mode = "issuer" PROVE Serial'
  BY <1>0, Zenon DEF SerialInv
<1>1. Serial /\ Holds(t) /\ generating = t /\ \A s \in scopes : ~Gone(s)
  BY <1>0, Zenon DEF SerialInv, Serial, Holds
<1>2. CASE End(t) /\ UNCHANGED keys /\ offered' \subseteq offered \cup scopes
  <2>1. Holds(t)' /\ Others(t)
    BY <1>0, <1>2, Moved, Zenon DEF Holds
  <2>2. \A u \in Threads \ {t} : Holds(u)'
    BY <1>1, <2>1, Alone, Zenon
  <2> QED
    BY <1>0, <1>1, <1>2, <2>1, <2>2, Zenon DEF Serial, Gone
<1>3. ASSUME NEW i \in Ids, NEW key, key = [id |-> i, n |-> made'], made' = made + 1,
             keys[i] = None, keys' = [keys EXCEPT ![i] = key], UNCHANGED <<generating, offered>>,
             call' = [call EXCEPT ![t].at = "publish", ![t].scope =
                        [permission |-> call[t].arg, epoch |-> epoch(call[t].now), key |-> key]]
      PROVE  Serial'
  <2>1. PICK c, scope : c = call[t] /\ scope = [permission |-> c.arg, epoch |-> epoch(c.now), key |-> key]
    BY Zenon
  <2>2. Moves(t, "publish", c.old, scope)
    BY <1>0, <1>3, <2>1, Moved, Zenon
  <2>3. keys = [j \in Ids |-> keys[j]] /\ made \in Nat
    BY <1>0, Zenon DEF ScopesSettled
  <2>4. ASSUME NEW s \in scopes PROVE ~Gone(s)' /\ s.key # key
    <3>1. s.key \in [id : Ids, n : Nat] /\ s.key.n <= made /\ s.key # None
      BY <1>0, AnonymousAssumption, Zenon DEF ScopesSettled, Made
    <3>2. keys[s.key.id] = s.key
      BY <1>1, Zenon DEF Gone
    <3> QED
      BY <1>3, <2>3, <3>1, <3>2 DEF Gone
  <2>5. ~Gone(scope)'
    BY <1>3, <2>1, <2>3, Zenon DEF Gone
  <2>a. generating' = t /\ scope.key = key
    BY <1>1, <1>3, <2>1, Zenon
  <2>6. Holds(t)'
    BY <1>0, <1>1, <2>1, <2>2, <2>4, <2>5, <2>a, Zenon DEF Holds, Moves
  <2>7. \A u \in Threads \ {t} : Holds(u)'
    BY <1>1, <2>2, Alone, Zenon DEF Moves
  <2> QED
    BY <1>0, <1>1, <1>3, <2>4, <2>6, <2>7, Zenon DEF Serial
<1> QED
  BY <1>0, <1>2, <1>3, Zenon DEF Find

LEMMA PublishSerial ==
    ASSUME SerialInv, QuotaInv', NEW t \in Threads, Publish(t)
    PROVE  SerialInv'
<1>0. /\ call[t] # None /\ Typed /\ Pruning(t) /\ call[t].at = "publish"
      /\ UNCHANGED <<mode, clock, keys>>
  BY Zenon DEF Publish, At, SerialInv, QuotaInv, UseInv, Pruning
<1> SUFFICES ASSUME mode = "issuer" PROVE Serial'
  BY <1>0, Zenon DEF SerialInv
<1>1. Serial /\ Holds(t) /\ generating = t /\ \A s \in scopes : ~Gone(s)
  BY <1>0, Zenon DEF SerialInv, Serial, Holds
<1>2. PICK scope : /\ scope = call[t].scope /\ scopes' = scopes \cup {scope}
                   /\ offered' = offered \cup {scope} /\ ~Gone(scope)
                   /\ \A s \in scopes : s.key # scope.key
  BY <1>0, <1>1, Zenon DEF Publish, Holds
<1>3. Holds(t)' /\ Others(t)
  BY <1>0, Moved, Zenon DEF Holds, Publish
<1>4. \A u \in Threads \ {t} : Holds(u)'
  BY <1>1, <1>3, Alone, Zenon
<1> QED
  BY <1>0, <1>1, <1>2, <1>3, <1>4 DEF Serial, Gone

\* The other steps leave scopes and keys alone.
LEMMA OtherSerial ==
    ASSUME SerialInv, QuotaInv', NEW t \in Threads,
           Check(t) \/ CountIssue(t) \/ Sign(t) \/ CollectListed(t) \/ Unlist(t) \/ Forget(t)
             \/ List(t) \/ AddKey(t) \/ Look(t) \/ Reserve(t) \/ Verify(t)
    PROVE  SerialInv'
<1>0. /\ Typed /\ call = [u \in Threads |-> call[u]] /\ call[t] # None
      /\ call[t].op \notin {"challenge", "prune"} /\ clock \in Nat
      /\ UNCHANGED <<mode, clock, keys, scopes, offered, generating>>
  BY Zenon DEF SerialInv, QuotaInv, UseInv, Typed, Check, CountIssue, Sign, CollectListed, Unlist,
     Forget, List, AddKey, Look, Reserve, Verify, InClean, At, issuer
<1>1. CASE End(t)
  <2>1. call'[t] = None /\ Others(t)
    BY <1>0, <1>1, Moved, Zenon
  <2> QED
    BY <1>0, <2>1, SerialFrame DEF Others
<1>2. CASE Others(t) /\ call'[t].op = call[t].op
  BY <1>0, <1>2, SerialFrame DEF Pruning, Others
<1>3. CASE Reserve(t) /\ ~End(t)
  <2>1. call' = [call EXCEPT ![t] = [call[t] EXCEPT !.at = "verify", !.time = clock]]
    BY <1>0, <1>3, Zenon DEF Reserve
  <2>2. call'[t] = [call[t] EXCEPT !.at = "verify", !.time = clock] /\ Others(t)
    BY <1>0, <2>1, Zenon DEF Others
  <2>3. call'[t].op = call[t].op
    BY <1>0, <2>2, Zenon DEF Typed, CallSound
  <2> QED
    BY <1>2, <2>2, <2>3, Zenon
<1>4. CASE (\E at : To(t, at)) \/ (\E at, old : call' = [call EXCEPT ![t].at = at, ![t].old = old])
           \/ (\E at, scope : call' = [call EXCEPT ![t].at = at, ![t].scope = scope])
  <2>1. ASSUME NEW at, NEW old, NEW scope, Moves(t, at, old, scope) PROVE SerialInv'
    BY <1>2, <2>1, Zenon DEF Moves
  <2> QED
    BY <1>0, <1>4, <2>1, Moved, Zenon
<1>5. ASSUME Forget(t) PROVE \E at, old : call' = [call EXCEPT ![t].at = at, ![t].old = old]
  BY <1>0, <1>5, Zenon DEF Forget
<1> QED
  BY <1>1, <1>3, <1>4, <1>5, Zenon DEF Check, CountIssue, Sign, CollectListed, Unlist, List,
     AddKey, Look, Verify

LEMMA StepsKeepSerial ==
    ASSUME SerialInv, [Next]_vars, QuotaInv'
    PROVE  SerialInv'
<1>0. Typed /\ call = [u \in Threads |-> call[u]] /\ clock \in Nat
  BY Zenon DEF SerialInv, QuotaInv, UseInv, Typed
<1>1. CASE Tick \/ UNCHANGED vars
  <2>1. clock' \in Nat /\ clock <= clock' /\ UNCHANGED <<mode, keys, scopes, offered, generating, call>>
    BY <1>0, <1>1 DEF Tick, vars, issuer
  <2> QED
    BY <2>1, SerialFrame, Zenon
<1>2. ASSUME NEW t \in Threads, NEW op, NEW arg, Begin(t, op, arg), op = "prune" => mode # "issuer"
      PROVE  SerialInv'
  <2>1. /\ Others(t) /\ call'[t].op = op /\ call'[t].at = "start"
        /\ UNCHANGED <<mode, clock, keys, scopes, offered, generating>>
    BY <1>0, <1>2, Zenon DEF Begin, Others, issuer
  <2>2. CASE op # "prune"
    BY <1>0, <2>1, <2>2, SerialFrame DEF Others, Pruning
  <2>3. CASE op = "prune"
    BY <1>2, <2>1, <2>3, Zenon DEF SerialInv
  <2> QED
    BY <2>2, <2>3, Zenon
<1>3. ASSUME NEW t \in Threads, Calls(t) PROVE SerialInv'
  BY <1>2, <1>3, Zenon DEF Calls
<1>4. ASSUME NEW t \in Threads, Steps(t) PROVE SerialInv'
  BY <1>4, CollectSerial, DropKeySerial, DropScopeSerial, DropCountersSerial, FindSerial,
     PublishSerial, OtherSerial, Zenon DEF Steps
<1> QED
  BY <1>1, <1>3, <1>4, Zenon DEF Next

(* The verifier. *)

\* What calls of the verifier will remove is expired.
AddCall(t) ==
    call[t] # None /\ call[t].op \in {"add", "redeem"} =>
      /\ call[t].op = "add" => call[t].arg \in Presented
      /\ call[t].old \subseteq Presented /\ \A s \in call[t].old : Expiry(s) <= clock
      /\ call[t].scope \in Presented \cup {None}
      /\ call[t].at = "forget" => call[t].scope \in Presented /\ Expiry(call[t].scope) <= clock

\* The key of a listed scope is there, or not needed any more, or on its way.
KeyComes(s) ==
    \/ s.key \in origin \/ Expiry(s) <= clock
    \/ \E t \in Threads : At(t, "add", "key") /\ call[t].arg = s

ListedInv ==
    /\ listed \subseteq Presented
    /\ \A t \in Threads : AddCall(t)
    /\ \A s \in listed : KeyComes(s)

LEMMA ListedFrame ==
    ASSUME ListedInv, Typed, clock' \in Nat, clock <= clock',
           \A u \in Threads : call'[u] = call[u] \/ (AddCall(u)' /\ ~At(u, "add", "key")),
           listed' \subseteq listed, origin \subseteq origin'
    PROVE  ListedInv'
<1>0. clock \in Nat /\ \A s \in Presented : Expiry(s) \in Nat
  BY AnonymousAssumption DEF Typed, Expiry
<1>1. ASSUME NEW u \in Threads, call'[u] = call[u] PROVE AddCall(u)'
  <2>1. PICK c : c = call[u] /\ c = call'[u] /\ AddCall(u)
    BY <1>1, Zenon DEF ListedInv
  <2> QED
    BY <1>0, <2>1 DEF AddCall
<1>2. ASSUME NEW s \in listed' PROVE KeyComes(s)'
  <2>1. KeyComes(s) /\ Expiry(s) \in Nat
    BY <1>0, Zenon DEF ListedInv
  <2>2. ASSUME NEW u \in Threads, At(u, "add", "key"), call[u].arg = s
        PROVE  At(u, "add", "key")' /\ call'[u].arg = s
    BY <2>2, Zenon DEF At
  <2> QED
    BY <1>0, <2>1, <2>2 DEF KeyComes
<1> QED
  BY <1>1, <1>2, Zenon DEF ListedInv

\* The issuer's steps do not concern the verifier.
LEMMA IssuerListed ==
    ASSUME ListedInv, Typed, NEW t \in Threads,
           Collect(t) \/ DropKey(t) \/ DropScope(t) \/ DropCounters(t) \/ Find(t) \/ Publish(t)
             \/ Check(t) \/ CountIssue(t) \/ Sign(t)
    PROVE  ListedInv'
<1>0. /\ call = [u \in Threads |-> call[u]] /\ clock \in Nat /\ call[t] # None
      /\ call[t].op \notin {"add", "redeem"} /\ UNCHANGED <<clock, listed, origin>>
  BY Zenon DEF Typed, Collect, DropKey, DropScope, DropCounters, Find, Publish, Check, CountIssue,
     Sign, InPrune, At, verifier
<1>1. ASSUME Others(t), call'[t] = None \/ call'[t].op = call[t].op PROVE ListedInv'
  BY <1>0, <1>1, ListedFrame DEF Others, AddCall, At
<1>2. ASSUME NEW at, NEW old, NEW scope, Moves(t, at, old, scope) PROVE ListedInv'
  BY <1>1, <1>2, Zenon DEF Moves
<1>3. CASE End(t)
  BY <1>0, <1>1, <1>3, Moved, Zenon
<1>4. CASE (\E at : To(t, at)) \/ (\E at, old : call' = [call EXCEPT ![t].at = at, ![t].old = old])
           \/ (\E at, scope : call' = [call EXCEPT ![t].at = at, ![t].scope = scope])
  BY <1>0, <1>2, <1>4, Moved, Zenon
<1>5. ASSUME DropScope(t) PROVE \E at, old : call' = [call EXCEPT ![t].at = at, ![t].old = old]
  BY <1>0, <1>5, Zenon DEF DropScope
<1> QED
  BY <1>3, <1>4, <1>5, Zenon DEF Collect, DropKey, DropCounters, Find, Publish, Check, CountIssue,
     Sign

\* A key is removed with its expired scope; no other scope has it.
LEMMA ForgetListed ==
    ASSUME ListedInv, Typed, NEW t \in Threads, Forget(t)
    PROVE  ListedInv'
<1>0. /\ call = [u \in Threads |-> call[u]] /\ clock \in Nat /\ call[t] # None /\ AddCall(t)
      /\ call[t].op \in {"add", "redeem"} /\ call[t].at = "forget" /\ UNCHANGED <<clock, listed>>
  BY Zenon DEF Typed, Forget, InClean, At, ListedInv
<1>1. PICK c : c = call[t] /\ call' = [call EXCEPT ![t].at = "unlist", ![t].old = c.old \ {c.scope}]
               /\ origin' = origin \ {c.scope.key}
  BY <1>0, Zenon DEF Forget, Removed
<1>2. Moves(t, "unlist", c.old \ {c.scope}, c.scope)
  BY <1>0, <1>1, Moved, Zenon
<1>3. ASSUME NEW u \in Threads PROVE AddCall(u)'
  <2>1. CASE u = t
    BY <1>0, <1>1, <1>2, <2>1, Zenon DEF AddCall, Moves
  <2>2. CASE u # t
    <3>1. PICK d : d = call[u] /\ d = call'[u] /\ AddCall(u)
      BY <1>2, <2>2, Zenon DEF Moves, Others, ListedInv
    <3> QED
      BY <1>0, <3>1, Zenon DEF AddCall
  <2> QED
    BY <2>1, <2>2, Zenon
<1>4. ASSUME NEW s \in listed PROVE KeyComes(s)'
  <2>1. KeyComes(s) /\ s \in Presented /\ c.scope \in Presented /\ Expiry(c.scope) <= clock
    BY <1>0, <1>1, Zenon DEF ListedInv, AddCall
  <2>2. CASE s.key = c.scope.key
    BY <1>0, <2>1, <2>2, AnonymousAssumption, Zenon DEF KeyComes
  <2>3. CASE s.key # c.scope.key
    <3>1. ASSUME NEW u \in Threads, At(u, "add", "key"), call[u].arg = s
          PROVE  At(u, "add", "key")' /\ call'[u].arg = s
      BY <1>0, <1>2, <3>1, Zenon DEF At, Moves, Others
    <3> QED
      BY <1>0, <1>1, <2>1, <2>3, <3>1, Zenon DEF KeyComes
  <2> QED
    BY <2>2, <2>3, Zenon
<1> QED
  BY <1>0, <1>3, <1>4, Zenon DEF ListedInv

\* A scope is listed by the call that will store its key.
LEMMA ListListed ==
    ASSUME ListedInv, Typed, NEW t \in Threads, List(t)
    PROVE  ListedInv'
<1>0. /\ call = [u \in Threads |-> call[u]] /\ clock \in Nat /\ call[t] # None /\ AddCall(t)
      /\ call[t].op = "add" /\ call[t].at = "unlist" /\ UNCHANGED <<clock, origin>>
      /\ CallSound(t) /\ call[t].old = {}
  BY Zenon DEF Typed, List, At, ListedInv
<1>1. PICK c : c = call[t]
  BY Zenon
<1>2. CASE End(t) /\ UNCHANGED listed
  <2>1. call'[t] = None /\ Others(t)
    BY <1>0, <1>2, Moved, Zenon
  <2> QED
    BY <1>0, <1>2, <2>1, ListedFrame DEF Others, AddCall, At
<1>3. CASE listed' = listed \cup {c.arg} /\ To(t, "key")
  <2>1. Moves(t, "key", c.old, c.scope)
    BY <1>0, <1>1, <1>3, Moved, Zenon
  <2>2. call'[t] # None
    <3> DEFINE r == [op |-> "add", now |-> c.now, arg |-> c.arg, at |-> "key", old |-> {},
                     scope |-> c.scope, time |-> c.time]
    <3>1. c = [op |-> "add", now |-> c.now, arg |-> c.arg, at |-> "unlist", old |-> {},
               scope |-> c.scope, time |-> c.time]
      BY <1>0, <1>1, Zenon DEF CallSound
    <3>2. call'[t] = r
      <4>1. call'[t] = [c EXCEPT !.at = "key"]
        BY <1>0, <1>1, <1>3, Zenon DEF To
      <4>2. ASSUME NEW now, NEW arg, NEW scope, NEW time,
                   c = [op |-> "add", now |-> now, arg |-> arg, at |-> "unlist", old |-> {},
                        scope |-> scope, time |-> time]
            PROVE  [c EXCEPT !.at = "key"] =
                     [op |-> "add", now |-> now, arg |-> arg, at |-> "key", old |-> {},
                      scope |-> scope, time |-> time]
        BY ONLY <4>2
      <4> QED
        BY <3>1, <4>1, <4>2
    <3>3. c.now \in Nat /\ c.time \in Nat /\ c.arg \in Presented /\ c.scope \in Presented \cup {None}
      BY <1>0, <1>1, Zenon DEF CallSound, AddCall
    <3>4. r \in [op : {"add"}, now : Nat, arg : Presented, at : {"key"}, old : SUBSET Presented,
                 scope : Presented \cup {None}, time : Nat]
      BY <3>3, Zenon
    <3> QED
      BY <3>2, <3>4, AnonymousAssumption, Zenon
  <2>3. ASSUME NEW u \in Threads PROVE AddCall(u)'
    <3>1. CASE u = t
      BY <1>0, <1>1, <2>1, <3>1, Zenon DEF AddCall, Moves
    <3>2. CASE u # t
      <4>1. PICK d : d = call[u] /\ d = call'[u] /\ AddCall(u)
        BY <2>1, <3>2, Zenon DEF Moves, Others, ListedInv
      <4> QED
        BY <1>0, <4>1, Zenon DEF AddCall
    <3> QED
      BY <3>1, <3>2, Zenon
  <2>4. ASSUME NEW u \in Threads, u # t, At(u, "add", "key") PROVE At(u, "add", "key")' /\ call'[u] = call[u]
    BY <2>1, <2>4, Zenon DEF At, Moves, Others
  <2>5. At(t, "add", "key")' /\ call'[t].arg = c.arg
    BY <1>0, <1>1, <2>1, <2>2, Zenon DEF At, Moves
  <2>6. ~At(t, "add", "key")
    BY <1>0, Zenon DEF At
  <2>7. ASSUME NEW s \in listed' PROVE KeyComes(s)'
    BY <1>0, <1>3, <2>4, <2>5, <2>6, Zenon DEF KeyComes, ListedInv
  <2>8. listed' \subseteq Presented
    BY <1>0, <1>1, <1>3, Zenon DEF ListedInv, AddCall
  <2> QED
    BY <2>3, <2>7, <2>8, Zenon DEF ListedInv
<1> QED
  BY <1>1, <1>2, <1>3, Zenon DEF List

\* The other steps of the verifier, which store no scope and remove no key.
LEMMA VerifierListed ==
    ASSUME ListedInv, Typed, NEW t \in Threads,
           CollectListed(t) \/ Unlist(t) \/ AddKey(t) \/ Look(t) \/ Reserve(t) \/ Verify(t)
    PROVE  ListedInv'
<1>0. /\ call = [u \in Threads |-> call[u]] /\ clock \in Nat /\ call[t] # None /\ AddCall(t)
      /\ call[t].op \in {"add", "redeem"} /\ clock' = clock /\ CallSound(t)
  BY Zenon DEF Typed, CollectListed, Unlist, AddKey, Look, Reserve, Verify, InClean, At, ListedInv
<1>1. PICK c : c = call[t]
  BY Zenon
<1>2. ASSUME Others(t), AddCall(t)', c.op # "add" \/ c.at # "key", listed' \subseteq listed,
             origin \subseteq origin'
      PROVE  ListedInv'
  BY <1>0, <1>1, <1>2, ListedFrame DEF Others, At
<1>3. ASSUME End(t), c.op # "add" \/ c.at # "key", UNCHANGED <<listed, origin>> PROVE ListedInv'
  <2>1. call'[t] = None /\ Others(t)
    BY <1>0, <1>3, Moved, Zenon
  <2> QED
    BY <1>2, <1>3, <2>1, Zenon DEF AddCall
<1>4. CASE CollectListed(t)
  <2>1. c.at = "start" /\ UNCHANGED <<listed, origin>>
    BY <1>1, <1>4, Zenon DEF CollectListed, At, verifier
  <2>2. CASE End(t)
    BY <1>3, <2>1, <2>2, Zenon
  <2>3. CASE ~End(t)
    <3>1. PICK old : /\ old = Expired(listed, c.now)
                     /\ call' = [call EXCEPT ![t].at = "unlist", ![t].old = old]
      BY <1>1, <1>4, <2>3, Zenon DEF CollectListed
    <3>2. Moves(t, "unlist", old, c.scope)
      BY <1>0, <1>1, <3>1, Moved, Zenon
    <3>3. old \subseteq Presented /\ \A s \in old : Expiry(s) <= clock
      <4>1. c.now \in Nat /\ c.now <= clock /\ \A s \in Presented : Expiry(s) \in Nat
        BY <1>0, <1>1, AnonymousAssumption DEF CallSound, Expiry
      <4>2. listed \subseteq Presented
        BY Zenon DEF ListedInv
      <4>3. \A s \in old : s \in listed /\ Expiry(s) <= c.now
        BY <3>1, Zenon DEF Expired
      <4> QED
        BY <1>0, <4>1, <4>2, <4>3
    <3>4. AddCall(t)'
      BY <1>0, <1>1, <3>2, <3>3, Zenon DEF AddCall, Moves
    <3> QED
      BY <1>2, <2>1, <3>2, <3>4, Zenon DEF Moves
  <2> QED
    BY <2>2, <2>3, Zenon
<1>5. CASE Unlist(t)
  <2>1. c.at = "unlist" /\ UNCHANGED origin
    BY <1>1, <1>5, Zenon DEF Unlist, InClean, At
  <2>2. PICK s \in c.old : /\ listed' = listed \ {s}
                           /\ call' = [call EXCEPT ![t].at = "forget", ![t].scope = s]
    BY <1>1, <1>5, Zenon DEF Unlist
  <2>3. Moves(t, "forget", c.old, s)
    BY <1>0, <1>1, <2>2, Moved, Zenon
  <2>4. AddCall(t)'
    BY <1>0, <1>1, <2>3, Zenon DEF AddCall, Moves
  <2> QED
    BY <1>2, <2>1, <2>2, <2>3, <2>4, Zenon DEF Moves
<1>6. CASE AddKey(t)
  <2>1. /\ c.op = "add" /\ c.at = "key" /\ origin' = origin \cup {c.arg.key} /\ listed' = listed
        /\ call'[t] = None /\ Others(t)
    BY <1>0, <1>1, <1>6, Moved, Zenon DEF AddKey, At
  <2>2. ASSUME NEW u \in Threads PROVE AddCall(u)'
    <3>1. CASE u # t
      <4>1. PICK d : d = call[u] /\ d = call'[u] /\ AddCall(u)
        BY <2>1, <3>1, Zenon DEF Others, ListedInv
      <4> QED
        BY <1>0, <4>1, Zenon DEF AddCall
    <3> QED
      BY <2>1, <3>1, Zenon DEF AddCall
  <2>3. ASSUME NEW s \in listed PROVE KeyComes(s)'
    <3>1. KeyComes(s)
      BY Zenon DEF ListedInv
    <3>2. ASSUME NEW u \in Threads, u # t, At(u, "add", "key"), call[u].arg = s
          PROVE  At(u, "add", "key")' /\ call'[u].arg = s
      BY <2>1, <3>2, Zenon DEF At, Others
    <3> QED
      BY <1>0, <1>1, <2>1, <3>1, <3>2, Zenon DEF KeyComes
  <2> QED
    BY <2>1, <2>2, <2>3, Zenon DEF ListedInv
<1>7. CASE Look(t)
  <2>1. c.op = "redeem" /\ c.at = "unlist" /\ UNCHANGED <<listed, origin>>
    BY <1>1, <1>7, Zenon DEF Look, At, verifier
  <2>2. CASE To(t, "reserve")
    <3>1. Moves(t, "reserve", c.old, c.scope)
      BY <1>0, <1>1, <2>2, Moved, Zenon
    <3>2. AddCall(t)'
      BY <1>0, <1>1, <3>1, Zenon DEF AddCall, Moves
    <3> QED
      BY <1>2, <2>1, <3>1, <3>2, Zenon DEF Moves
  <2> QED
    BY <1>3, <1>7, <2>1, <2>2, Zenon DEF Look
<1>8. CASE Reserve(t)
  <2>1. c.op = "redeem" /\ c.at = "reserve" /\ UNCHANGED <<listed, origin>>
    BY <1>1, <1>8, Zenon DEF Reserve, At
  <2>2. CASE End(t)
    BY <1>3, <2>1, <2>2, Zenon
  <2>3. CASE ~End(t)
    <3>1. call'[t] = [c EXCEPT !.at = "verify", !.time = clock] /\ Others(t)
      BY <1>0, <1>1, <1>8, <2>3, Zenon DEF Reserve, Others
    <3>2. /\ call'[t].op = c.op /\ call'[t].at = "verify" /\ call'[t].old = c.old
          /\ call'[t].scope = c.scope
      BY <1>0, <1>1, <3>1, Zenon DEF CallSound
    <3>3. AddCall(t)'
      BY <1>0, <1>1, <2>1, <3>2, Zenon DEF AddCall
    <3> QED
      BY <1>2, <2>1, <3>1, <3>3, Zenon
  <2> QED
    BY <2>2, <2>3, Zenon
<1>9. CASE Verify(t)
  BY <1>1, <1>3, <1>9, Zenon DEF Verify, At
<1> QED
  BY <1>4, <1>5, <1>6, <1>7, <1>8, <1>9, Zenon

LEMMA StepsKeepListed ==
    ASSUME ListedInv, Typed, Typed', [Next]_vars
    PROVE  ListedInv'
<1>0. call = [u \in Threads |-> call[u]] /\ clock \in Nat
  BY Zenon DEF Typed
<1>1. CASE Tick \/ UNCHANGED vars
  <2>1. clock' \in Nat /\ clock <= clock' /\ UNCHANGED <<listed, origin, call>>
    BY <1>0, <1>1 DEF Tick, vars, verifier
  <2> QED
    BY <2>1, ListedFrame, Zenon
<1>2. ASSUME NEW t \in Threads, NEW op, NEW arg, Begin(t, op, arg), op = "add" => arg \in Presented
      PROVE  ListedInv'
  <2>1. /\ Others(t) /\ call[t] = None /\ UNCHANGED <<clock, listed, origin>>
        /\ call'[t] = [op |-> op, now |-> clock, arg |-> arg, at |-> "start", old |-> {},
                       scope |-> None, time |-> clock]
    BY <1>0, <1>2, Zenon DEF Begin, Others, verifier
  <2>2. AddCall(t)' /\ ~At(t, "add", "key")
    BY <1>2, <2>1 DEF AddCall, At
  <2> QED
    BY <1>0, <2>1, <2>2, ListedFrame DEF Others
<1>3. ASSUME NEW t \in Threads, Calls(t) PROVE ListedInv'
  BY <1>2, <1>3, Zenon DEF Calls
<1>4. ASSUME NEW t \in Threads, Steps(t) PROVE ListedInv'
  BY <1>4, IssuerListed, ForgetListed, ListListed, VerifierListed, Zenon DEF Steps
<1> QED
  BY <1>1, <1>3, <1>4, Zenon DEF Next

\* A call that has been counted finds the key of its scope while the epoch lasts, if keys
\* are pruned by challenge only; and the verifier has the keys of its current scopes.
THEOREM CurrentKeysLive == Spec => []KeysLive
<1> DEFINE Inv == SerialInv /\ ListedInv
<1>1. Init => Inv
  <2> SUFFICES ASSUME Init PROVE Inv
    BY Zenon
  <2>1. QuotaInv
    BY InitQuota, Zenon
  <2>2. Serial
    BY Zenon DEF Init, Serial, Holds
  <2>3. ListedInv
    BY Zenon DEF Init, ListedInv, AddCall
  <2> QED
    BY <2>1, <2>2, <2>3, Zenon DEF SerialInv
<1>2. Inv /\ [Next]_vars => Inv'
  <2> SUFFICES ASSUME SerialInv, ListedInv, [Next]_vars PROVE Inv'
    BY Zenon
  <2>1. QuotaInv'
    BY StepsKeepQuota, Zenon DEF SerialInv
  <2>2. Typed /\ Typed'
    BY <2>1, Zenon DEF SerialInv, QuotaInv, UseInv
  <2> QED
    BY <2>1, <2>2, StepsKeepSerial, StepsKeepListed, Zenon
<1>3. Inv => KeysLive
  <2> SUFFICES ASSUME SerialInv, ListedInv PROVE KeysLive
    BY Zenon
  <2>1. ASSUME mode = "issuer", NEW t \in Threads, At(t, "issue", "sign"),
               Expiry(call[t].arg[2]) > clock
        PROVE  keys[call[t].arg[2].key.id] = call[t].arg[2].key
    <3>1. Serial /\ ScopesSettled /\ clock \in Nat
      BY <2>1, Zenon DEF SerialInv, QuotaInv, UseInv, Typed
    <3>2. PICK s \in offered : s = call[t].arg[2] /\ Made(s)
      BY <2>1, <3>1, Zenon DEF ScopesSettled, IssuerCall, At
    <3>3. Expiry(s) \in Nat
      BY <3>2, AnonymousAssumption DEF Expiry, Made
    <3>4. ~(Expiry(s) <= clock)
      BY <2>1, <3>1, <3>2, <3>3
    <3> QED
      BY <3>1, <3>2, <3>4, Zenon DEF Serial, Gone
  <2> QED
    BY <2>1, Zenon DEF KeysLive, ListedInv, KeyComes
<1> QED
  BY <1>1, <1>2, <1>3, PTL DEF Spec
=============================================================================
