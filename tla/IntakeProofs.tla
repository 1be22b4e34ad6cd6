---------------------------- MODULE IntakeProofs ----------------------------
(***************************************************************************)
(* What transfer_content_via may conclude from its answers, for any number *)
(* of clients, signers and contents: Ok only for a stored content, and an  *)
(* error only for a reason of the transfer's own; and that the request     *)
(* budget and the upload table keep their limits.                          *)
(*                                                                         *)
(* Neither of the first two is inductive.  The invariant says that a       *)
(* client waits for the answer to a message of its present transfer (Own), *)
(* that no copy of that message is elsewhere (Once) and older messages     *)
(* come before it in the transfer (Earlier), and that the node's session   *)
(* holds what the client has already sent, unless the transfer met with a  *)
(* fault (Progress).  The limits are sums over finite sets, whose laws are *)
(* proved first; that a session buffers no chunk outside its content also  *)
(* needs the messages on the wire (TableInv).                              *)
(***************************************************************************)
EXTENDS Intake, Integers, FiniteSetTheorems, WellFoundedInduction, TLAPS

Busy(t) == phase[t] = "busy"

\* The types of the state of the clients and the messages ...
Typed ==
    /\ sent \cup checked \cup putting \subseteq Request
    /\ waiting \in [Clients -> Request \cup {NoClient}]
    /\ target \in [Clients -> Contents]
    /\ phase \in [Clients -> {"idle", "busy", "ok", "failed"}]
    /\ \A t \in Clients : Busy(t) <=> waiting[t] # NoClient
    /\ attempts \in [Clients -> Nat]
    /\ events \in Nat

\* ... and of the node's sessions.
SessionsTyped ==
    /\ Active \subseteq Keys
    /\ \A k \in Active :
         /\ uploads[k] = [total |-> uploads[k].total, chunks |-> uploads[k].chunks]
         /\ uploads[k].total \in Nat
         /\ uploads[k].chunks \in [Chunks(uploads[k].total) -> {"missing", "right", "other"}]

Own(t) ==
    LET r == waiting[t] IN
    Busy(t) => /\ r.signer = Signer[t] /\ r.id = target[t]
               /\ r.to = t /\ r.attempt = attempts[t]
               /\ r.total = Size[target[t]] /\ r.bytes = "right"
               /\ r.kind = "chunk" => r.index \in Chunks(r.total)

Once(t) ==
    LET r == waiting[t] IN
    Busy(t) => /\ r \in putting => r \notin sent \cup checked
               /\ r \in checked => r \notin sent

\* r is sent before q in a transfer.
Before(r, q) ==
    \/ r.kind \in {"content", "start"} /\ q.kind \in {"chunk", "complete"}
    \/ r.kind = "chunk" /\ q.kind = "chunk" /\ r.index < q.index
    \/ r.kind = "chunk" /\ q.kind = "complete"

Earlier(r) ==
    LET t == r.to IN
    t \in Clients => /\ r.attempt <= attempts[t]
                     /\ r.attempt = attempts[t] /\ Busy(t) => r = waiting[t] \/ Before(r, waiting[t])

Messages == sent \cup checked \cup putting

Coherent ==
    /\ Typed
    /\ \A t \in Clients : Own(t) /\ Once(t)
    /\ \A r \in Messages : Earlier(r)

\* The session of key k holds the right chunks of the given indices.
Holds(k, total, indices) ==
    /\ k \in Active /\ uploads[k].total = total
    /\ \A i \in indices : uploads[k].chunks[i] = "right"

Progress(t) ==
    LET r == waiting[t] IN
    Busy(t) /\ t \notin excused =>
        /\ r.kind = "chunk" => Holds(Key(r), r.total, 0..(r.index - 1))
        /\ r.kind = "complete" /\ r \notin putting => Holds(Key(r), r.total, Chunks(r.total))

TransferInv ==
    /\ Coherent /\ SessionsTyped
    /\ \A r \in putting : r.kind \in {"content", "complete"}
    /\ \A t \in Clients : Progress(t)
    /\ DoneIsStored /\ UndisturbedSucceeds

-----------------------------------------------------------------------------

\* The first state.
LEMMA StartsIdle == Init => TransferInv
<1> SUFFICES ASSUME Init PROVE TransferInv
  BY Zenon
<1>1. Messages = {}
  BY Zenon DEF Init, Messages
<1>2. \A t \in Clients : ~Busy(t) /\ waiting[t] = NoClient /\ phase[t] = "idle"
  BY Zenon DEF Init, Busy
<1>3. Typed
  <2>1. (CHOOSE c \in Contents : TRUE) \in Contents
    BY IntakeAssumption, Zenon
  <2>2. target \in [Clients -> Contents]
    BY <2>1, Zenon DEF Init
  <2>3. sent \cup checked \cup putting \subseteq Request
    BY Zenon DEF Init
  <2> QED
    BY <1>2, <2>2, <2>3, Zenon DEF Typed, Init
<1>4. \A t \in Clients : Own(t) /\ Once(t) /\ Progress(t)
  BY <1>2, Zenon DEF Own, Once, Progress
<1>5. DoneIsStored /\ UndisturbedSucceeds
  BY <1>2, Zenon DEF DoneIsStored, UndisturbedSucceeds
<1>6. SessionsTyped
  BY Zenon DEF Init, SessionsTyped, Active
<1> QED
  BY <1>1, <1>3, <1>4, <1>5, <1>6, Zenon DEF TransferInv, Coherent, Messages

-----------------------------------------------------------------------------
(* The messages and the clients *)

\* All messages not in S are where they were.
SameBut(S) ==
    \A q : q \notin S => /\ q \in sent' <=> q \in sent
                         /\ q \in checked' <=> q \in checked
                         /\ q \in putting' <=> q \in putting

\* Two clients never wait for the answer to the same message.
LEMMA OneWaits ==
    ASSUME Coherent, NEW t \in Clients, NEW u \in Clients, Busy(t), Busy(u),
           waiting[t] = waiting[u]
    PROVE  t = u
  BY Zenon DEF Coherent, Own

\* A message moves on, and no client sees it.
LEMMA SilentCoherent ==
    ASSUME Coherent, UNCHANGED <<waiting, target, phase, attempts>>, events' \in Nat,
           NEW r \in Messages, SameBut({r}),
           \A t \in Clients : Busy(t) /\ waiting[t] = r =>
               /\ r \in putting' => r \notin sent' \cup checked'
               /\ r \in checked' => r \notin sent'
    PROVE  Coherent'
<1>1. Messages' \subseteq Messages
  BY Zenon DEF Messages, SameBut
<1>2. Typed'
  BY <1>1, Zenon DEF Coherent, Typed, Messages, Busy
<1>3. ASSUME NEW t \in Clients PROVE Own(t)' /\ Once(t)'
  <2>1. Own(t)'
    BY Zenon DEF Coherent, Own, Busy
  <2>2. Busy(t)' = Busy(t) /\ waiting'[t] = waiting[t]
    BY Zenon DEF Busy
  <2>3. CASE Busy(t) /\ waiting[t] = r
    BY <2>1, <2>2, <2>3, Zenon DEF Once
  <2>4. CASE Busy(t) /\ waiting[t] # r
    <3>1. Once(t)
      BY Zenon DEF Coherent
    <3> QED
      BY <2>1, <2>2, <2>4, <3>1, Zenon DEF Once, SameBut
  <2>5. CASE ~Busy(t)
    BY <2>1, <2>2, <2>5, Zenon DEF Once
  <2> QED
    BY <2>3, <2>4, <2>5, Zenon
<1>4. ASSUME NEW q \in Messages' PROVE Earlier(q)'
  BY <1>1, Zenon DEF Coherent, Earlier, Busy, Before
<1> QED
  BY <1>2, <1>3, <1>4, Zenon DEF Coherent

\* A transfer ends, with its last message gone or left behind.
LEMMA EndCoherent ==
    ASSUME Coherent, NEW t \in Clients, Busy(t), NEW o \in {"ok", "failed"},
           phase' = [phase EXCEPT ![t] = o], waiting' = [waiting EXCEPT ![t] = NoClient],
           UNCHANGED <<target, attempts>>, events' \in Nat,
           SameBut({waiting[t]}), Messages' \subseteq Messages
    PROVE  Coherent'
<1>1. \A u \in Clients : u # t => phase'[u] = phase[u] /\ waiting'[u] = waiting[u]
  BY Zenon DEF Coherent, Typed
<1>2. ~Busy(t)' /\ waiting'[t] = NoClient
  BY Zenon DEF Coherent, Typed, Busy
<1>3. Typed'
  <2>1. /\ phase' \in [Clients -> {"idle", "busy", "ok", "failed"}]
        /\ waiting' \in [Clients -> Request \cup {NoClient}]
    BY Zenon DEF Coherent, Typed
  <2>2. \A u \in Clients : Busy(u)' <=> waiting'[u] # NoClient
    BY <1>1, <1>2, Zenon DEF Coherent, Typed, Busy
  <2> QED
    BY <2>1, <2>2, Zenon DEF Coherent, Typed, Messages
<1>4. ASSUME NEW u \in Clients PROVE Own(u)' /\ Once(u)'
  <2>1. CASE u = t
    BY <1>2, <2>1, Zenon DEF Own, Once
  <2>2. CASE u # t
    <3>1. phase'[u] = phase[u] /\ waiting'[u] = waiting[u]
      BY <1>1, <2>2, Zenon
    <3>2. Own(u)'
      BY <3>1 DEF Coherent, Own, Busy
    <3>3. Busy(u) => waiting[u] # waiting[t]
      BY <2>2, OneWaits, Zenon
    <3>4. Once(u)'
      BY <3>1, <3>3, Zenon DEF Coherent, Once, Busy, SameBut
    <3> QED
      BY <3>2, <3>4, Zenon
  <2> QED
    BY <2>1, <2>2, Zenon
<1>5. ASSUME NEW q \in Messages' PROVE Earlier(q)'
  <2>1. Earlier(q)
    BY Zenon DEF Coherent
  <2> QED
    BY <1>1, <1>2, <2>1, Zenon DEF Earlier, Busy, Before
<1> QED
  BY <1>3, <1>4, <1>5, Zenon DEF Coherent

\* A transfer goes on to message m, which is nowhere yet.
LEMMA AdvanceCoherent ==
    ASSUME Coherent, NEW t \in Clients, Busy(t), NEW m \in Request, Before(waiting[t], m),
           m.signer = Signer[t], m.id = target[t], m.to = t, m.attempt = attempts[t],
           m.total = Size[target[t]], m.bytes = "right",
           m.kind = "chunk" => m.index \in Chunks(m.total),
           waiting' = [waiting EXCEPT ![t] = m],
           UNCHANGED <<target, phase, attempts>>, events' \in Nat,
           SameBut({waiting[t], m}), sent' = (sent \ {waiting[t]}) \cup {m},
           checked' \subseteq checked, putting' \subseteq putting
    PROVE  Coherent' /\ m \notin Messages
<1> DEFINE r == waiting[t]
<1>1. r \in Request
  BY Zenon DEF Coherent, Typed
<1>2. \A q \in Request : (q = r \/ Before(q, r)) => Before(q, m) /\ q # m
  BY <1>1 DEF Before, Request
<1> HIDE DEF r
<1>3. m \notin Messages
  <2>1. SUFFICES ASSUME m \in Messages PROVE FALSE
    BY Zenon
  <2>2. Earlier(m)
    BY <2>1, Zenon DEF Coherent
  <2>3. m = r \/ Before(m, r)
    BY <2>2, Zenon DEF Earlier, r
  <2> QED
    BY <1>2, <2>3, Zenon
<1>4. waiting'[t] = m /\ \A u \in Clients : u # t => waiting'[u] = waiting[u]
  BY Zenon DEF Coherent, Typed
<1>5. Typed'
  <2>1. waiting' \in [Clients -> Request \cup {NoClient}]
    BY Zenon DEF Coherent, Typed
  <2>2. m # NoClient
    BY IntakeAssumption, Zenon
  <2>3. \A u \in Clients : Busy(u)' <=> waiting'[u] # NoClient
    BY <1>4, <2>2, Zenon DEF Coherent, Typed, Busy
  <2>4. sent' \cup checked' \cup putting' \subseteq Request
    BY Zenon DEF Coherent, Typed
  <2> QED
    BY <2>1, <2>3, <2>4, Zenon DEF Coherent, Typed
<1>6. ASSUME NEW u \in Clients PROVE Own(u)' /\ Once(u)'
  <2>1. CASE u = t
    <3>1. Own(t)'
      BY <1>4, Zenon DEF Own, Busy
    <3>2. m \notin checked' /\ m \notin putting'
      BY <1>3, Zenon DEF Messages
    <3> QED
      BY <1>4, <2>1, <3>1, <3>2, Zenon DEF Once
  <2>2. CASE u # t
    <3>1. Busy(u)' = Busy(u) /\ waiting'[u] = waiting[u]
      BY <1>4, <2>2, Zenon DEF Busy
    <3>2. Own(u)'
      BY <3>1 DEF Coherent, Own, Busy
    <3>3. Busy(u) => waiting[u] # waiting[t] /\ waiting[u] # m
      BY <2>2, OneWaits, Zenon DEF Coherent, Own
    <3>4. Once(u)
      BY Zenon DEF Coherent
    <3> QED
      BY <3>1, <3>2, <3>3, <3>4, Zenon DEF Once, SameBut
  <2> QED
    BY <2>1, <2>2, Zenon
<1>7. ASSUME NEW q \in Messages' PROVE Earlier(q)'
  <2>1. CASE q = m
    BY <1>4, <2>1 DEF Earlier, Request
  <2>2. CASE q # m
    <3>1. q \in Messages
      BY <2>2, Zenon DEF Messages
    <3>2. Earlier(q) /\ q \in Request
      BY <3>1, Zenon DEF Coherent, Typed, Messages
    <3>3. CASE q.to = t
      <4>1. Earlier(q)' <=> (q.attempt <= attempts[t]
                             /\ (q.attempt = attempts[t] => q = m \/ Before(q, m)))
        BY <1>4, <3>3, Zenon DEF Earlier, Busy, Before
      <4>2. q.attempt <= attempts[t]
            /\ (q.attempt = attempts[t] => q = r \/ Before(q, r))
        BY <3>2, <3>3, Zenon DEF Earlier, r
      <4> QED
        BY <1>2, <3>2, <4>1, <4>2, Zenon
    <3>4. CASE q.to # t
      BY <1>4, <3>2, <3>4, Zenon DEF Earlier, Busy, Before
    <3> QED
      BY <3>3, <3>4, Zenon
  <2> QED
    BY <2>1, <2>2, Zenon
<1> QED
  BY <1>3, <1>5, <1>6, <1>7, Zenon DEF Coherent

\* A transfer begins; its number makes its messages differ from all before.
LEMMA BeginCoherent ==
    ASSUME Coherent, NEW t \in Clients, NEW c \in Contents, Begin(t, c)
    PROVE  /\ Coherent'
           /\ waiting'[t].kind \in {"content", "start"}
           /\ \A u \in Clients : u # t => waiting'[u] = waiting[u] /\ phase'[u] = phase[u]
                                          /\ target'[u] = target[u]
           /\ target'[t] = c /\ phase'[t] = "busy"
<1> DEFINE kind == IF Size[c] <= ChunkSize THEN "content" ELSE "start"
           m == Msg(t, kind, 0)
<1>1. /\ ~Busy(t)
      /\ attempts' = [attempts EXCEPT ![t] = attempts[t] + 1]
      /\ phase' = [phase EXCEPT ![t] = "busy"] /\ target' = [target EXCEPT ![t] = c]
      /\ sent' = sent \cup {m} /\ waiting' = [waiting EXCEPT ![t] = m]
      /\ UNCHANGED <<checked, putting, events>>
  BY Zenon DEF Begin, Send, Busy
<1>2. /\ target' \in [Clients -> Contents] /\ attempts' \in [Clients -> Nat]
      /\ phase' \in [Clients -> {"idle", "busy", "ok", "failed"}]
      /\ target'[t] = c /\ attempts'[t] = attempts[t] + 1 /\ phase'[t] = "busy"
  BY <1>1 DEF Coherent, Typed
<1>3. /\ m \in Request /\ m.signer = Signer[t] /\ m.id = c /\ m.to = t
      /\ m.attempt = attempts[t] + 1 /\ m.total = Size[c] /\ m.bytes = "right"
      /\ m.kind \in {"content", "start"}
  BY <1>2, IntakeAssumption, Zenon DEF Msg, Request, Kinds
<1> HIDE DEF m, kind
<1>4. m # NoClient
  BY <1>3, IntakeAssumption, Zenon
<1>5. waiting' \in [Clients -> Request \cup {NoClient}] /\ waiting'[t] = m
  BY <1>1, <1>3, Zenon DEF Coherent, Typed
<1>6. \A u \in Clients : u # t => /\ waiting'[u] = waiting[u] /\ phase'[u] = phase[u]
                                  /\ target'[u] = target[u] /\ attempts'[u] = attempts[u]
  BY <1>1, Zenon DEF Coherent, Typed
<1>7. Typed'
  <2>1. \A u \in Clients : Busy(u)' <=> waiting'[u] # NoClient
    BY <1>2, <1>4, <1>5, <1>6, Zenon DEF Coherent, Typed, Busy
  <2>2. sent' \cup checked' \cup putting' \subseteq Request
    BY <1>1, <1>3, Zenon DEF Coherent, Typed
  <2> QED
    BY <1>1, <1>2, <1>5, <2>1, <2>2, Zenon DEF Coherent, Typed
<1>8. m \notin Messages
  <2>1. \A q \in Messages : q.to = t => q.attempt <= attempts[t]
    BY Zenon DEF Coherent, Earlier
  <2>2. attempts[t] \in Nat
    BY Zenon DEF Coherent, Typed
  <2> QED
    BY <1>3, <2>1, <2>2
<1>9. ASSUME NEW u \in Clients PROVE Own(u)' /\ Once(u)'
  <2>1. CASE u = t
    BY <1>1, <1>2, <1>3, <1>5, <1>8, <2>1, Zenon DEF Own, Once, Messages
  <2>2. CASE u # t
    <3>1. Own(u) /\ Once(u) /\ (Busy(u) => waiting[u] # m)
      BY <1>3, <2>2, Zenon DEF Coherent, Own
    <3> QED
      BY <1>1, <1>6, <2>2, <3>1 DEF Own, Once, Busy
  <2> QED
    BY <2>1, <2>2, Zenon
<1>10. ASSUME NEW q \in Messages' PROVE Earlier(q)'
  <2>1. CASE q = m
    BY <1>2, <1>3, <1>5, <2>1 DEF Earlier, Request
  <2>2. CASE q # m
    <3>1. q \in Messages
      BY <1>1, <2>2, Zenon DEF Messages
    <3>2. Earlier(q) /\ q.attempt \in Nat
      BY <3>1, Zenon DEF Coherent, Typed, Messages, Request
    <3>3. CASE q.to = t
      <4>1. q.attempt <= attempts[t] /\ attempts[t] \in Nat
        BY <3>2, <3>3, Zenon DEF Earlier, Coherent, Typed
      <4> QED
        BY <1>2, <3>2, <3>3, <4>1 DEF Earlier
    <3>4. CASE q.to # t
      BY <1>6, <3>2, <3>4, Zenon DEF Earlier, Busy, Before
    <3> QED
      BY <3>3, <3>4, Zenon
  <2> QED
    BY <2>1, <2>2, Zenon
<1> QED
  BY <1>2, <1>3, <1>5, <1>6, <1>7, <1>9, <1>10, Zenon DEF Coherent

-----------------------------------------------------------------------------
(* Answers *)

\* Nobody waits for the answer to r.
Dropped(r) ==
    /\ \A t \in Clients : waiting[t] # r
    /\ UNCHANGED <<waiting, target, phase, attempts>>
    /\ sent' = sent \ {r}

\* The answer ends the transfer of t.
Ended(t, r, outcome) ==
    /\ waiting[t] = r /\ Busy(t)
    /\ phase' = [phase EXCEPT ![t] = outcome]
    /\ waiting' = [waiting EXCEPT ![t] = NoClient]
    /\ UNCHANGED <<target, attempts>>
    /\ sent' = sent \ {r}

\* The chunks a client has sent when it sends m are those it had sent before r, and r.
Covers(r, m) ==
    LET before == IF m.kind = "chunk" THEN 0..(m.index - 1) ELSE Chunks(m.total) IN
    \A i \in before : r.kind = "chunk" /\ (i = r.index \/ i \in 0..(r.index - 1))

\* The answer lets t go on with m.
Advanced(t, r, m) ==
    /\ waiting[t] = r /\ Busy(t)
    /\ m \in Request /\ Before(r, m)
    /\ m.signer = Signer[t] /\ m.id = target[t] /\ m.to = t /\ m.attempt = attempts[t]
    /\ m.total = Size[target[t]] /\ m.bytes = "right"
    /\ m.kind \in {"chunk", "complete"}
    /\ m.kind = "chunk" => m.index \in Chunks(m.total)
    /\ Covers(r, m)
    /\ waiting' = [waiting EXCEPT ![t] = m]
    /\ UNCHANGED <<target, phase, attempts>>
    /\ sent' = (sent \ {r}) \cup {m}

\* What an answer does to the clients.
LEMMA Answers ==
    ASSUME Coherent, NEW r \in Messages, NEW ok \in BOOLEAN, Answer(r, ok)
    PROVE  \/ Dropped(r)
           \/ ~ok /\ \E t \in Clients : Ended(t, r, "failed")
           \/ ok /\ r.kind \in {"content", "complete"} /\ \E t \in Clients : Ended(t, r, "ok")
           \/ ok /\ r.kind \in {"start", "chunk"} /\ \E t \in Clients, m \in Request : Advanced(t, r, m)
<1>1. r \in Request
  BY Zenon DEF Coherent, Typed, Messages
<1>2. CASE r.to = NoClient \/ waiting[r.to] # r
  <2>1. ASSUME NEW t \in Clients, waiting[t] = r PROVE FALSE
    <3>1. Busy(t)
      BY <1>1, <2>1, IntakeAssumption, Zenon DEF Coherent, Typed
    <3>2. r.to = t
      BY <2>1, <3>1, Zenon DEF Coherent, Own
    <3> QED
      BY <1>2, <2>1, <3>2, IntakeAssumption, Zenon
  <2>2. UNCHANGED <<waiting, target, phase, attempts>> /\ sent' = sent \ {r}
    BY <1>2, Zenon DEF Answer
  <2> QED
    BY <2>1, <2>2, Zenon DEF Dropped
<1>3. CASE ~(r.to = NoClient \/ waiting[r.to] # r)
  <2> DEFINE t == r.to
  <2>1. t \in Clients /\ waiting[t] = r
    BY <1>1, <1>3, Zenon DEF Request
  <2>2. Busy(t)
    BY <1>1, <2>1, IntakeAssumption, Zenon DEF Coherent, Typed
  <2>3. UNCHANGED <<target, attempts>>
    BY <1>3, Zenon DEF Answer
  <2>4. CASE ~ok
    <3>1. EndTransfer(t, "failed") /\ sent' = sent \ {r}
      BY <1>3, <2>4, Zenon DEF Answer
    <3>2. Ended(t, r, "failed")
      BY <2>1, <2>2, <2>3, <3>1, Zenon DEF Ended, EndTransfer
    <3> QED
      BY <2>1, <2>4, <3>2, Zenon
  <2>5. CASE ok /\ r.kind \in {"content", "complete"}
    <3>1. EndTransfer(t, "ok") /\ sent' = sent \ {r}
      BY <1>3, <2>5, Zenon DEF Answer
    <3>2. Ended(t, r, "ok")
      BY <2>1, <2>2, <2>3, <3>1, Zenon DEF Ended, EndTransfer
    <3> QED
      BY <2>1, <2>5, <3>2, Zenon
  <2>6. CASE ok /\ r.kind \in {"start", "chunk"}
    <3> DEFINE i == IF r.kind = "start" THEN 0 ELSE r.index + 1
               m == IF i < NChunks(r.total) THEN Msg(t, "chunk", i) ELSE Msg(t, "complete", 0)
    <3>1. /\ sent' = (sent \ {r}) \cup {m} /\ waiting' = [waiting EXCEPT ![t] = m]
          /\ phase' = phase
      BY <1>3, <2>6, Zenon DEF Answer
    <3>2. /\ Own(t) /\ target[t] \in Contents /\ attempts[t] \in Nat /\ Signer[t] \in Signers
          /\ Size[target[t]] \in Nat
      BY <2>1, IntakeAssumption, Zenon DEF Coherent, Typed
    <3>3. r.total = Size[target[t]] /\ (r.kind = "chunk" => r.index \in Chunks(r.total))
      BY <2>1, <2>2, <3>2, Zenon DEF Own
    <3>4. NChunks(r.total) \in Int
      BY <3>2, <3>3, IntakeAssumption DEF NChunks
    <3>5. i \in Nat
      BY <1>1, <2>6 DEF Request
    <3> HIDE DEF t, i
    <3>6. /\ m \in Request
          /\ m.signer = Signer[t] /\ m.id = target[t] /\ m.to = t /\ m.attempt = attempts[t]
          /\ m.total = Size[target[t]] /\ m.bytes = "right"
          /\ \/ m.kind = "chunk" /\ m.index = i /\ i < NChunks(r.total)
             \/ m.kind = "complete" /\ ~(i < NChunks(r.total))
      BY <2>1, <2>3, <3>2, <3>5, Zenon DEF Msg, Request, Kinds
    <3> HIDE DEF m
    <3>7. Before(r, m) /\ (m.kind = "chunk" => m.index \in Chunks(m.total))
      <4>1. m.kind = "chunk" => m.index \in Chunks(m.total)
        BY <3>3, <3>4, <3>5, <3>6 DEF Chunks
      <4>2. r.index \in Nat /\ (r.kind = "chunk" => i = r.index + 1)
        BY <1>1, Zenon DEF Request, i
      <4>3. Before(r, m)
        BY <2>6, <3>6, <4>2 DEF Before
      <4> QED
        BY <4>1, <4>3, Zenon
    <3>8. Covers(r, m)
      BY <1>1, <2>6, <3>3, <3>4, <3>5, <3>6 DEF Covers, Chunks, Request, i
    <3>9. Advanced(t, r, m)
      BY <2>1, <2>2, <2>3, <3>1, <3>6, <3>7, <3>8, Zenon DEF Advanced
    <3> QED
      BY <2>1, <2>6, <3>6, <3>9, Zenon
  <2> QED
    BY <1>1, <2>4, <2>5, <2>6, Zenon DEF Request, Kinds
<1> QED
  BY <1>2, <1>3, Zenon

\* An answered message is gone and the clients are coherent again.
LEMMA AnsweredCoherent ==
    ASSUME Coherent, NEW r \in Messages, NEW ok \in BOOLEAN, Answer(r, ok),
           checked' \in {checked, checked \ {r}}, putting' \in {putting, putting \ {r}},
           UNCHANGED events
    PROVE  Coherent'
<1>1. events' \in Nat
  BY Zenon DEF Coherent, Typed
<1>2. CASE Dropped(r)
  <2>1. SameBut({r})
    BY <1>2, Zenon DEF SameBut, Dropped
  <2> QED
    BY <1>1, <1>2, <2>1, SilentCoherent, Zenon DEF Dropped
<1>3. ASSUME NEW t \in Clients, NEW o \in {"ok", "failed"}, Ended(t, r, o) PROVE Coherent'
  <2>1. SameBut({waiting[t]}) /\ Messages' \subseteq Messages
    BY <1>3, Zenon DEF SameBut, Ended, Messages
  <2> QED
    BY <1>1, <1>3, <2>1, EndCoherent, Zenon DEF Ended
<1>4. ASSUME NEW t \in Clients, NEW m \in Request, Advanced(t, r, m) PROVE Coherent'
  <2>1. SameBut({waiting[t], m}) /\ checked' \subseteq checked /\ putting' \subseteq putting
    BY <1>4, Zenon DEF SameBut, Advanced
  <2> QED
    BY <1>1, <1>4, <2>1, AdvanceCoherent, Zenon DEF Advanced
<1> QED
  BY <1>2, <1>3, <1>4, Answers, Zenon

\* A client that goes on waiting keeps its progress if its session is not touched.
LEMMA ProgressKept ==
    ASSUME NEW u \in Clients, Progress(u),
           Busy(u)' => Busy(u) /\ waiting'[u] = waiting[u],
           u \in excused => u \in excused',
           Busy(u)' /\ u \notin excused' =>
               /\ Key(waiting[u]) \in Active =>
                    Key(waiting[u]) \in Active' /\ uploads'[Key(waiting[u])] = uploads[Key(waiting[u])]
               /\ waiting[u] \in putting => waiting[u] \in putting'
    PROVE  Progress(u)'
<1> SUFFICES ASSUME Busy(u)', u \notin excused' PROVE Progress(u)'
  BY Zenon DEF Progress
<1>1. Busy(u) /\ waiting'[u] = waiting[u] /\ u \notin excused
  BY Zenon
<1>2. \A k : Key(k)' = Key(k)
  BY Zenon DEF Key
<1>3. \A total, indices : Holds(Key(waiting[u]), total, indices)
                            => Holds(Key(waiting[u]), total, indices)'
  BY <1>1, Zenon DEF Holds
<1> QED
  BY <1>1, <1>2, <1>3, Zenon DEF Progress

\* A transfer that r does not belong to and did not cross has another key.
LEMMA OtherKey ==
    ASSUME Coherent, NEW r, NEW u \in Clients, Busy(u), waiting[u] # r, u \notin Crossed(r)
    PROVE  Key(waiting[u]) # Key(r)
  BY Zenon DEF Coherent, Own, Crossed, Key, Busy

\* The clients after an answer, other than the one it went to.
LEMMA OthersWait ==
    ASSUME Coherent, NEW r \in Messages, NEW ok \in BOOLEAN, Answer(r, ok), NEW u \in Clients,
           Busy(u)' /\ (waiting[u] = r => ok = FALSE)
    PROVE  Busy(u) /\ waiting'[u] = waiting[u] /\ waiting[u] # r
<1>1. CASE Dropped(r)
  BY <1>1, Zenon DEF Dropped, Busy
<1>2. ASSUME NEW t \in Clients, NEW o \in {"ok", "failed"}, Ended(t, r, o)
      PROVE  Busy(u) /\ waiting'[u] = waiting[u] /\ waiting[u] # r
  <2>1. u # t
    BY <1>2, Zenon DEF Ended, Busy, Coherent, Typed
  <2>2. phase'[u] = phase[u] /\ waiting'[u] = waiting[u] /\ waiting[t] = r /\ Busy(t)
    BY <1>2, <2>1, Zenon DEF Ended, Coherent, Typed
  <2> QED
    BY <2>1, <2>2, OneWaits, Zenon DEF Busy
<1>3. ASSUME NEW t \in Clients, NEW m \in Request, Advanced(t, r, m), ok
      PROVE  Busy(u) /\ waiting'[u] = waiting[u] /\ waiting[u] # r
  <2>1. u # t
    BY <1>3, Zenon DEF Advanced
  <2>2. phase'[u] = phase[u] /\ waiting'[u] = waiting[u] /\ waiting[t] = r /\ Busy(t)
    BY <1>3, <2>1, Zenon DEF Advanced, Coherent, Typed
  <2> QED
    BY <2>1, <2>2, OneWaits, Zenon DEF Busy
<1> QED
  BY <1>1, <1>2, <1>3, Answers, Zenon

\* Failures and successes after an answer: they need a reason, and the content.
LEMMA AnswerResults ==
    ASSUME TransferInv, NEW r \in Messages, NEW ok \in BOOLEAN, Answer(r, ok),
           excused \subseteq excused', store \subseteq store',
           ok /\ r.kind \in {"content", "complete"} => r.id \in store',
           ~ok => \A t \in Clients : Busy(t) /\ waiting[t] = r => t \in excused'
    PROVE  DoneIsStored' /\ UndisturbedSucceeds'
<1>1. /\ \A t \in Clients : phase[t] = "ok" => target[t] \in store'
      /\ \A t \in Clients : phase[t] = "failed" => t \in excused'
  BY Zenon DEF TransferInv, DoneIsStored, UndisturbedSucceeds
<1>2. target' = target
  BY Zenon DEF Answer
<1>3. CASE Dropped(r) \/ \E t \in Clients, m \in Request : Advanced(t, r, m)
  <2>1. phase' = phase
    BY <1>3, Zenon DEF Dropped, Advanced
  <2> QED
    BY <1>1, <1>2, <2>1, Zenon DEF DoneIsStored, UndisturbedSucceeds
<1>4. ASSUME NEW t \in Clients, Ended(t, r, "failed"), ~ok
      PROVE  DoneIsStored' /\ UndisturbedSucceeds'
  <2>1. t \in excused' /\ \A u \in Clients : phase'[u] = IF u = t THEN "failed" ELSE phase[u]
    BY <1>4, Zenon DEF Ended, TransferInv, Coherent, Typed
  <2> QED
    BY <1>1, <1>2, <2>1, Zenon DEF DoneIsStored, UndisturbedSucceeds
<1>5. ASSUME NEW t \in Clients, Ended(t, r, "ok"), ok, r.kind \in {"content", "complete"}
      PROVE  DoneIsStored' /\ UndisturbedSucceeds'
  <2>1. \A u \in Clients : phase'[u] = IF u = t THEN "ok" ELSE phase[u]
    BY <1>5, Zenon DEF Ended, TransferInv, Coherent, Typed
  <2>2. target[t] \in store'
    BY <1>5, Zenon DEF Ended, TransferInv, Coherent, Own
  <2> QED
    BY <1>1, <1>2, <2>1, <2>2, Zenon DEF DoneIsStored, UndisturbedSucceeds
<1> QED
  BY <1>3, <1>4, <1>5, Answers, Zenon DEF TransferInv

-----------------------------------------------------------------------------
(* The steps *)

\* A request refused by the budget or the policy, or let through.
LEMMA ReceiveKeeps ==
    ASSUME TransferInv, NEW r \in sent, Receive(r)
    PROVE  TransferInv'
<1>1. r \in Messages
  BY Zenon DEF Messages
<1>2. UNCHANGED <<uploads, store, putting, events>>
  BY Zenon DEF Receive, server
<1>3. /\ SessionsTyped'
      /\ \A q \in putting' : q.kind \in {"content", "complete"}
  BY <1>2, Zenon DEF TransferInv, SessionsTyped, Active
<1>4. CASE checked' = checked \cup {r} /\ sent' = sent \ {r} /\ UNCHANGED client
  <2>1. UNCHANGED <<waiting, target, phase, attempts, excused>>
    BY <1>4, Zenon DEF client
  <2>2. SameBut({r})
    BY <1>2, <1>4, Zenon DEF SameBut
  <2>3. \A t \in Clients : Busy(t) /\ waiting[t] = r =>
               /\ r \in putting' => r \notin sent' \cup checked'
               /\ r \in checked' => r \notin sent'
    BY <1>2, <1>4, Zenon DEF TransferInv, Coherent, Once
  <2>4. Coherent'
    <3>1. events' \in Nat
      BY <1>2, Zenon DEF TransferInv, Coherent, Typed
    <3> QED
      BY <1>1, <2>1, <2>2, <2>3, <3>1, SilentCoherent, Zenon DEF TransferInv
  <2>5. ASSUME NEW u \in Clients PROVE Progress(u)'
    BY <1>2, <2>1, ProgressKept, Zenon DEF TransferInv, Busy, Active
  <2>6. DoneIsStored' /\ UndisturbedSucceeds'
    BY <1>2, <2>1, Zenon DEF TransferInv, DoneIsStored, UndisturbedSucceeds
  <2> QED
    BY <1>3, <2>4, <2>5, <2>6, Zenon DEF TransferInv
<1>5. CASE Answer(r, FALSE) /\ excused' = excused \cup Waits(r) /\ UNCHANGED checked
  <2>1. Coherent'
    BY <1>1, <1>2, <1>5, AnsweredCoherent, Zenon DEF TransferInv
  <2>2. ASSUME NEW u \in Clients PROVE Progress(u)'
    <3>1. Busy(u)' => Busy(u) /\ waiting'[u] = waiting[u]
      BY <1>1, <1>5, OthersWait, Zenon DEF TransferInv
    <3> QED
      BY <1>2, <1>5, <3>1, ProgressKept, Zenon DEF TransferInv, Active
  <2>3. DoneIsStored' /\ UndisturbedSucceeds'
    BY <1>1, <1>2, <1>5, AnswerResults, Zenon DEF Waits
  <2> QED
    BY <1>3, <2>1, <2>2, <2>3, Zenon DEF TransferInv
<1> QED
  BY <1>4, <1>5, Zenon DEF Receive

\* Content in one message: on to the store, if its bytes hash to its id.
LEMMA ContentKeeps ==
    ASSUME TransferInv, NEW r \in checked, checked' = checked \ {r}, HandleContent(r),
           UNCHANGED events
    PROVE  TransferInv'
<1>1. r \in Messages /\ r.kind = "content" /\ UNCHANGED <<uploads, store, excused>>
  BY Zenon DEF Messages, HandleContent
<1>2. SessionsTyped'
  BY <1>1, Zenon DEF TransferInv, SessionsTyped, Active
<1>3. CASE putting' = putting \cup {r} /\ UNCHANGED <<sent, waiting, target, phase, attempts>>
  <2>1. SameBut({r})
    BY <1>3, Zenon DEF SameBut
  <2>2. \A t \in Clients : Busy(t) /\ waiting[t] = r =>
               /\ r \in putting' => r \notin sent' \cup checked'
               /\ r \in checked' => r \notin sent'
    BY <1>3, Zenon DEF TransferInv, Coherent, Once
  <2>3. Coherent'
    <3>1. events' \in Nat
      BY Zenon DEF TransferInv, Coherent, Typed
    <3> QED
      BY <1>1, <1>3, <2>1, <2>2, <3>1, SilentCoherent, Zenon DEF TransferInv
  <2>4. ASSUME NEW u \in Clients PROVE Progress(u)'
    BY <1>1, <1>3, ProgressKept, Zenon DEF TransferInv, Busy, Active
  <2>5. DoneIsStored' /\ UndisturbedSucceeds'
    BY <1>1, <1>3, Zenon DEF TransferInv, DoneIsStored, UndisturbedSucceeds
  <2>6. \A q \in putting' : q.kind \in {"content", "complete"}
    BY <1>1, <1>3, Zenon DEF TransferInv
  <2> QED
    BY <1>2, <2>3, <2>4, <2>5, <2>6, Zenon DEF TransferInv
<1>4. CASE r.bytes # "right" /\ Answer(r, FALSE) /\ UNCHANGED putting
  <2>1. Coherent'
    BY <1>1, <1>4, AnsweredCoherent, Zenon DEF TransferInv
  <2>2. ASSUME NEW u \in Clients PROVE Progress(u)'
    <3>1. Busy(u)' => Busy(u) /\ waiting'[u] = waiting[u]
      BY <1>1, <1>4, OthersWait, Zenon DEF TransferInv
    <3> QED
      BY <1>1, <1>4, <3>1, ProgressKept, Zenon DEF TransferInv, Active
  <2>3. \A t \in Clients : ~(Busy(t) /\ waiting[t] = r)
    BY <1>4 DEF TransferInv, Coherent, Own
  <2>4. DoneIsStored' /\ UndisturbedSucceeds'
    BY <1>1, <1>4, <2>3, AnswerResults, Zenon
  <2>5. \A q \in putting' : q.kind \in {"content", "complete"}
    BY <1>4, Zenon DEF TransferInv
  <2> QED
    BY <1>2, <2>1, <2>2, <2>4, <2>5, Zenon DEF TransferInv
<1> QED
  BY <1>3, <1>4, Zenon DEF HandleContent

\* The answer of a step that ends or goes on with a session: what remains to be
\* shown is the progress of the client that waited for it.
LEMMA SessionStep ==
    ASSUME TransferInv, NEW r \in checked, NEW ok \in BOOLEAN, Answer(r, ok),
           checked' = checked \ {r}, UNCHANGED <<store, putting, events>>,
           r.kind \in {"start", "chunk"} \/ ~ok,
           excused \cup Crossed(r) \subseteq excused',
           \A k : k # Key(r) /\ k \in Active => k \in Active' /\ uploads'[k] = uploads[k],
           SessionsTyped',
           ~ok => \A t \in Clients : Busy(t) /\ waiting[t] = r => t \in excused',
           ok => \A t \in Clients : t \notin excused' /\ Busy(t) /\ waiting[t] = r =>
                   /\ Key(r) \in Active' /\ uploads'[Key(r)].total = r.total
                   /\ r.kind = "chunk" => \A i \in 0..(r.index - 1) \cup {r.index} :
                                            uploads'[Key(r)].chunks[i] = "right"
    PROVE  TransferInv'
<1>1. r \in Messages
  BY Zenon DEF Messages
<1>2. Coherent'
  BY <1>1, AnsweredCoherent, Zenon DEF TransferInv
<1>3. DoneIsStored' /\ UndisturbedSucceeds'
  BY <1>1, AnswerResults, Zenon
<1>4. ASSUME NEW u \in Clients, waiting[u] # r \/ ~ok PROVE Progress(u)'
  <2>1. Busy(u)' => Busy(u) /\ waiting'[u] = waiting[u] /\ waiting[u] # r
    BY <1>1, <1>4, OthersWait, Zenon DEF TransferInv
  <2>2. Busy(u)' /\ u \notin excused' => Key(waiting[u]) # Key(r)
    BY <2>1, OtherKey, Zenon DEF TransferInv
  <2>3. Progress(u)
    BY Zenon DEF TransferInv
  <2> QED
    BY <2>1, <2>2, <2>3, ProgressKept, Zenon
<1>5. ASSUME NEW u \in Clients, waiting[u] = r, ok PROVE Progress(u)'
  <2> SUFFICES ASSUME Busy(u)', u \notin excused' PROVE Progress(u)'
    BY Zenon DEF Progress
  <2>1. ~Dropped(r) /\ r.kind \in {"start", "chunk"}
    BY <1>5, Zenon DEF Dropped
  <2>2. PICK t \in Clients, m \in Request : Advanced(t, r, m)
    BY <1>1, <1>5, <2>1, Answers, Zenon DEF TransferInv
  <2>3. r \in Request /\ r # NoClient /\ Busy(u)
    BY <1>1, <1>5, IntakeAssumption, Zenon DEF TransferInv, Coherent, Typed, Messages
  <2>4. u = t
    BY <1>5, <2>2, <2>3, OneWaits, Zenon DEF TransferInv, Advanced
  <2>5. waiting'[u] = m
    BY <2>2, <2>4, Zenon DEF Advanced, TransferInv, Coherent, Typed
  <2>6. Key(m) = Key(r) /\ m.total = r.total
    <3>1. Own(u)
      BY Zenon DEF TransferInv, Coherent
    <3> QED
      BY <1>5, <2>2, <2>3, <2>4, <3>1, Zenon DEF Advanced, Key, Own
  <2>7. /\ Key(r) \in Active' /\ uploads'[Key(r)].total = r.total
        /\ r.kind = "chunk" => \A i \in 0..(r.index - 1) \cup {r.index} :
                                 uploads'[Key(r)].chunks[i] = "right"
    BY <1>5, <2>3, Zenon
  <2>8. /\ m.kind = "chunk" => \A i \in 0..(m.index - 1) : uploads'[Key(r)].chunks[i] = "right"
        /\ m.kind = "complete" => \A i \in Chunks(m.total) : uploads'[Key(r)].chunks[i] = "right"
    BY <2>2, <2>7, Zenon DEF Advanced, Covers
  <2>9. Key(waiting[u])' = Key(m)
    BY <2>5, Zenon DEF Key
  <2> QED
    BY <2>5, <2>6, <2>7, <2>8, <2>9, Zenon DEF Progress, Holds
<1>6. \A q \in putting' : q.kind \in {"content", "complete"}
  BY Zenon DEF TransferInv
<1> QED
  BY <1>2, <1>3, <1>4, <1>5, <1>6, Zenon DEF TransferInv

\* ContentStart.
LEMMA StartKeeps ==
    ASSUME TransferInv, NEW r \in checked, checked' = checked \ {r}, HandleStart(r),
           UNCHANGED events
    PROVE  TransferInv'
<1> DEFINE session == [total |-> r.total, chunks |-> [i \in Chunks(r.total) |-> "missing"]]
<1>1. r \in Request /\ r.kind = "start" /\ UNCHANGED <<store, putting>>
  BY Zenon DEF HandleStart, TransferInv, Coherent, Typed
<1>2. PICK ok \in BOOLEAN :
        /\ uploads' = IF ok THEN Inserted(Key(r), session) ELSE uploads
        /\ Answer(r, ok)
        /\ excused' = excused \cup Crossed(r) \cup (IF ok THEN {} ELSE Waits(r))
  <2> DEFINE valid == /\ r.total <= MaxContent
                      /\ Room(r)
                      /\ Reserved(r) + r.total <= MaxInFlight
  <2>1. /\ uploads' = IF valid THEN Inserted(Key(r), session) ELSE uploads
        /\ Answer(r, valid)
        /\ excused' = excused \cup Crossed(r) \cup (IF valid THEN {} ELSE Waits(r))
    BY Zenon DEF HandleStart
  <2>2. valid \in BOOLEAN
    BY Zenon
  <2> HIDE DEF valid
  <2> QED
    BY <2>1, <2>2, Zenon
<1>3. /\ session.total = r.total /\ session.chunks = [i \in Chunks(r.total) |-> "missing"]
      /\ session = [total |-> session.total, chunks |-> session.chunks]
  BY Zenon
<1> HIDE DEF session
<1>4. Key(r) \in Keys /\ r.total \in Nat
  BY <1>1, Zenon DEF Key, Keys, Request
<1>5. CASE ok
  <2>1. /\ Active' = Active \cup {Key(r)}
        /\ \A k \in Active' : uploads'[k] = IF k = Key(r) THEN session ELSE uploads[k]
    BY <1>2, <1>5, Zenon DEF Inserted, Active
  <2>2. SessionsTyped'
    <3>1. session.chunks \in [Chunks(session.total) -> {"missing", "right", "other"}]
      BY <1>3, Zenon
    <3> QED
      BY <1>3, <1>4, <2>1, <3>1, Zenon DEF TransferInv, SessionsTyped, Chunks, NChunks
  <2> QED
    BY <1>1, <1>2, <1>3, <1>5, <2>1, <2>2, SessionStep, Zenon
<1>6. CASE ~ok
  <2>1. SessionsTyped' /\ Active' = Active /\ uploads' = uploads
    BY <1>2, <1>6, Zenon DEF TransferInv, SessionsTyped, Active
  <2>2. \A t \in Clients : waiting[t] = r => t \in excused'
    BY <1>2, <1>6, Zenon DEF Waits
  <2> QED
    BY <1>1, <1>2, <1>6, <2>1, <2>2, SessionStep, Zenon
<1> QED
  BY <1>5, <1>6, Zenon

\* A session taken out of the table leaves the others.
LEMMA RemovedTyped ==
    ASSUME TransferInv, NEW key, uploads' = Removed(key)
    PROVE  /\ SessionsTyped'
           /\ \A k : k # key /\ k \in Active => k \in Active' /\ uploads'[k] = uploads[k]
<1>1. Active' = Active \ {key} /\ \A k \in Active' : uploads'[k] = uploads[k]
  BY Zenon DEF Removed, Active
<1> QED
  BY <1>1, Zenon DEF TransferInv, SessionsTyped

\* ContentChunk.
LEMMA ChunkKeeps ==
    ASSUME TransferInv, NEW r \in checked, checked' = checked \ {r}, HandleChunk(r),
           UNCHANGED events
    PROVE  TransferInv'
<1> DEFINE key == Key(r)
           session == uploads[key]
           ok == key \in Active /\ r.bytes # "damaged" /\ r.index \in Chunks(session.total)
<1>1. r \in Request /\ r.kind = "chunk" /\ UNCHANGED <<store, putting>>
  BY Zenon DEF HandleChunk, TransferInv, Coherent, Typed
<1>2. /\ uploads' = IF ok THEN [uploads EXCEPT ![key].chunks[r.index] = r.bytes]
                          ELSE Removed(key)
      /\ Answer(r, ok)
      /\ excused' = excused \cup Crossed(r)
  BY Zenon DEF HandleChunk
<1>3. ok \in BOOLEAN
  BY Zenon
<1>4. ASSUME NEW t \in Clients, t \notin excused', Busy(t), waiting[t] = r
      PROVE  ok /\ Holds(key, r.total, 0..(r.index - 1)) /\ r.bytes = "right"
  <2>1. t \notin excused
    BY <1>2, <1>4, Zenon
  <2>2. Holds(key, r.total, 0..(r.index - 1))
    BY <1>1, <1>4, <2>1, Zenon DEF TransferInv, Progress
  <2>3. r.bytes = "right" /\ r.index \in Chunks(r.total)
    BY <1>1, <1>4, Zenon DEF TransferInv, Coherent, Own
  <2> QED
    BY <2>2, <2>3, Zenon DEF Holds
<1>5. CASE ok
  <2> DEFINE chunks == [session.chunks EXCEPT ![r.index] = r.bytes]
             filled == [total |-> session.total, chunks |-> chunks]
  <2>1. /\ session.chunks \in [Chunks(session.total) -> {"missing", "right", "other"}]
        /\ session = [total |-> session.total, chunks |-> session.chunks]
        /\ session.total \in Nat
    BY <1>5, Zenon DEF TransferInv, SessionsTyped
  <2>2. uploads' = [uploads EXCEPT ![key] = [session EXCEPT !.chunks = chunks]]
    BY <1>2, <1>5, Zenon
  <2>3. [session EXCEPT !.chunks = chunks] = filled
    BY <2>1
  <2>4. r.bytes \in {"right", "other"} /\ r.index \in Chunks(session.total)
    BY <1>1, <1>5, Zenon DEF Request
  <2>5. /\ chunks \in [Chunks(session.total) -> {"missing", "right", "other"}]
        /\ \A i \in Chunks(session.total) :
             chunks[i] = IF i = r.index THEN r.bytes ELSE session.chunks[i]
    BY <2>1, <2>4, Zenon
  <2> HIDE DEF chunks
  <2>6. /\ filled.total = session.total /\ filled.chunks = chunks
        /\ filled = [total |-> filled.total, chunks |-> filled.chunks]
    BY Zenon
  <2> HIDE DEF filled
  <2>7. /\ Active' = Active
        /\ \A k \in Active : uploads'[k] = IF k = key THEN filled ELSE uploads[k]
    BY <2>2, <2>3, Zenon DEF Active
  <2>8. SessionsTyped'
    <3>1. SessionsTyped
      BY Zenon DEF TransferInv
    <3>2. \A total : Chunks(total)' = Chunks(total)
      BY Zenon DEF Chunks, NChunks
    <3> QED
      BY <2>1, <2>5, <2>6, <2>7, <3>1, <3>2 DEF SessionsTyped
  <2>9. ASSUME NEW t \in Clients, t \notin excused', Busy(t), waiting[t] = r
        PROVE  /\ key \in Active' /\ uploads'[key].total = r.total
               /\ \A i \in 0..(r.index - 1) \cup {r.index} : uploads'[key].chunks[i] = "right"
    <3>1. Holds(key, r.total, 0..(r.index - 1)) /\ r.bytes = "right"
      BY <1>4, <2>9, Zenon
    <3>2. NChunks(session.total) \in Int
      BY <2>1, IntakeAssumption DEF NChunks
    <3>3. \A i \in 0..(r.index - 1) \cup {r.index} : i \in Chunks(session.total)
      BY <1>1, <2>4, <3>2 DEF Chunks, Request
    <3> QED
      BY <1>5, <2>5, <2>6, <2>7, <3>1, <3>3, Zenon DEF Holds
  <2>10. \A k : k # key /\ k \in Active => k \in Active' /\ uploads'[k] = uploads[k]
    BY <2>7, Zenon
  <2> HIDE DEF ok
  <2> QED
    BY <1>1, <1>2, <1>5, <2>8, <2>9, <2>10, SessionStep, Zenon DEF key
<1>6. CASE ~ok
  <2>1. uploads' = Removed(key)
    BY <1>2, <1>6, Zenon
  <2>2. /\ SessionsTyped'
        /\ \A k : k # key /\ k \in Active => k \in Active' /\ uploads'[k] = uploads[k]
    BY <2>1, RemovedTyped
  <2>3. \A t \in Clients : Busy(t) /\ waiting[t] = r => t \in excused'
    BY <1>4, <1>6, Zenon
  <2> HIDE DEF ok
  <2> QED
    BY <1>1, <1>2, <1>3, <1>6, <2>2, <2>3, SessionStep, Zenon DEF key
<1> QED
  BY <1>5, <1>6, Zenon

\* ContentComplete.
LEMMA CompleteKeeps ==
    ASSUME TransferInv, NEW r \in checked, checked' = checked \ {r}, HandleComplete(r),
           UNCHANGED events
    PROVE  TransferInv'
<1>1. /\ r \in Request /\ r \in Messages /\ r.kind = "complete" /\ UNCHANGED store
      /\ uploads' = Removed(Key(r)) /\ excused' = excused \cup Crossed(r)
  BY Zenon DEF HandleComplete, TransferInv, Coherent, Typed, Messages
<1>2. /\ SessionsTyped'
      /\ \A k : k # Key(r) /\ k \in Active => k \in Active' /\ uploads'[k] = uploads[k]
  <2> DEFINE key == Key(r)
  <2>1. uploads' = Removed(key)
    BY <1>1, Zenon
  <2> HIDE DEF key
  <2>2. /\ SessionsTyped'
        /\ \A k : k # key /\ k \in Active => k \in Active' /\ uploads'[k] = uploads[k]
    BY <2>1, RemovedTyped
  <2> QED
    BY <2>2, Zenon DEF key
<1>3. CASE putting' = putting \cup {r} /\ UNCHANGED <<sent, waiting, target, phase, attempts>>
  <2>1. SameBut({r})
    BY <1>3, Zenon DEF SameBut
  <2>2. \A t \in Clients : Busy(t) /\ waiting[t] = r =>
               /\ r \in putting' => r \notin sent' \cup checked'
               /\ r \in checked' => r \notin sent'
    BY <1>3, Zenon DEF TransferInv, Coherent, Once
  <2>3. Coherent'
    <3>1. events' \in Nat
      BY Zenon DEF TransferInv, Coherent, Typed
    <3> QED
      BY <1>1, <1>3, <2>1, <2>2, <3>1, SilentCoherent, Zenon DEF TransferInv
  <2>4. ASSUME NEW u \in Clients PROVE Progress(u)'
    <3>1. CASE waiting[u] = r
      BY <1>1, <1>3, <3>1, Zenon DEF Progress
    <3>2. CASE waiting[u] # r
      <4>1. Busy(u)' <=> Busy(u)
        BY <1>3, Zenon DEF Busy
      <4>2. Busy(u) /\ u \notin excused' => Key(waiting[u]) # Key(r)
        BY <1>1, <3>2, OtherKey, Zenon DEF TransferInv
      <4>3. Progress(u)
        BY Zenon DEF TransferInv
      <4> QED
        BY <1>1, <1>2, <1>3, <4>1, <4>2, <4>3, ProgressKept, Zenon
    <3> QED
      BY <3>1, <3>2, Zenon
  <2>5. DoneIsStored' /\ UndisturbedSucceeds'
    BY <1>1, <1>3, Zenon DEF TransferInv, DoneIsStored, UndisturbedSucceeds
  <2>6. \A q \in putting' : q.kind \in {"content", "complete"}
    BY <1>1, <1>3, Zenon DEF TransferInv
  <2> QED
    BY <1>2, <2>3, <2>4, <2>5, <2>6, Zenon DEF TransferInv
<1>4. CASE /\ ~(Key(r) \in Active /\ Whole(uploads[Key(r)], r.id))
           /\ Answer(r, FALSE) /\ UNCHANGED putting
  <2>1. ASSUME NEW t \in Clients, Busy(t), waiting[t] = r, t \notin excused' PROVE FALSE
    <3>1. r \notin putting
      BY <2>1, Zenon DEF TransferInv, Coherent, Once
    <3>2. Holds(Key(r), r.total, Chunks(r.total))
      BY <1>1, <2>1, <3>1, Zenon DEF TransferInv, Progress
    <3>3. r.total = Size[r.id]
      <4>1. Own(t)
        BY Zenon DEF TransferInv, Coherent
      <4> QED
        BY <2>1, <4>1, Zenon DEF Own
    <3> QED
      BY <1>4, <3>2, <3>3, Zenon DEF Holds, Whole
  <2> QED
    BY <1>1, <1>2, <1>4, <2>1, SessionStep, Zenon
<1> QED
  BY <1>3, <1>4, Zenon DEF HandleComplete

\* The write to the store.
LEMMA PutKeeps ==
    ASSUME TransferInv, NEW r \in putting, Put(r)
    PROVE  TransferInv'
<1>1. r \in Messages /\ r.kind \in {"content", "complete"}
  BY Zenon DEF Messages, TransferInv
<1>2. /\ putting' = putting \ {r} /\ UNCHANGED <<uploads, checked, events>>
      /\ excused \subseteq excused' /\ store \subseteq store'
  BY Zenon DEF Put
<1>3. PICK ok \in BOOLEAN : /\ Answer(r, ok)
                            /\ ok => r.id \in store'
                            /\ ~ok => excused' = excused \cup Waits(r)
  BY Zenon DEF Put
<1>4. Coherent'
  BY <1>1, <1>2, <1>3, AnsweredCoherent, Zenon DEF TransferInv
<1>5. DoneIsStored' /\ UndisturbedSucceeds'
  BY <1>1, <1>2, <1>3, AnswerResults, Zenon DEF Waits
<1>6. ASSUME NEW u \in Clients PROVE Progress(u)'
  <2>1. ASSUME Busy(u)' PROVE Busy(u) /\ waiting'[u] = waiting[u] /\ waiting[u] # r
    <3>1. CASE waiting[u] # r \/ ~ok
      BY <1>1, <1>3, <2>1, <3>1, OthersWait, Zenon DEF TransferInv
    <3>2. CASE waiting[u] = r /\ ok
      <4>1. PICK t \in Clients : Ended(t, r, "ok")
        BY <1>1, <1>3, <3>2, Answers, Zenon DEF TransferInv, Dropped
      <4>2. Busy(u)
        <5>1. r \in Request /\ r # NoClient
          BY <1>1, IntakeAssumption, Zenon DEF TransferInv, Coherent, Typed, Messages
        <5> QED
          BY <3>2, <5>1, Zenon DEF TransferInv, Coherent, Typed
      <4>3. u = t
        BY <3>2, <4>1, <4>2, OneWaits, Zenon DEF Ended, TransferInv
      <4> QED
        BY <2>1, <4>1, <4>3, Zenon DEF Ended, Busy, TransferInv, Coherent, Typed
    <3> QED
      BY <3>1, <3>2, Zenon
  <2>2. Progress(u)
    BY Zenon DEF TransferInv
  <2> QED
    BY <1>2, <2>1, <2>2, ProgressKept, Zenon DEF Active
<1>7. SessionsTyped' /\ \A q \in putting' : q.kind \in {"content", "complete"}
  BY <1>2, Zenon DEF TransferInv, SessionsTyped, Active
<1> QED
  BY <1>4, <1>5, <1>6, <1>7, Zenon DEF TransferInv

\* A client begins or gives up.
LEMMA ClientKeeps ==
    ASSUME TransferInv, NEW t \in Clients, NEW c \in Contents, Begin(t, c) \/ Timeout(t)
    PROVE  TransferInv'
<1>1. UNCHANGED <<uploads, store, putting>>
  BY Zenon DEF Begin, Timeout, server
<1>2. SessionsTyped' /\ \A q \in putting' : q.kind \in {"content", "complete"}
  BY <1>1, Zenon DEF TransferInv, SessionsTyped, Active
<1>3. CASE Begin(t, c)
  <2>1. /\ Coherent'
        /\ waiting'[t].kind \in {"content", "start"}
        /\ \A u \in Clients : u # t => waiting'[u] = waiting[u] /\ phase'[u] = phase[u]
                                       /\ target'[u] = target[u]
        /\ target'[t] = c /\ phase'[t] = "busy"
    BY <1>3, BeginCoherent, Zenon DEF TransferInv
  <2>2. excused' = excused \ {t}
    BY <1>3, Zenon DEF Begin
  <2>3. ASSUME NEW u \in Clients PROVE Progress(u)'
    <3>1. CASE u = t
      BY <2>1, <3>1, Zenon DEF Progress
    <3>2. CASE u # t
      BY <1>1, <2>1, <2>2, <3>2, ProgressKept, Zenon DEF TransferInv, Busy, Active
    <3> QED
      BY <3>1, <3>2, Zenon
  <2>4. DoneIsStored' /\ UndisturbedSucceeds'
    BY <1>1, <2>1, <2>2, Zenon DEF TransferInv, DoneIsStored, UndisturbedSucceeds
  <2> QED
    BY <1>2, <2>1, <2>3, <2>4, Zenon DEF TransferInv
<1>4. CASE Timeout(t)
  <2>1. /\ Busy(t) /\ phase' = [phase EXCEPT ![t] = "failed"]
        /\ waiting' = [waiting EXCEPT ![t] = NoClient]
        /\ UNCHANGED <<sent, checked, putting, target, attempts, events>>
        /\ excused' = excused \cup {t}
    BY <1>4, Zenon DEF Timeout, EndTransfer, Busy
  <2>2. SameBut({waiting[t]}) /\ Messages' \subseteq Messages /\ events' \in Nat
    BY <2>1, Zenon DEF SameBut, Messages, TransferInv, Coherent, Typed
  <2>3. Coherent'
    BY <2>1, <2>2, EndCoherent, Zenon DEF TransferInv
  <2>4. \A u \in Clients : /\ phase'[u] = IF u = t THEN "failed" ELSE phase[u]
                           /\ u # t => waiting'[u] = waiting[u]
    BY <2>1, Zenon DEF TransferInv, Coherent, Typed
  <2>5. ASSUME NEW u \in Clients PROVE Progress(u)'
    BY <1>1, <2>1, <2>4, ProgressKept DEF TransferInv, Busy, Active
  <2>6. DoneIsStored' /\ UndisturbedSucceeds'
    BY <1>1, <2>1, <2>4 DEF TransferInv, DoneIsStored, UndisturbedSucceeds
  <2> QED
    BY <1>2, <2>3, <2>5, <2>6, Zenon DEF TransferInv
<1> QED
  BY <1>3, <1>4, Zenon

\* A request of another sender, which no client waits for.
LEMMA StrayKeeps ==
    ASSUME TransferInv, NEW s \in Signers, NEW c \in Contents, NEW kind \in Kinds,
           Stray(s, c, kind)
    PROVE  TransferInv'
<1>1. PICK f \in Fields(kind) :
        sent' = sent \cup {[signer |-> s, id |-> c, kind |-> kind, index |-> f[1],
                            total |-> f[2], bytes |-> f[3], to |-> NoClient,
                            attempt |-> events]}
  BY Zenon DEF Stray
<1> DEFINE m == [signer |-> s, id |-> c, kind |-> kind, index |-> f[1], total |-> f[2],
                 bytes |-> f[3], to |-> NoClient, attempt |-> events]
<1>2. /\ UNCHANGED <<uploads, store, checked, putting, waiting, target, phase, attempts, excused>>
      /\ events' = events + 1 /\ events \in Nat
  BY Zenon DEF Stray, Event, server, client, TransferInv, Coherent, Typed
<1>3. f[1] \in Nat /\ f[2] \in Nat /\ f[3] \in {"right", "other", "damaged"}
  BY IntakeAssumption DEF Fields, Kinds
<1>4. m \in Request /\ m.to = NoClient
  BY <1>2, <1>3, Zenon DEF Request
<1>5. sent' = sent \cup {m}
  BY <1>1, Zenon
<1> HIDE DEF m
<1>6. Typed'
  <2>1. Typed
    BY Zenon DEF TransferInv, Coherent
  <2>2. sent' \cup checked' \cup putting' \subseteq Request
    BY <1>2, <1>4, <1>5, <2>1, Zenon DEF Typed
  <2>3. events' \in Nat
    BY <1>2
  <2> QED
    BY <1>2, <2>1, <2>2, <2>3, Zenon DEF Typed, Busy
<1>7. ASSUME NEW u \in Clients PROVE Own(u)' /\ Once(u)'
  <2>1. Own(u) /\ Once(u)
    BY Zenon DEF TransferInv, Coherent
  <2>2. Busy(u) => waiting[u] # m
    BY <1>4, <2>1, IntakeAssumption, Zenon DEF Own
  <2> QED
    BY <1>2, <1>5, <2>1, <2>2, Zenon DEF Own, Once, Busy
<1>8. ASSUME NEW q \in Messages' PROVE Earlier(q)'
  <2>1. q = m \/ q \in Messages
    BY <1>2, <1>5, Zenon DEF Messages
  <2>2. q.to \in Clients => Earlier(q)
    BY <1>4, <2>1, IntakeAssumption, Zenon DEF TransferInv, Coherent
  <2> QED
    BY <1>2, <2>2, Zenon DEF Earlier, Busy, Before
<1>9. ASSUME NEW u \in Clients PROVE Progress(u)'
  BY <1>2, ProgressKept, Zenon DEF TransferInv, Busy, Active
<1>10. DoneIsStored' /\ UndisturbedSucceeds'
  BY <1>2, Zenon DEF TransferInv, DoneIsStored, UndisturbedSucceeds
<1>11. SessionsTyped' /\ \A q \in putting' : q.kind \in {"content", "complete"}
  BY <1>2, Zenon DEF TransferInv, SessionsTyped, Active
<1> QED
  BY <1>6, <1>7, <1>8, <1>9, <1>10, <1>11, Zenon DEF TransferInv, Coherent

\* A restart of the node excuses every transfer under way.
LEMMA RestartKeeps ==
    ASSUME TransferInv, Restart
    PROVE  TransferInv'
<1>1. /\ UNCHANGED <<store, waiting, target, phase, attempts>>
      /\ sent' = {} /\ checked' = {} /\ putting' = {} /\ Active' = {}
      /\ events' \in Nat
      /\ excused' = excused \cup {t \in Clients : Busy(t)}
  <2>1. events \in Nat
    BY Zenon DEF TransferInv, Coherent, Typed
  <2> QED
    BY <2>1 DEF Restart, Active, Event, Busy
<1>2. Typed'
  BY <1>1, Zenon DEF TransferInv, Coherent, Typed, Busy
<1>3. Messages' = {}
  BY <1>1, Zenon DEF Messages
<1>4. ASSUME NEW u \in Clients PROVE Own(u)' /\ Once(u)' /\ Progress(u)'
  BY <1>1, Zenon DEF TransferInv, Coherent, Own, Once, Progress, Busy
<1>5. DoneIsStored' /\ UndisturbedSucceeds'
  BY <1>1, Zenon DEF TransferInv, DoneIsStored, UndisturbedSucceeds
<1>6. SessionsTyped'
  BY <1>1, Zenon DEF SessionsTyped
<1> QED
  BY <1>1, <1>2, <1>3, <1>4, <1>5, <1>6, Zenon DEF TransferInv, Coherent

\* Steps that change neither messages, sessions, store nor clients.
LEMMA ElsewhereKeeps ==
    ASSUME TransferInv, events' \in Nat,
           UNCHANGED <<uploads, store, sent, checked, putting, waiting, target, phase, attempts,
                       excused>>
    PROVE  TransferInv'
<1>1. Coherent'
  BY Zenon DEF TransferInv, Coherent, Typed, Own, Once, Earlier, Before, Busy, Messages
<1>2. ASSUME NEW u \in Clients PROVE Progress(u)'
  BY ProgressKept, Zenon DEF TransferInv, Busy, Active
<1>3. DoneIsStored' /\ UndisturbedSucceeds'
  BY Zenon DEF TransferInv, DoneIsStored, UndisturbedSucceeds
<1>4. SessionsTyped' /\ \A q \in putting' : q.kind \in {"content", "complete"}
  BY Zenon DEF TransferInv, SessionsTyped, Active
<1> QED
  BY <1>1, <1>2, <1>3, <1>4, Zenon DEF TransferInv

\* Every step keeps the invariant.
LEMMA StepsKeepTransfers == TransferInv /\ [Next]_vars => TransferInv'
<1> SUFFICES ASSUME TransferInv, [Next]_vars PROVE TransferInv'
  BY Zenon
<1>1. events \in Nat
  BY Zenon DEF TransferInv, Coherent, Typed
<1>2. ASSUME NEW t \in Clients, Timeout(t) PROVE TransferInv'
  <2>1. PICK c \in Contents : TRUE
    BY IntakeAssumption, Zenon
  <2> QED
    BY <1>2, <2>1, ClientKeeps, Zenon
<1>3. ASSUME NEW t \in Clients, NEW c \in Contents, Begin(t, c) PROVE TransferInv'
  BY <1>3, ClientKeeps, Zenon
<1>4. ASSUME NEW r \in sent, Receive(r) PROVE TransferInv'
  BY <1>4, ReceiveKeeps, Zenon
<1>5. ASSUME NEW r \in checked, Handle(r) PROVE TransferInv'
  <2>1. checked' = checked \ {r} /\ UNCHANGED events
    BY <1>5, Zenon DEF Handle
  <2> QED
    BY <1>5, <2>1, ContentKeeps, StartKeeps, ChunkKeeps, CompleteKeeps, Zenon DEF Handle
<1>6. ASSUME NEW r \in putting, Put(r) PROVE TransferInv'
  BY <1>6, PutKeeps, Zenon
<1>7. ASSUME NEW s \in Signers, NEW c \in Contents, NEW kind \in Kinds, Stray(s, c, kind)
      PROVE  TransferInv'
  BY <1>7, StrayKeeps, Zenon
<1>8. ASSUME NEW s \in Signers, Revoke(s) PROVE TransferInv'
  <2>1. events' \in Nat
    BY <1>1, <1>8 DEF Revoke, Event
  <2> QED
    BY <1>8, <2>1, ElsewhereKeeps, Zenon DEF Revoke, client
<1>9. CASE Tick
  <2>1. events' \in Nat
    BY <1>1, <1>9 DEF Tick, Event
  <2> QED
    BY <1>9, <2>1, ElsewhereKeeps, Zenon DEF Tick, client, server
<1>10. CASE Restart
  BY <1>10, RestartKeeps, Zenon
<1>11. CASE UNCHANGED vars
  BY <1>1, <1>11, ElsewhereKeeps, Zenon DEF vars, client, server
<1> QED
  BY <1>2, <1>3, <1>4, <1>5, <1>6, <1>7, <1>8, <1>9, <1>10, <1>11, Zenon DEF Next

\* transfer_content_via returns Ok only for a content that is in the node's store,
\* for any number of clients, signers, contents, restarts and delayed requests.
THEOREM OkMeansStored == Spec => []DoneIsStored
<1>1. TransferInv => DoneIsStored
  BY Zenon DEF TransferInv
<1> QED
  BY <1>1, StartsIdle, StepsKeepTransfers, PTL DEF Spec

\* A transfer fails only if it timed out, was refused, met a failed store or a
\* restart, or crossed another of the same signer and content: the upload table
\* keyed by signer and content keeps all others apart.
THEOREM FailsForAReason == Spec => []UndisturbedSucceeds
<1>1. TransferInv => UndisturbedSucceeds
  BY Zenon DEF TransferInv
<1> QED
  BY <1>1, StartsIdle, StepsKeepTransfers, PTL DEF Spec

-----------------------------------------------------------------------------
(* Sums: what the fold over a finite set computes, whatever order it takes *)

\* A set of numbers that is not empty has a least one.
LEMMA Least ==
  ASSUME NEW T, T \subseteq Nat, T # {}
  PROVE  \E x \in T : \A y \in T : x <= y
<1> DEFINE R == {ss \in Nat \X Nat : ss[1] < ss[2]}
<1>1. IsWellFoundedOn(R, Nat)
  BY NatLessThanWellFounded, Zenon DEF OpToRel
<1>2. PICK x \in T : \A y \in T : ~ (<<y, x>> \in R)
  <2> HIDE DEF R
  <2> QED
    BY <1>1, WFMin, Zenon
<1>3. \A y \in T : ~(y < x)
  BY <1>2, Zenon
<1> QED
  BY <1>3

\* Induction, for a set of numbers.
LEMMA Induct ==
  ASSUME NEW T, T \subseteq Nat, 0 \in T, \A n \in T : n + 1 \in T
  PROVE  T = Nat
<1> SUFFICES ASSUME Nat \ T # {} PROVE FALSE
  BY Zenon
<1>1. PICK x \in Nat \ T : \A y \in Nat \ T : x <= y
  BY Least, Zenon
<1>2. x # 0 /\ x - 1 \in Nat /\ x - 1 \in T
  BY <1>1
<1> QED
  BY <1>2

\* The element that the fold takes first.
Some(s) == CHOOSE x \in s : TRUE

\* f on a part of its domain.
Part(f, T) == [x \in T |-> f[x]]

\* One step of the fold, and the function it defines.
Adding(g, f, s) == IF s = {} THEN 0 ELSE f[Some(s)] + g[s \ {Some(s)}]
Adds(g, f, S) == g = [s \in SUBSET S |-> Adding(g, f, s)]
Sums(f) == CHOOSE g : Adds(g, f, DOMAIN f)

LEMMA Unfolded ==
    ASSUME NEW f
    PROVE  SumOf(f) = Sums(f)[DOMAIN f]
  BY Zenon DEF SumOf, MapThenSumSet, MapThenFoldSet, Sums, Adds, Adding, Some

LEMMA Smaller ==
    ASSUME NEW s, IsFiniteSet(s), s # {}
    PROVE  /\ Some(s) \in s /\ IsFiniteSet(s \ {Some(s)})
           /\ Cardinality(s) \in Nat \ {0} /\ Cardinality(s \ {Some(s)}) = Cardinality(s) - 1
<1>1. Some(s) \in s
  BY Zenon DEF Some
<1> QED
  BY <1>1, FS_RemoveElement, FS_CardinalityType, FS_EmptySet, Zenon

LEMMA AddsExists ==
    ASSUME NEW f, NEW S, IsFiniteSet(S)
    PROVE  \E g : Adds(g, f, S)
<1> DEFINE T == {n \in Nat : \E g : \A s \in SUBSET S : Cardinality(s) <= n => g[s] = Adding(g, f, s)}
<1>0. \A s \in SUBSET S : IsFiniteSet(s) /\ Cardinality(s) \in Nat
  BY FS_Subset, FS_CardinalityType, Zenon
<1>1. 0 \in T
  <2> DEFINE g == [s \in SUBSET S |-> 0]
  <2>1. \A s \in SUBSET S : Cardinality(s) <= 0 => g[s] = Adding(g, f, s)
    BY <1>0, FS_EmptySet DEF Adding
  <2> QED
    BY <2>1, Zenon
<1>2. ASSUME NEW n \in T PROVE n + 1 \in T
  <2>1. PICK g : \A s \in SUBSET S : Cardinality(s) <= n => g[s] = Adding(g, f, s)
    BY Zenon
  <2> DEFINE h == [s \in SUBSET S |-> Adding(g, f, s)]
  <2>2. ASSUME NEW s \in SUBSET S, Cardinality(s) <= n + 1
        PROVE  h[s] = Adding(h, f, s)
    <3>1. CASE s = {}
      BY <3>1, Zenon DEF Adding
    <3>2. CASE s # {}
      <4> DEFINE u == s \ {Some(s)}
      <4>1. u \in SUBSET S /\ Cardinality(u) <= n
        BY <1>0, <2>2, <3>2, Smaller
      <4>2. h[u] = g[u]
        BY <2>1, <4>1, Zenon
      <4> QED
        BY <3>2, <4>2, Zenon DEF Adding
    <3> QED
      BY <3>1, <3>2, Zenon
  <2> HIDE DEF h
  <2> QED
    BY <2>2
<1>3. T = Nat
  <2> HIDE DEF T
  <2> QED
    BY <1>1, <1>2, Induct, Zenon DEF T
<1>4. PICK g : \A s \in SUBSET S : Cardinality(s) <= Cardinality(S) => g[s] = Adding(g, f, s)
  BY <1>0, <1>3, Zenon
<1> DEFINE h == [s \in SUBSET S |-> g[s]]
<1>5. ASSUME NEW s \in SUBSET S PROVE h[s] = Adding(h, f, s)
  <2>1. Cardinality(s) <= Cardinality(S)
    BY FS_Subset, Zenon
  <2>2. h[s] = Adding(g, f, s)
    BY <1>4, <2>1, Zenon
  <2> QED
    BY <2>2, Zenon DEF Adding
<1>6. h = [s \in SUBSET S |-> Adding(h, f, s)]
  BY <1>5, Zenon
<1> QED
  BY <1>6, Zenon DEF Adds, Adding

LEMMA PartialSteps ==
    ASSUME NEW f, IsFiniteSet(DOMAIN f)
    PROVE  /\ SumOf(f) = Sums(f)[DOMAIN f]
           /\ \A s \in SUBSET DOMAIN f : Sums(f)[s] = Adding(Sums(f), f, s)
<1>1. Adds(Sums(f), f, DOMAIN f)
  BY AddsExists, Zenon DEF Sums
<1>2. SumOf(f) = Sums(f)[DOMAIN f]
  BY Unfolded, Zenon
<1> HIDE DEF Sums
<1>3. \A s \in SUBSET DOMAIN f : Sums(f)[s] = Adding(Sums(f), f, s)
  <2>1. PICK g : g = Sums(f)
    BY Zenon
  <2>2. g = [s \in SUBSET DOMAIN f |-> IF s = {} THEN 0 ELSE f[Some(s)] + g[s \ {Some(s)}]]
    BY <1>1, <2>1, Zenon DEF Adds, Adding
  <2> QED
    BY <2>1, <2>2, Zenon DEF Adding
<1> QED
  BY <1>2, <1>3, Zenon

LEMMA PartialSums ==
    ASSUME NEW f, IsFiniteSet(DOMAIN f), NEW T \in SUBSET DOMAIN f
    PROVE  Sums(f)[T] = SumOf(Part(f, T))
<1> DEFINE Right(h, s) == Sums(h)[s] = SumOf(Part(h, s))
           N == {n \in Nat : \A h : IsFiniteSet(DOMAIN h) =>
                               \A s \in SUBSET DOMAIN h : Cardinality(s) <= n => Right(h, s)}
<1>0. \A h : IsFiniteSet(DOMAIN h) => \A s \in SUBSET DOMAIN h : IsFiniteSet(s) /\ Cardinality(s) \in Nat
  BY FS_Subset, FS_CardinalityType, Zenon
<1>1. ASSUME NEW h, IsFiniteSet(DOMAIN h) PROVE Right(h, {})
  <2>1. DOMAIN Part(h, {}) = {} /\ IsFiniteSet({})
    BY FS_EmptySet, Zenon DEF Part
  <2>2. SumOf(Part(h, {})) = 0
    <3>1. PICK e : e = Part(h, {})
      BY Zenon
    <3>2. SumOf(e) = Adding(Sums(e), e, {})
      BY <2>1, <3>1, PartialSteps, Zenon
    <3> QED
      BY <3>1, <3>2, Zenon DEF Adding
  <2>3. Sums(h)[{}] = Adding(Sums(h), h, {})
    BY <1>1, PartialSteps, Zenon
  <2> QED
    BY <2>2, <2>3, Zenon DEF Adding
<1>2. 0 \in N
  <2>1. ASSUME NEW h, IsFiniteSet(DOMAIN h), NEW s \in SUBSET DOMAIN h, Cardinality(s) <= 0
        PROVE  Right(h, s)
    <3>1. s = {}
      BY <1>0, <2>1, FS_EmptySet
    <3> HIDE DEF Right
    <3> QED
      BY <1>1, <2>1, <3>1, Zenon
  <2> HIDE DEF Right
  <2> QED
    BY <2>1, Zenon
<1>3. ASSUME NEW n \in N PROVE n + 1 \in N
  <2>1. ASSUME NEW h, IsFiniteSet(DOMAIN h), NEW s \in SUBSET DOMAIN h, Cardinality(s) <= n + 1
        PROVE  Right(h, s)
    <3>1. CASE s = {}
      <4> HIDE DEF Right
      <4> QED
        BY <1>1, <2>1, <3>1, Zenon
    <3>2. CASE s # {}
      <4> DEFINE x == Some(s)
                 u == s \ {x}
                 p == Part(h, s)
      <4>1. x \in s /\ u \in SUBSET DOMAIN h /\ IsFiniteSet(s) /\ Cardinality(u) <= n
        BY <1>0, <2>1, <3>2, Smaller
      <4>2. DOMAIN p = s /\ p[x] = h[x] /\ u \in SUBSET s
        BY <4>1, Zenon DEF Part
      <4>3. Part(p, u) = Part(h, u)
        BY <4>2, Zenon DEF Part
      <4> HIDE DEF p, u, x
      <4>4. Right(h, u) /\ Right(p, u)
        <5> HIDE DEF Right
        <5> QED
          BY <2>1, <4>1, <4>2, Zenon
      <4>5. Sums(h)[s] = h[x] + Sums(h)[u]
        BY <2>1, <3>2, PartialSteps, Zenon DEF Adding, x, u
      <4>6. SumOf(p) = p[x] + Sums(p)[u]
        BY <4>1, <4>2, <3>2, PartialSteps, Zenon DEF Adding, x, u
      <4> QED
        BY <4>2, <4>3, <4>4, <4>5, <4>6, Zenon DEF p
    <3> QED
      BY <3>1, <3>2, Zenon
  <2> HIDE DEF Right
  <2> QED
    BY <2>1
<1>4. N = Nat
  <2> HIDE DEF N
  <2> QED
    BY <1>2, <1>3, Induct, Zenon DEF N
<1>5. Cardinality(T) \in N
  BY <1>0, <1>4, Zenon
<1> HIDE DEF Right
<1>6. Right(f, T)
  BY <1>0, <1>5
<1> QED
  BY <1>6, Zenon DEF Right

\* The sum is an element's share and the sum of the others.
LEMMA SumSteps ==
    ASSUME NEW f, IsFiniteSet(DOMAIN f)
    PROVE  /\ DOMAIN f = {} => SumOf(f) = 0
           /\ DOMAIN f # {} => SumOf(f) = f[Some(DOMAIN f)] + SumOf(Part(f, DOMAIN f \ {Some(DOMAIN f)}))
<1>1. SumOf(f) = Adding(Sums(f), f, DOMAIN f)
  BY PartialSteps, Zenon
<1>2. \A T \in SUBSET DOMAIN f : Sums(f)[T] = SumOf(Part(f, T))
  BY PartialSums, Zenon
<1> QED
  BY <1>1, <1>2, Zenon DEF Adding

LEMMA SumType ==
    ASSUME NEW S, IsFiniteSet(S), NEW f \in [S -> Nat]
    PROVE  SumOf(f) \in Nat
<1> DEFINE N == {n \in Nat : \A s \in SUBSET S : Cardinality(s) <= n => SumOf(Part(f, s)) \in Nat}
<1>0. \A s \in SUBSET S : /\ IsFiniteSet(s) /\ Cardinality(s) \in Nat /\ DOMAIN Part(f, s) = s
                          /\ \A x \in s : Part(f, s)[x] = f[x]
  BY FS_Subset, FS_CardinalityType, Zenon DEF Part
<1>1. ASSUME NEW s \in SUBSET S, s = {} PROVE SumOf(Part(f, s)) \in Nat
  <2>1. PICK p : p = Part(f, s)
    BY Zenon
  <2>2. DOMAIN p = {} /\ IsFiniteSet(DOMAIN p)
    BY <1>0, <1>1, <2>1, Zenon
  <2>3. SumOf(p) = 0
    BY <2>2, SumSteps, Zenon
  <2> QED
    BY <2>1, <2>3
<1>2. 0 \in N
  BY <1>0, <1>1, FS_EmptySet
<1>3. ASSUME NEW n \in N PROVE n + 1 \in N
  <2>1. ASSUME NEW s \in SUBSET S, Cardinality(s) <= n + 1, s # {}
        PROVE  SumOf(Part(f, s)) \in Nat
    <3> DEFINE u == s \ {Some(s)}
    <3>1. Some(s) \in s /\ u \in SUBSET S /\ Cardinality(u) <= n
      BY <1>0, <2>1, Smaller
    <3>2. Part(Part(f, s), u) = Part(f, u)
      BY <1>0, Zenon DEF Part
    <3>3. SumOf(Part(f, s)) = f[Some(s)] + SumOf(Part(f, u))
      BY <1>0, <2>1, <3>1, <3>2, SumSteps, Zenon
    <3>4. SumOf(Part(f, u)) \in Nat
      BY <3>1, Zenon
    <3> QED
      BY <3>1, <3>3, <3>4
  <2> QED
    BY <1>1, <2>1
<1>4. N = Nat
  <2> HIDE DEF N
  <2> QED
    BY <1>2, <1>3, Induct, Zenon DEF N
<1>5. SumOf(Part(f, S)) \in Nat
  BY <1>0, <1>4
<1>6. Part(f, S) = f
  BY Zenon DEF Part
<1> QED
  BY <1>5, <1>6, Zenon

LEMMA SumWithout ==
    ASSUME NEW S, IsFiniteSet(S), NEW f \in [S -> Nat], NEW x \in S
    PROVE  SumOf(f) = f[x] + SumOf(Part(f, S \ {x}))
<1> DEFINE Right(s) == \A y \in s : SumOf(Part(f, s)) = f[y] + SumOf(Part(f, s \ {y}))
           N == {n \in Nat : \A s \in SUBSET S : Cardinality(s) <= n => Right(s)}
<1>0. \A s \in SUBSET S : /\ IsFiniteSet(s) /\ Cardinality(s) \in Nat /\ DOMAIN Part(f, s) = s
                          /\ \A y \in s : Part(f, s)[y] = f[y]
                          /\ Part(f, s) \in [s -> Nat]
                          /\ SumOf(Part(f, s)) \in Nat
  BY FS_Subset, FS_CardinalityType, SumType, Zenon DEF Part
<1>2. 0 \in N
  BY <1>0, FS_EmptySet
<1>3. ASSUME NEW n \in N PROVE n + 1 \in N
  <2>1. ASSUME NEW s \in SUBSET S, Cardinality(s) <= n + 1, NEW y \in s
        PROVE  SumOf(Part(f, s)) = f[y] + SumOf(Part(f, s \ {y}))
    <3> DEFINE c == Some(s)
               u == s \ {c}
    <3>1. c \in s /\ u \in SUBSET S /\ Cardinality(u) <= n
      BY <1>0, <2>1, Smaller
    <3>2. Part(Part(f, s), u) = Part(f, u)
      BY <1>0, Zenon DEF Part
    <3>3. SumOf(Part(f, s)) = f[c] + SumOf(Part(f, u))
      BY <1>0, <2>1, <3>1, <3>2, SumSteps
    <3> HIDE DEF c
    <3>4. CASE y = c
      BY <3>3, <3>4, Zenon
    <3>5. CASE y # c
      <4> DEFINE v == s \ {y}
      <4>1. v \in SUBSET S /\ Cardinality(v) <= n /\ c \in v /\ y \in u
        BY <1>0, <2>1, <3>1, <3>5, FS_RemoveElement, Zenon
      <4>2. u \ {y} = v \ {c}
        BY Zenon
      <4>3. SumOf(Part(f, u)) = f[y] + SumOf(Part(f, u \ {y}))
        BY <3>1, <4>1, Zenon
      <4>4. SumOf(Part(f, v)) = f[c] + SumOf(Part(f, v \ {c}))
        BY <4>1, Zenon
      <4>5. f[c] \in Nat /\ f[y] \in Nat /\ SumOf(Part(f, v \ {c})) \in Nat
        BY <1>0, <3>1, <4>1, Zenon
      <4> HIDE DEF u, v
      <4> QED
        BY <3>3, <4>2, <4>3, <4>4, <4>5 DEF v
    <3> QED
      BY <3>4, <3>5, Zenon
  <2> QED
    BY <2>1
<1>4. N = Nat
  <2> HIDE DEF N
  <2> QED
    BY <1>2, <1>3, Induct, Zenon DEF N
<1>5. SumOf(Part(f, S)) = f[x] + SumOf(Part(f, S \ {x}))
  BY <1>0, <1>4
<1>6. Part(f, S) = f
  BY Zenon DEF Part
<1> QED
  BY <1>5, <1>6, Zenon

\* Sums of different functions over the same set.
LEMMA SumBound ==
    ASSUME NEW S, IsFiniteSet(S), NEW f \in [S -> Nat], NEW g \in [S -> Nat], NEW a \in {0, 1}, NEW b \in Nat,
           \A x \in S : g[x] <= a * f[x] + b
    PROVE  SumOf(g) <= a * SumOf(f) + b * Cardinality(S)
<1> DEFINE Right(s) == SumOf(Part(g, s)) <= a * SumOf(Part(f, s)) + b * Cardinality(s)
           N == {n \in Nat : \A s \in SUBSET S : Cardinality(s) <= n => Right(s)}
<1>0. \A s \in SUBSET S : /\ IsFiniteSet(s) /\ Cardinality(s) \in Nat
                          /\ Part(f, s) \in [s -> Nat] /\ SumOf(Part(f, s)) \in Nat
                          /\ Part(g, s) \in [s -> Nat] /\ SumOf(Part(g, s)) \in Nat
  BY FS_Subset, FS_CardinalityType, SumType, Zenon DEF Part
<1>1. ASSUME NEW s \in SUBSET S, s = {} PROVE Right(s)
  <2>1. SumOf(Part(f, s)) = 0 /\ SumOf(Part(g, s)) = 0 /\ Cardinality(s) = 0
    BY <1>0, <1>1, SumSteps, FS_EmptySet, Zenon
  <2> QED
    BY <2>1
<1>2. 0 \in N
  BY <1>0, <1>1, FS_EmptySet
<1>3. ASSUME NEW n \in N PROVE n + 1 \in N
  <2>1. ASSUME NEW s \in SUBSET S, Cardinality(s) <= n + 1, s # {}
        PROVE  Right(s)
    <3>1. PICK y : y \in s
      BY <2>1, Zenon
    <3> DEFINE u == s \ {y}
    <3>2. u \in SUBSET S /\ Cardinality(u) <= n /\ Cardinality(s) = Cardinality(u) + 1
      <4>1. Cardinality(u) = Cardinality(s) - 1 /\ u \in SUBSET S
        BY <1>0, <3>1, FS_RemoveElement, Zenon
      <4>2. Cardinality(s) \in Nat /\ n \in Nat
        BY <1>0, Zenon
      <4> HIDE DEF u, N, Right
      <4> QED
        BY ONLY <2>1, <4>1, <4>2
    <3>3. Part(Part(f, s), u) = Part(f, u) /\ Part(Part(g, s), u) = Part(g, u)
      BY Zenon DEF Part
    <3>4. /\ SumOf(Part(f, s)) = f[y] + SumOf(Part(f, u))
          /\ SumOf(Part(g, s)) = g[y] + SumOf(Part(g, u))
      <4>1. Part(f, s)[y] = f[y] /\ Part(g, s)[y] = g[y]
        BY <3>1, Zenon DEF Part
      <4> QED
        <5>1. PICK p \in [s -> Nat], q \in [s -> Nat] : p = Part(f, s) /\ q = Part(g, s)
          BY <1>0, Zenon
        <5>2. SumOf(p) = p[y] + SumOf(Part(p, s \ {y})) /\ SumOf(q) = q[y] + SumOf(Part(q, s \ {y}))
          BY <1>0, <3>1, SumWithout, Zenon
        <5> QED
          BY <3>3, <4>1, <5>1, <5>2, Zenon
    <3>5. Right(u)
      BY <3>2, Zenon
    <3>6. f[y] \in Nat /\ g[y] \in Nat /\ g[y] <= a * f[y] + b
      BY <3>1, Zenon
    <3>7. SumOf(Part(f, u)) \in Nat /\ SumOf(Part(g, u)) \in Nat /\ Cardinality(u) \in Nat
      BY <1>0, <3>2, Zenon
    <3> DEFINE F == SumOf(Part(f, u))  G == SumOf(Part(g, u))  k == Cardinality(u)
    <3> HIDE DEF u, F, G, k
    <3>8. b * (k + 1) = b * k + b /\ b * k \in Nat /\ F \in Nat /\ G \in Nat /\ k \in Nat
      BY <3>7 DEF F, G, k
    <3>9. G <= a * F + b * k
      BY <3>5, Zenon DEF F, G, k
    <3>10. g[y] + G <= a * (f[y] + F) + b * (k + 1)
      BY <3>6, <3>8, <3>9
    <3> QED
      BY <3>2, <3>4, <3>10, Zenon DEF F, G, k
  <2> QED
    BY <1>1, <2>1
<1>4. N = Nat
  <2> HIDE DEF N
  <2> QED
    BY <1>2, <1>3, Induct, Zenon DEF N
<1>5. Right(S)
  BY <1>0, <1>4
<1>6. Part(f, S) = f /\ Part(g, S) = g
  BY Zenon DEF Part
<1> QED
  BY <1>5, <1>6, Zenon

-----------------------------------------------------------------------------
(* The request budget *)

\* The counts are numbers, and the signers, contents and clients are known ones.
NodeTyped ==
    /\ {clock, window, global} \subseteq Nat
    /\ identities \in [Signers -> Nat]
    /\ allowed \subseteq Signers /\ store \subseteq Contents /\ excused \subseteq Clients

\* Counting one more at x.
LEMMA SumRaised ==
    ASSUME NEW S, IsFiniteSet(S), NEW f \in [S -> Nat], NEW x \in S
    PROVE  SumOf([f EXCEPT ![x] = f[x] + 1]) = SumOf(f) + 1
<1>1. PICK g : g = [f EXCEPT ![x] = f[x] + 1]
  BY Zenon
<1>2. g \in [S -> Nat] /\ g[x] = f[x] + 1 /\ f[x] \in Nat
  BY <1>1
<1>3. Part(g, S \ {x}) = Part(f, S \ {x})
  BY <1>1, Zenon DEF Part
<1>4. Part(f, S \ {x}) \in [S \ {x} -> Nat] /\ IsFiniteSet(S \ {x})
  BY FS_Subset, Zenon DEF Part
<1>5. SumOf(Part(f, S \ {x})) \in Nat
  BY <1>4, SumType, Zenon
<1>6. SumOf(g) = g[x] + SumOf(Part(g, S \ {x}))
  BY <1>2, SumWithout, Zenon
<1>7. SumOf(f) = f[x] + SumOf(Part(f, S \ {x}))
  BY SumWithout, Zenon
<1> QED
  BY <1>1, <1>2, <1>3, <1>5, <1>6, <1>7

LEMMA SumOfZeros ==
    ASSUME NEW S, IsFiniteSet(S)
    PROVE  SumOf([x \in S |-> 0]) = 0
<1>1. PICK z : z = [x \in S |-> 0]
  BY Zenon
<1>2. z \in [S -> Nat] /\ \A x \in S : z[x] <= 0 * z[x] + 0
  BY <1>1
<1>3. SumOf(z) \in Nat /\ Cardinality(S) \in Nat
  BY <1>2, SumType, FS_CardinalityType, Zenon
<1>4. SumOf(z) <= 0 * SumOf(z) + 0 * Cardinality(S)
  BY <1>2, SumBound, Zenon
<1> QED
  BY <1>1, <1>3, <1>4

\* A new window: nothing is counted.
LEMMA NothingCounted ==
    /\ [s \in Signers |-> 0] \in [Signers -> Nat]
    /\ SumOf([s \in Signers |-> 0]) = 0
    /\ 0 <= Global /\ 0 <= PerIdentity
  BY SumOfZeros, IntakeAssumption

\* consume_request_budget from counts g and ids that are in order.
LEMMA CountsOneRequest ==
    ASSUME NEW s \in Signers, NEW g \in Nat, NEW ids \in [Signers -> Nat],
           g = SumOf(ids), g <= Global, \A i \in Signers : ids[i] <= PerIdentity,
           Counted(s, g, ids)
    PROVE  global' \in Nat /\ identities' \in [Signers -> Nat] /\ BudgetExact'
<1>1. CASE g < Global /\ ids[s] < PerIdentity
  <2>1. identities' = [ids EXCEPT ![s] = ids[s] + 1] /\ global' = g + 1
    BY <1>1, Zenon DEF Counted
  <2>2. SumOf(identities') = g + 1
    BY <2>1, SumRaised, IntakeAssumption, Zenon
  <2>3. g + 1 <= Global /\ ids[s] + 1 <= PerIdentity /\ ids[s] \in Nat
    BY <1>1, IntakeAssumption
  <2> QED
    BY <2>1, <2>2, <2>3 DEF BudgetExact
<1>2. CASE ~(g < Global /\ ids[s] < PerIdentity)
  BY <1>2, Zenon DEF Counted, BudgetExact
<1> QED
  BY <1>1, <1>2, Zenon

\* Every step keeps the types of the node and the two counts in agreement.
LEMMA StepsKeepNode ==
    ASSUME TransferInv, NodeTyped, BudgetExact, [Next]_vars
    PROVE  NodeTyped' /\ BudgetExact'
<1> USE DEF NodeTyped
<1>0. Messages \subseteq Request
  BY Zenon DEF TransferInv, Coherent, Typed, Messages
<1>1. ASSUME NEW t \in Clients, Timeout(t) PROVE NodeTyped' /\ BudgetExact'
  BY <1>1, Zenon DEF Timeout, budget, server, BudgetExact
<1>2. ASSUME NEW t \in Clients, NEW c \in Contents, Begin(t, c) PROVE NodeTyped' /\ BudgetExact'
  BY <1>2, Zenon DEF Begin, budget, server, BudgetExact
<1>3. ASSUME NEW r \in sent, Receive(r) PROVE NodeTyped' /\ BudgetExact'
  <2>1. r \in Request
    BY <1>0, Zenon DEF Messages
  <2>2. r.signer \in Signers
    BY <2>1, Zenon DEF Request
  <2> DEFINE fresh == clock >= window + Window
             g == IF fresh THEN 0 ELSE global
             ids == IF fresh THEN [s \in Signers |-> 0] ELSE identities
  <2>3. /\ g \in Nat /\ ids \in [Signers -> Nat]
        /\ g = SumOf(ids) /\ g <= Global /\ \A i \in Signers : ids[i] <= PerIdentity
    <3>1. CASE fresh
      BY <3>1, NothingCounted, Zenon
    <3>2. CASE ~fresh
      BY <3>2, Zenon DEF BudgetExact
    <3> QED
      BY <3>1, <3>2, Zenon
  <2>4. Counted(r.signer, g, ids)
    BY <1>3, Zenon DEF Receive
  <2>5. global' \in Nat /\ identities' \in [Signers -> Nat] /\ BudgetExact'
    <3> HIDE DEF g, ids
    <3> QED
      BY ONLY <2>2, <2>3, <2>4, CountsOneRequest, Zenon
  <2>6. window' \in Nat /\ clock' = clock /\ allowed' = allowed /\ store' = store
    BY <1>3, Zenon DEF Receive, server
  <2>7. excused' \subseteq Clients
    BY <1>3, Zenon DEF Receive, client, Waits
  <2> QED
    BY <2>5, <2>6, <2>7, Zenon
<1>4. ASSUME NEW r \in checked, Handle(r) PROVE NodeTyped' /\ BudgetExact'
  <2>1. store' = store /\ excused' \subseteq Clients
    BY <1>4, Zenon DEF Handle, HandleContent, HandleStart, HandleChunk, HandleComplete, Crossed,
       Waits
  <2>2. UNCHANGED <<clock, budget, allowed>>
    BY <1>4, Zenon DEF Handle
  <2> QED
    BY <2>1, <2>2, Zenon DEF budget, BudgetExact
<1>5. ASSUME NEW r \in putting, Put(r) PROVE NodeTyped' /\ BudgetExact'
  <2>1. r.id \in Contents
    BY <1>0, Zenon DEF Messages, Request
  <2>2. store' \subseteq Contents /\ excused' \subseteq Clients
    BY <1>5, <2>1, Zenon DEF Put, Waits
  <2>3. UNCHANGED <<clock, budget, allowed>>
    BY <1>5, Zenon DEF Put
  <2> QED
    BY <2>2, <2>3, Zenon DEF budget, BudgetExact
<1>6. ASSUME NEW s \in Signers, NEW c \in Contents, NEW kind \in Kinds, Stray(s, c, kind)
      PROVE  NodeTyped' /\ BudgetExact'
  BY <1>6, Zenon DEF Stray, budget, server, client, BudgetExact
<1>7. ASSUME NEW s \in Signers, Revoke(s) PROVE NodeTyped' /\ BudgetExact'
  BY <1>7, Zenon DEF Revoke, budget, client, BudgetExact
<1>8. CASE Tick
  BY <1>8, IntakeAssumption DEF Tick, budget, server, client, BudgetExact
<1>9. CASE Restart
  <2>1. global' = 0 /\ identities' = [s \in Signers |-> 0] /\ window' = 0
    BY <1>9, Zenon DEF Restart
  <2>2. BudgetExact'
    BY <2>1, NothingCounted, Zenon DEF BudgetExact
  <2> QED
    BY <1>9, <2>1, <2>2 DEF Restart
<1>10. CASE UNCHANGED vars
  BY <1>10, Zenon DEF vars, budget, server, client, BudgetExact
<1> QED
  BY <1>1, <1>2, <1>3, <1>4, <1>5, <1>6, <1>7, <1>8, <1>9, <1>10, Zenon DEF Next

-----------------------------------------------------------------------------
(* The table of upload sessions *)

\* A chunk with the bytes of its content lies inside the content.
Inside(r) == r.kind = "chunk" /\ r.bytes = "right" => r.index \in Chunks(Size[r.id])

InsideSession(k) ==
    \A i \in Chunks(uploads[k].total) : uploads[k].chunks[i] = "right" => i \in Chunks(Size[k[2]])

Announced == [k \in Active |-> uploads[k].total]

TableInv ==
    /\ \A r \in Messages : Inside(r)
    /\ \A k \in Active : InsideSession(k)
    /\ Cardinality(Active) <= MaxActive
    /\ SumOf(Announced) <= MaxInFlight

\* What a step may put on the wire: what a client then waits for, or a stray.
OnTheWire ==
    \A q \in Messages' : \/ q \in Messages
                         \/ \E t \in Clients : q = waiting'[t]
                         \/ q.kind # "chunk" \/ q.bytes # "right"

\* The message a client waits for is one of its transfer.
LEMMA WireInside ==
    ASSUME TransferInv', OnTheWire, \A r \in Messages : Inside(r)
    PROVE  \A r \in Messages' : Inside(r)
<1> SUFFICES ASSUME NEW r \in Messages' PROVE Inside(r)
  BY Zenon
<1>1. CASE r \in Messages
  BY <1>1, Zenon
<1>2. CASE r.kind # "chunk" \/ r.bytes # "right"
  BY <1>2, Zenon DEF Inside
<1>3. CASE \E t \in Clients : r = waiting'[t]
  <2>1. PICK t \in Clients : r = waiting'[t]
    BY <1>3, Zenon
  <2>2. r \in Request
    BY Zenon DEF TransferInv, Coherent, Typed, Messages
  <2>3. r # NoClient
    BY <2>2, IntakeAssumption, Zenon
  <2>4. Busy(t)'
    BY <2>1, <2>3, Zenon DEF TransferInv, Coherent, Typed
  <2>5. Own(t)'
    BY Zenon DEF TransferInv, Coherent
  <2>6. r.id = target'[t] /\ r.total = Size[target'[t]] /\ (r.kind = "chunk" => r.index \in Chunks(r.total))
    BY <2>1, <2>4, <2>5, Zenon DEF Own
  <2> QED
    BY <2>6, Zenon DEF Inside
<1> QED
  BY <1>1, <1>2, <1>3, Zenon DEF OnTheWire

LEMMA AnswersOnTheWire ==
    ASSUME TransferInv, NEW r \in Request, NEW ok, Answer(r, ok)
    PROVE  \A q \in sent' : q \in sent \/ \E t \in Clients : q = waiting'[t]
<1> DEFINE t == r.to
<1>1. CASE t = NoClient \/ waiting[t] # r
  BY <1>1, Zenon DEF Answer
<1>2. CASE ~(t = NoClient \/ waiting[t] # r)
  <2>1. t \in Clients
    BY <1>2, Zenon DEF Request
  <2>2. CASE sent' = sent \ {r}
    BY <2>2, Zenon
  <2>3. CASE sent' # sent \ {r}
    <3>1. \E m : sent' = (sent \ {r}) \cup {m} /\ waiting' = [waiting EXCEPT ![t] = m]
      BY <1>2, <2>3, Zenon DEF Answer
    <3>2. PICK m : sent' = (sent \ {r}) \cup {m} /\ waiting' = [waiting EXCEPT ![t] = m]
      BY <3>1, Zenon
    <3>3. waiting'[t] = m
      BY <2>1, <3>2, Zenon DEF TransferInv, Coherent, Typed
    <3> QED
      BY <2>1, <3>2, <3>3, Zenon
  <2> QED
    BY <2>2, <2>3, Zenon
<1> QED
  BY <1>1, <1>2, Zenon

LEMMA StepsOnTheWire ==
    ASSUME TransferInv, [Next]_vars
    PROVE  OnTheWire
<1> USE DEF OnTheWire, Messages
<1>0. Messages \subseteq Request
  BY Zenon DEF TransferInv, Coherent, Typed
<1>1. ASSUME NEW t \in Clients, Timeout(t) PROVE OnTheWire
  BY <1>1, Zenon DEF Timeout
<1>2. ASSUME NEW t \in Clients, NEW c \in Contents, Begin(t, c) PROVE OnTheWire
  <2>1. PICK m : sent' = sent \cup {m} /\ waiting' = [waiting EXCEPT ![t] = m]
    BY <1>2, Zenon DEF Begin, Send
  <2>2. waiting'[t] = m
    BY <2>1, Zenon DEF TransferInv, Coherent, Typed
  <2>3. checked' = checked /\ putting' = putting
    BY <1>2, Zenon DEF Begin
  <2> QED
    BY <2>1, <2>2, <2>3, Zenon
<1>3. ASSUME NEW r \in sent, Receive(r) PROVE OnTheWire
  <2>1. \/ checked' = checked \cup {r} /\ sent' = sent \ {r}
        \/ Answer(r, FALSE) /\ checked' = checked
    BY <1>3, Zenon DEF Receive
  <2>2. putting' = putting
    BY <1>3, Zenon DEF Receive
  <2> QED
    BY <1>0, <2>1, <2>2, AnswersOnTheWire, Zenon
<1>4. ASSUME NEW r \in checked, Handle(r) PROVE OnTheWire
  <2>1. \/ sent' = sent /\ putting' = putting \cup {r}
        \/ (\E ok : Answer(r, ok)) /\ putting' = putting
    BY <1>4, Zenon DEF Handle, HandleContent, HandleStart, HandleChunk, HandleComplete
  <2>2. checked' \subseteq checked
    BY <1>4, Zenon DEF Handle
  <2> QED
    BY <1>0, <2>1, <2>2, AnswersOnTheWire, Zenon
<1>5. ASSUME NEW r \in putting, Put(r) PROVE OnTheWire
  <2>1. (\E ok : Answer(r, ok)) /\ putting' \subseteq putting /\ checked' = checked
    BY <1>5, Zenon DEF Put
  <2> QED
    BY <1>0, <2>1, AnswersOnTheWire, Zenon
<1>6. ASSUME NEW s \in Signers, NEW c \in Contents, NEW kind \in Kinds, Stray(s, c, kind)
      PROVE  OnTheWire
  <2>1. PICK f \in Fields(kind) :
           sent' = sent \cup {[signer |-> s, id |-> c, kind |-> kind, index |-> f[1], total |-> f[2],
                               bytes |-> f[3], to |-> NoClient, attempt |-> events]}
    BY <1>6, Zenon DEF Stray
  <2>2. kind # "chunk" \/ f[3] # "right"
    BY Zenon DEF Fields
  <2>3. checked' = checked /\ putting' = putting
    BY <1>6, Zenon DEF Stray
  <2> QED
    BY <2>1, <2>2, <2>3
<1>7. ASSUME NEW s \in Signers, Revoke(s) PROVE OnTheWire
  BY <1>7, Zenon DEF Revoke
<1>8. CASE Tick
  BY <1>8, Zenon DEF Tick
<1>9. CASE Restart
  BY <1>9, Zenon DEF Restart
<1>10. CASE UNCHANGED vars
  BY <1>10, Zenon DEF vars
<1> QED
  BY <1>1, <1>2, <1>3, <1>4, <1>5, <1>6, <1>7, <1>8, <1>9, <1>10, Zenon DEF Next

\* The sessions are finitely many.
LEMMA ActiveFinite ==
    ASSUME SessionsTyped
    PROVE  IsFiniteSet(Active) /\ Cardinality(Active) \in Nat /\ Announced \in [Active -> Nat]
<1>1. IsFiniteSet(Keys)
  BY FS_Product, IntakeAssumption, Zenon DEF Keys
<1>2. IsFiniteSet(Active)
  BY <1>1, FS_Subset, Zenon DEF SessionsTyped
<1> QED
  BY <1>2, FS_CardinalityType, Zenon DEF SessionsTyped, Announced

\* A session taken out of the table.
LEMMA TakenOut ==
    ASSUME SessionsTyped, TableInv, NEW key, uploads' = Removed(key)
    PROVE  /\ \A k \in Active' : InsideSession(k)'
           /\ Cardinality(Active') <= MaxActive /\ SumOf(Announced') <= MaxInFlight
<1>1. Active' = Active \ {key} /\ \A k \in Active' : uploads'[k] = uploads[k]
  BY Zenon DEF Removed, Active
<1>2. \A k \in Active' : InsideSession(k)'
  BY <1>1, Zenon DEF TableInv, InsideSession
<1>3. CASE key \notin Active
  <2>1. Active' = Active
    BY <1>1, <1>3, Zenon
  <2>2. Announced' = Announced
    BY <1>1, <2>1, Zenon DEF Announced
  <2> QED
    BY <1>2, <2>1, <2>2, Zenon DEF TableInv
<1>4. CASE key \in Active
  <2>1. PICK S : S = Active
    BY Zenon
  <2>2. PICK f : f = Announced
    BY Zenon
  <2>3. IsFiniteSet(S) /\ f \in [S -> Nat] /\ key \in S /\ Cardinality(S) \in Nat
    BY <1>4, <2>1, <2>2, ActiveFinite, Zenon
  <2>4. Announced' = Part(f, S \ {key})
    BY <1>1, <2>1, <2>2, Zenon DEF Part, Announced
  <2>5. Part(f, S \ {key}) \in [S \ {key} -> Nat] /\ IsFiniteSet(S \ {key})
    BY <2>3, FS_Subset, Zenon DEF Part
  <2>6. SumOf(Part(f, S \ {key})) \in Nat /\ f[key] \in Nat /\ SumOf(f) \in Nat
    BY <2>3, <2>5, SumType, Zenon
  <2>7. SumOf(f) = f[key] + SumOf(Part(f, S \ {key}))
    BY <2>3, SumWithout, Zenon
  <2>8. SumOf(f) <= MaxInFlight /\ Cardinality(S) <= MaxActive
    BY <2>1, <2>2, Zenon DEF TableInv
  <2>9. Cardinality(S \ {key}) = Cardinality(S) - 1
    BY <2>3, FS_RemoveElement, Zenon
  <2>10. MaxInFlight \in Nat /\ MaxActive \in Nat
    BY IntakeAssumption, Zenon
  <2> QED
    BY <1>1, <1>2, <2>1, <2>3, <2>4, <2>6, <2>7, <2>8, <2>9, <2>10
<1> QED
  BY <1>3, <1>4, Zenon

\* A new session, for which ContentStart found room.
LEMMA PutIn ==
    ASSUME SessionsTyped, TableInv, NEW r \in Request, Room(r), Reserved(r) + r.total <= MaxInFlight,
           uploads' = Inserted(Key(r), [total |-> r.total, chunks |-> [i \in Chunks(r.total) |-> "missing"]])
    PROVE  /\ \A k \in Active' : InsideSession(k)'
           /\ Cardinality(Active') <= MaxActive /\ SumOf(Announced') <= MaxInFlight
<1>1. PICK key : key = Key(r)
  BY Zenon
<1>2. PICK S : S = Active
  BY Zenon
<1>3. /\ Active' = S \cup {key}
      /\ uploads'[key] = [total |-> r.total, chunks |-> [i \in Chunks(r.total) |-> "missing"]]
      /\ \A k \in S \ {key} : uploads'[k] = uploads[k]
  BY <1>1, <1>2, Zenon DEF Inserted, Active
<1>4. ASSUME NEW k \in Active' PROVE InsideSession(k)'
  <2>1. CASE k = key
    BY <1>3, <2>1 DEF InsideSession
  <2>2. CASE k # key
    BY <1>2, <1>3, <2>2, Zenon DEF InsideSession, TableInv
  <2> QED
    BY <2>1, <2>2, Zenon
<1>5. IsFiniteSet(S) /\ Cardinality(S) \in Nat
  BY <1>2, ActiveFinite, Zenon
<1>6. MaxInFlight \in Nat /\ MaxActive \in Nat /\ r.total \in Nat
  BY IntakeAssumption, Zenon DEF Request
<1>7. Cardinality(Active') <= MaxActive
  <2>1. CASE key \in S
    <3>1. S \cup {key} = S
      BY <2>1, Zenon
    <3> QED
      BY <1>2, <1>3, <3>1, Zenon DEF TableInv
  <2>2. CASE key \notin S
    <3>1. Cardinality(S) < MaxActive
      BY <1>1, <1>2, <2>2, Zenon DEF Room
    <3>2. Cardinality(S \cup {key}) = Cardinality(S) + 1
      BY <1>5, <2>2, FS_AddElement, Zenon
    <3> QED
      BY <1>3, <1>5, <1>6, <3>1, <3>2
  <2> QED
    BY <2>1, <2>2, Zenon
<1>8. PICK T : T = S \cup {key}
  BY Zenon
<1>9. PICK g : g = Announced'
  BY Zenon
<1>10. g \in [T -> Nat] /\ g[key] = r.total /\ IsFiniteSet(T) /\ key \in T
  <2>1. \A k \in S \ {key} : uploads'[k].total \in Nat
    BY <1>2, <1>3, Zenon DEF SessionsTyped
  <2>2. uploads'[key].total = r.total
    BY <1>3
  <2>3. g = [k \in T |-> uploads'[k].total]
    BY <1>3, <1>8, <1>9, Zenon DEF Announced
  <2> QED
    BY <1>5, <1>6, <1>8, <2>1, <2>2, <2>3, FS_AddElement, Zenon
<1>11. Part(g, T \ {key}) = [k \in S \ {key} |-> uploads[k].total]
  <2>1. T \ {key} = S \ {key}
    BY <1>8, Zenon
  <2>2. \A k \in S \ {key} : g[k] = uploads[k].total
    BY <1>3, <1>8, <1>9, Zenon DEF Announced
  <2> QED
    BY <2>1, <2>2, Zenon DEF Part
<1>12. SumOf(Part(g, T \ {key})) = Reserved(r)
  BY <1>1, <1>2, <1>11, Zenon DEF Reserved
<1>13. SumOf(g) = g[key] + SumOf(Part(g, T \ {key}))
  BY <1>10, SumWithout, Zenon
<1>14. SumOf(Part(g, T \ {key})) \in Nat
  <2>1. Part(g, T \ {key}) \in [T \ {key} -> Nat] /\ IsFiniteSet(T \ {key})
    BY <1>10, FS_Subset, Zenon DEF Part
  <2> QED
    BY <2>1, SumType, Zenon
<1>15. SumOf(g) <= MaxInFlight
  BY <1>6, <1>10, <1>12, <1>13, <1>14
<1> QED
  BY <1>4, <1>7, <1>9, <1>15, Zenon

\* A chunk filed in its session: the announced sizes stay.
LEMMA Filed ==
    ASSUME SessionsTyped, TableInv, NEW r \in Messages, r \in Request, r.kind = "chunk", Key(r) \in Active,
           r.index \in Chunks(uploads[Key(r)].total),
           uploads' = [uploads EXCEPT ![Key(r)].chunks[r.index] = r.bytes]
    PROVE  /\ \A k \in Active' : InsideSession(k)'
           /\ Cardinality(Active') <= MaxActive /\ SumOf(Announced') <= MaxInFlight
<1>1. PICK key : key = Key(r) /\ key[2] = r.id
  BY DEF Key
<1>2. PICK s : s = uploads[key]
  BY Zenon
<1>3. s = [total |-> s.total, chunks |-> s.chunks] /\ DOMAIN s.chunks = Chunks(s.total)
  BY <1>1, <1>2, Zenon DEF SessionsTyped
<1>4. PICK w : w = [s EXCEPT !.chunks[r.index] = r.bytes]
  BY Zenon
<1>5. w.total = s.total /\ w.chunks = [s.chunks EXCEPT ![r.index] = r.bytes]
  BY <1>3, <1>4, Zenon
<1>6. Active' = Active /\ uploads'[key] = w /\ \A k \in Active \ {key} : uploads'[k] = uploads[k]
  BY <1>1, <1>2, <1>4, Zenon DEF Active
<1>7. Announced' = Announced
  <2>1. \A k \in Active : uploads'[k].total = uploads[k].total
    BY <1>2, <1>5, <1>6, Zenon
  <2> QED
    BY <1>6, <2>1, Zenon DEF Announced
<1>8. ASSUME NEW k \in Active' PROVE InsideSession(k)'
  <2>1. CASE k = key
    <3>1. ASSUME NEW i \in Chunks(w.total), w.chunks[i] = "right" PROVE i \in Chunks(Size[key[2]])
      <4>1. CASE i = r.index
        <5>1. r.bytes = "right"
          BY <1>1, <1>2, <1>3, <1>5, <3>1, <4>1, Zenon
        <5> QED
          BY <1>1, <4>1, <5>1, Zenon DEF TableInv, Inside
      <4>2. CASE i # r.index
        <5>1. s.chunks[i] = "right"
          BY <1>3, <1>5, <3>1, <4>2, Zenon
        <5> QED
          BY <1>1, <1>2, <1>5, <5>1, <3>1, Zenon DEF TableInv, InsideSession
      <4> QED
        BY <4>1, <4>2, Zenon
    <3> QED
      BY <1>6, <2>1, <3>1, Zenon DEF InsideSession
  <2>2. CASE k # key
    BY <1>6, <2>2, Zenon DEF InsideSession, TableInv
  <2> QED
    BY <2>1, <2>2, Zenon
<1> QED
  BY <1>6, <1>7, <1>8, Zenon DEF TableInv

LEMMA StepsKeepTable ==
    ASSUME TransferInv, TransferInv', TableInv, [Next]_vars
    PROVE  TableInv'
<1>1. \A r \in Messages' : Inside(r)
  BY StepsOnTheWire, WireInside, Zenon DEF TableInv
<1>2. SessionsTyped /\ Messages \subseteq Request
  BY Zenon DEF TransferInv, Coherent, Typed, Messages
<1> DEFINE Kept == /\ \A k \in Active' : InsideSession(k)'
                   /\ Cardinality(Active') <= MaxActive /\ SumOf(Announced') <= MaxInFlight
<1>3. ASSUME uploads' = uploads PROVE Kept
  BY <1>3, Zenon DEF TableInv, InsideSession, Active, Announced
<1>4. ASSUME NEW r \in checked, Handle(r), uploads' # uploads PROVE Kept
  <2>1. r \in Request /\ r \in Messages
    BY <1>2, Zenon DEF Messages
  <2>2. CASE HandleStart(r)
    <3>1. /\ Room(r) /\ Reserved(r) + r.total <= MaxInFlight
          /\ uploads' = Inserted(Key(r), [total |-> r.total,
                                          chunks |-> [i \in Chunks(r.total) |-> "missing"]])
      BY <1>4, <2>2, Zenon DEF HandleStart
    <3> QED
      BY ONLY <1>2, <2>1, <3>1, PutIn, TableInv, Zenon
  <2>3. CASE HandleChunk(r)
    <3>1. CASE uploads' = Removed(Key(r))
      BY <1>2, <3>1, TakenOut, Zenon
    <3>2. CASE uploads' # Removed(Key(r))
      <4>1. /\ r.kind = "chunk" /\ Key(r) \in Active /\ r.index \in Chunks(uploads[Key(r)].total)
            /\ uploads' = [uploads EXCEPT ![Key(r)].chunks[r.index] = r.bytes]
        BY <2>3, <3>2, Zenon DEF HandleChunk
      <4> QED
        BY <1>2, <2>1, <4>1, Filed, Zenon
    <3> QED
      BY <3>1, <3>2, Zenon
  <2>4. CASE HandleComplete(r)
    BY <1>2, <2>4, TakenOut, Zenon DEF HandleComplete
  <2>5. CASE HandleContent(r)
    BY <1>4, <2>5, Zenon DEF HandleContent
  <2> QED
    BY <1>4, <2>2, <2>3, <2>4, <2>5, Zenon DEF Handle
<1>5. ASSUME Restart PROVE Kept
  <2>1. Active' = {} /\ DOMAIN Announced' = {}
    BY <1>5, Zenon DEF Restart, Active, Announced
  <2>2. PICK f : f = Announced'
    BY Zenon
  <2>3. SumOf(f) = 0
    BY <2>1, <2>2, SumSteps, FS_EmptySet, Zenon
  <2> QED
    BY <2>1, <2>2, <2>3, FS_EmptySet, IntakeAssumption
<1>6. uploads' = uploads \/ Restart \/ \E r \in checked : Handle(r)
  BY Zenon DEF Next, Timeout, Begin, Receive, Put, Stray, Revoke, Tick, vars, server
<1>7. Kept
  BY <1>3, <1>4, <1>5, <1>6, Zenon
<1> QED
  BY <1>1, <1>7, Zenon DEF TableInv

-----------------------------------------------------------------------------
(* The bytes that are really buffered *)

\* Rounding up to whole chunks: z bytes take q of them.
LEMMA WholeChunks ==
    ASSUME NEW z \in Nat
    PROVE  /\ NChunks(z) \in Nat /\ NChunks(z) * ChunkSize <= z + ChunkSize - 1
           /\ IsFiniteSet(Chunks(z)) /\ Cardinality(Chunks(z)) = NChunks(z)
           /\ \A i \in Chunks(z) : i \in Nat /\ i * ChunkSize < z
<1>1. PICK c \in Nat \ {0} : c = ChunkSize
  BY IntakeAssumption, Zenon
<1>2. PICK q : q = (z + c - 1) \div c
  BY Zenon
<1>3. q \in Nat /\ q * c <= z + c - 1
  <2>1. PICK y \in Nat : y = z + c - 1
    BY <1>1
  <2>2. y \div c \in Int /\ y % c \in 0..(c - 1) /\ y = c * (y \div c) + (y % c)
    BY ONLY c \in Nat \ {0}, y \in Nat
  <2>3. q \in Int /\ c * q <= y /\ c * q > y - c
    BY <1>2, <2>1, <2>2
  <2>4. q >= 0
    <3> SUFFICES ASSUME q <= -1 PROVE FALSE
      BY <2>3
    <3>1. c * q <= c * (-1)
      BY ONLY <2>3, q <= -1, c \in Nat \ {0}
    <3> QED
      BY ONLY <2>3, <3>1, c \in Nat \ {0}, y \in Nat
  <2>5. c * q = q * c
    BY ONLY <2>3, c \in Nat \ {0}
  <2> QED
    BY <2>1, <2>3, <2>4, <2>5
<1>4. NChunks(z) = q /\ Chunks(z) = 0..(q - 1)
  BY <1>1, <1>2, Zenon DEF NChunks, Chunks
<1>5. IsFiniteSet(0..(q - 1)) /\ Cardinality(0..(q - 1)) = q
  <2>1. q - 1 \in Int /\ (0 > q - 1 => q = 0)
    BY ONLY <1>3
  <2> QED
    BY <1>3, <2>1, FS_Interval
<1>6. ASSUME NEW i \in 0..(q - 1) PROVE i \in Nat /\ i * c < z
  <2>1. i \in Nat /\ i + 1 <= q
    BY ONLY <1>3, i \in 0..(q - 1)
  <2>2. (i + 1) * c <= q * c
    BY ONLY <1>3, <2>1, c \in Nat \ {0}
  <2>3. (i + 1) * c = i * c + c
    BY ONLY <2>1, c \in Nat \ {0}
  <2>4. i * c \in Nat /\ q * c \in Nat
    BY ONLY <1>3, <2>1, c \in Nat \ {0}
  <2> QED
    BY ONLY <1>3, <2>1, <2>2, <2>3, <2>4, c \in Nat \ {0}, z \in Nat
<1> QED
  BY <1>1, <1>3, <1>4, <1>5, <1>6, Zenon

\* No chunk of a session is longer than CONTENT_CHUNK_SIZE.
LEMMA ChunkHeld ==
    ASSUME SessionsTyped, NEW k \in Active, InsideSession(k), NEW i \in Chunks(uploads[k].total)
    PROVE  Held(k, i) \in 0..ChunkSize
<1>1. uploads[k].chunks[i] \in {"missing", "right", "other"} /\ Size[k[2]] \in Nat
  BY IntakeAssumption, Zenon DEF SessionsTyped, Keys
<1>2. ChunkSize \in Nat \ {0}
  BY IntakeAssumption, Zenon
<1>3. CASE uploads[k].chunks[i] = "right"
  <2>1. PICK z \in Nat : z = Size[k[2]]
    BY <1>1, Zenon
  <2>2. i \in Nat /\ i * ChunkSize < z
    BY <1>3, <2>1, WholeChunks, Zenon DEF InsideSession
  <2>3. PICK c : c = ChunkSize
    BY Zenon
  <2>4. PICK a : a = i * c
    BY Zenon
  <2>5. a \in Nat /\ (i + 1) * c = a + c
    BY ONLY <1>2, <2>2, <2>3, <2>4
  <2>6. Held(k, i) = IF a + c <= z THEN c ELSE z - a
    BY <1>3, <2>1, <2>3, <2>4, <2>5, Zenon DEF Held
  <2>7. (IF a + c <= z THEN c ELSE z - a) \in 0..c
    BY ONLY <1>2, <2>2, <2>3, <2>4, <2>5, z \in Nat
  <2> QED
    BY <2>3, <2>6, <2>7, Zenon
<1>4. CASE uploads[k].chunks[i] = "missing"
  BY <1>2, <1>4 DEF Held
<1>5. CASE uploads[k].chunks[i] = "other"
  BY <1>2, <1>5 DEF Held
<1> QED
  BY <1>1, <1>3, <1>4, <1>5, Zenon

\* A session buffers less than one chunk more than it announced.
LEMMA SessionBuffers ==
    ASSUME SessionsTyped, NEW k \in Active, InsideSession(k)
    PROVE  Buffered(k) \in Nat /\ Buffered(k) <= uploads[k].total + (ChunkSize - 1)
<1>1. PICK z \in Nat : z = uploads[k].total
  BY Zenon DEF SessionsTyped
<1>2. PICK c \in Nat \ {0} : c = ChunkSize
  BY IntakeAssumption, Zenon
<1>3. PICK f : f = [i \in Chunks(z) |-> Held(k, i)]
  BY Zenon
<1>4. PICK C : C = Chunks(z)
  BY Zenon
<1>5. IsFiniteSet(C) /\ Cardinality(C) \in Nat /\ Cardinality(C) * c <= z + c - 1
  BY <1>2, <1>4, WholeChunks, Zenon
<1>6. f \in [C -> Nat] /\ \A i \in C : f[i] <= c
  <2>1. \A i \in Chunks(z) : Held(k, i) \in 0..c
    BY <1>1, <1>2, ChunkHeld, Zenon
  <2> QED
    BY <1>3, <1>4, <2>1
<1>7. \A i \in C : f[i] <= 0 * f[i] + c
  BY <1>6
<1>8. SumOf(f) \in Nat
  BY <1>5, <1>6, SumType, Zenon
<1>9. SumOf(f) <= 0 * SumOf(f) + c * Cardinality(C)
  BY <1>5, <1>6, <1>7, SumBound, Zenon
<1>10. c * Cardinality(C) = Cardinality(C) * c /\ 0 * SumOf(f) = 0 /\ c * Cardinality(C) \in Nat
  BY ONLY <1>5, <1>8, c \in Nat \ {0}
<1>11. Buffered(k) = SumOf(f)
  BY <1>1, <1>3, Zenon DEF Buffered
<1>12. z + c - 1 = z + (c - 1)
  BY Zenon
<1>13. SumOf(f) <= z + (c - 1)
  BY ONLY <1>5, <1>8, <1>9, <1>10, <1>12, z \in Nat, c \in Nat \ {0}
<1> QED
  BY <1>1, <1>2, <1>8, <1>11, <1>13, Zenon

LEMMA TableBounded ==
    ASSUME SessionsTyped, TableInv
    PROVE  UploadsBounded
<1>1. PICK S : S = Active
  BY Zenon
<1>2. PICK f : f = Announced
  BY Zenon
<1>3. PICK g : g = [k \in Active |-> Buffered(k)]
  BY Zenon
<1>4. PICK b \in Nat : b = ChunkSize - 1
  BY IntakeAssumption
<1>5. IsFiniteSet(S) /\ Cardinality(S) \in Nat /\ f \in [S -> Nat]
  BY <1>1, <1>2, ActiveFinite, Zenon
<1>6. \A k \in S : Buffered(k) \in Nat /\ Buffered(k) <= f[k] + b
  BY <1>1, <1>2, <1>4, SessionBuffers, Zenon DEF TableInv, Announced
<1>7. g \in [S -> Nat] /\ \A k \in S : g[k] <= 1 * f[k] + b
  BY <1>1, <1>3, <1>5, <1>6
<1>8. SumOf(g) <= 1 * SumOf(f) + b * Cardinality(S)
  BY <1>5, <1>7, SumBound, Zenon
<1>9. SumOf(f) \in Nat /\ SumOf(g) \in Nat
  BY <1>5, <1>7, SumType, Zenon
<1>10. Cardinality(S) <= MaxActive /\ SumOf(f) <= MaxInFlight
  BY <1>1, <1>2, Zenon DEF TableInv
<1>11. MaxActive \in Nat /\ MaxInFlight \in Nat
  BY IntakeAssumption, Zenon
<1>12. b * Cardinality(S) <= MaxActive * b /\ b * Cardinality(S) \in Nat /\ MaxActive * b \in Nat
  BY ONLY <1>5, <1>10, <1>11, b \in Nat
<1>13. SumOf(g) <= MaxInFlight + MaxActive * b
  BY ONLY <1>8, <1>9, <1>10, <1>11, <1>12
<1> QED
  BY <1>1, <1>2, <1>3, <1>4, <1>10, <1>13, Zenon DEF UploadsBounded, Announced

-----------------------------------------------------------------------------

NodeInv == TransferInv /\ NodeTyped /\ BudgetExact /\ TableInv

\* What holds when the node starts.
LEMMA StartsEmpty == Init => NodeInv
<1> SUFFICES ASSUME Init PROVE NodeInv
  BY Zenon
<1>1. NodeTyped
  BY DEF Init, NodeTyped
<1>2. BudgetExact
  BY NothingCounted, Zenon DEF Init, BudgetExact
<1>3. Active = {} /\ DOMAIN Announced = {} /\ Messages = {}
  BY Zenon DEF Init, Active, Announced, Messages
<1>4. SumOf(Announced) = 0
  <2>1. PICK f : f = Announced
    BY Zenon
  <2> QED
    BY <1>3, <2>1, SumSteps, FS_EmptySet, Zenon
<1>5. TableInv
  BY <1>3, <1>4, FS_EmptySet, IntakeAssumption DEF TableInv
<1> QED
  BY <1>1, <1>2, <1>5, StartsIdle, Zenon DEF NodeInv

\* Every step of clients, node and environment keeps the invariant.
LEMMA NodeStays == Spec => []NodeInv
<1>1. NodeInv /\ [Next]_vars => NodeInv'
  BY StepsKeepTransfers, StepsKeepNode, StepsKeepTable, Zenon DEF NodeInv
<1> QED
  BY StartsEmpty, <1>1, PTL DEF Spec

\* The types of clients, messages and node, as Typed, SessionsTyped and
\* NodeTyped together state them.
THEOREM IntakeTyped == Spec => []TypeOK
<1>1. NodeInv => TypeOK
  BY Zenon DEF NodeInv, TransferInv, Coherent, Typed, Busy, SessionsTyped, NodeTyped, TypeOK
<1> QED
  BY NodeStays, <1>1, PTL

\* consume_request_budget: the global count is the sum of the identities'
\* counts and neither passes its limit, whatever is refused, however the clock
\* is set, for any number of signers.
THEOREM BudgetIsExact == Spec => []BudgetExact
<1>1. NodeInv => BudgetExact
  BY Zenon DEF NodeInv
<1> QED
  BY NodeStays, <1>1, PTL

\* The upload table: sessions, bytes announced and bytes buffered stay within
\* their limits for any chunk size and any limits, because a session never
\* buffers a chunk more than it announced.
THEOREM TableIsBounded == Spec => []UploadsBounded
<1>1. NodeInv => UploadsBounded
  BY TableBounded, Zenon DEF NodeInv, TransferInv
<1> QED
  BY NodeStays, <1>1, PTL
=============================================================================
