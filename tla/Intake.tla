------------------------------- MODULE Intake -------------------------------
(***************************************************************************)
(* Content moving from client threads (transfer_content_via) into a node:  *)
(* `handle' with its request budget, its permission check, the table of    *)
(* upload sessions and the content store.                                  *)
(*                                                                         *)
(* Every request is handled by a thread of its own and its steps are taken *)
(* lock by lock.  A client waits for one answer at a time; it may give up  *)
(* (timeout, lost connection), and what it sent may still be handled later *)
(* while it, or another thread of the same node, transfers again.          *)
(*                                                                         *)
(* Bytes are abstracted: the bytes of a chunk are the "right" ones of its  *)
(* content, some "other" full chunk, or "damaged" (not matching the hash   *)
(* sent along).  A content is its size; sizes are in bytes.                *)
(***************************************************************************)
EXTENDS Naturals, FiniteSets, FiniteSetsExt

CONSTANTS Signers, Contents,
          Size,         \* Size[c]: length of content c
          Clients,      \* client threads
          Signer,       \* Signer[t]: the node client thread t belongs to
          NoClient,     \* addressee of answers nobody waits for
          ChunkSize,    \* CONTENT_CHUNK_SIZE
          MaxContent,   \* MAX_CONTENT_SIZE
          MaxActive,    \* MAX_ACTIVE_UPLOADS
          MaxInFlight,  \* MAX_IN_FLIGHT_UPLOAD_BYTES
          Window,       \* REQUEST_WINDOW_MILLIS
          PerIdentity,  \* MAX_REQUESTS_PER_IDENTITY_PER_WINDOW
          Global,       \* MAX_REQUESTS_GLOBAL_PER_WINDOW
          Totals,       \* values of ContentStart.total_size
          MaxTime,      \* bound: largest clock value
          MaxTransfers, \* bound: transfers begun
          MaxEvents     \* bound: strays, revocations, clock moves, restarts

Kinds == {"content", "start", "chunk", "complete"}
Request == [signer : Signers, id : Contents, kind : Kinds, index : Nat, total : Nat,
            bytes : {"right", "other", "damaged"}, to : Clients \cup {NoClient},
            attempt : Nat]
Keys == Signers \X Contents

ASSUME IntakeAssumption ==
    /\ IsFiniteSet(Signers) /\ IsFiniteSet(Contents) /\ Contents # {}
    /\ Size \in [Contents -> Nat]
    /\ Signer \in [Clients -> Signers]
    /\ NoClient \notin Clients \cup Request
    /\ ChunkSize \in Nat \ {0}
    /\ {MaxContent, MaxActive, MaxInFlight, Window, PerIdentity, Global, MaxTime} \subseteq Nat
    /\ Totals \subseteq Nat

VARIABLES
    clock,            \* now()
    window, global, identities,   \* RequestBudget
    allowed,          \* signers the membership policy permits "content"
    uploads,          \* Inner.uploads
    store,            \* contents in the FileCas
    sent,             \* requests on the wire
    checked,          \* requests past budget and permission, not yet handled
    putting,          \* requests about to write their content to the store
    waiting,          \* waiting[t]: the request client t waits for an answer to
    target,           \* target[t]: the content client t transfers
    phase,            \* "idle", "busy", "ok" or "failed", per client
    attempts,         \* transfers begun, per client
    excused,          \* history: clients whose transfer met with a fault
    events            \* steps of the environment so far

budget == <<window, global, identities>>
server == <<allowed, uploads, store>>
client == <<waiting, target, phase, attempts, excused>>
vars == <<clock, budget, server, sent, checked, putting, client, events>>

NChunks(total) == (total + ChunkSize - 1) \div ChunkSize
Chunks(total) == 0..(NChunks(total) - 1)

\* The sum of the values of a function.
SumOf(f) == MapThenSumSet(LAMBDA x : f[x], DOMAIN f)

\* Variant: the upload table is keyed by content only.
KeyById(r) == <<CHOOSE s \in Signers : TRUE, r.id>>

Key(r) == <<r.signer, r.id>>
Active == DOMAIN uploads

\* The client, if any, that waits for the answer to r.
Waits(r) == {t \in Clients : waiting[t] = r}

Msg(t, kind, index) ==
    [signer |-> Signer[t], id |-> target'[t], kind |-> kind, index |-> index,
     total |-> Size[target'[t]], bytes |-> "right", to |-> t, attempt |-> attempts'[t]]

Init ==
    /\ clock = 0 /\ window = 0 /\ global = 0
    /\ identities = [s \in Signers |-> 0]
    /\ allowed = Signers
    /\ uploads = [k \in {} |-> {}]
    /\ store = {} /\ sent = {} /\ checked = {} /\ putting = {}
    /\ waiting = [t \in Clients |-> NoClient]
    /\ target = [t \in Clients |-> CHOOSE c \in Contents : TRUE]
    /\ phase = [t \in Clients |-> "idle"]
    /\ attempts = [t \in Clients |-> 0]
    /\ excused = {}
    /\ events = 0

-----------------------------------------------------------------------------
(* The client: transfer_content_via and exchange *)

Send(t, kind, index) ==
    /\ sent' = sent \cup {Msg(t, kind, index)}
    /\ waiting' = [waiting EXCEPT ![t] = Msg(t, kind, index)]

\* One message for a content that fits a chunk, else ContentStart first.
Begin(t, c) ==
    /\ phase[t] # "busy"
    /\ SumOf(attempts) < MaxTransfers
    /\ attempts' = [attempts EXCEPT ![t] = attempts[t] + 1]
    /\ phase' = [phase EXCEPT ![t] = "busy"]
    /\ target' = [target EXCEPT ![t] = c]
    /\ excused' = excused \ {t}
    /\ Send(t, IF Size[c] <= ChunkSize THEN "content" ELSE "start", 0)
    /\ UNCHANGED <<clock, budget, server, checked, putting, events>>

\* Variant: the ended exchange is still listened to.
EndListening(t, outcome) == phase' = [phase EXCEPT ![t] = outcome] /\ waiting' = waiting

EndTransfer(t, outcome) ==
    /\ phase' = [phase EXCEPT ![t] = outcome]
    /\ waiting' = [waiting EXCEPT ![t] = NoClient]

\* No answer in time (P2pRpc::request, network::request): the caller has an
\* error, the request may still be handled.
Timeout(t) ==
    /\ phase[t] = "busy"
    /\ EndTransfer(t, "failed")
    /\ excused' = excused \cup {t}
    /\ UNCHANGED <<clock, budget, server, sent, checked, putting, target, attempts, events>>

\* The answer to r.  Every exchange has a channel of its own, so an answer nobody
\* waits for any more is dropped; a positive answer lets the client go on.
Answer(r, ok) ==
    LET t == r.to IN
    IF t = NoClient \/ waiting[t] # r
      THEN UNCHANGED <<waiting, target, phase, attempts>> /\ sent' = sent \ {r}
      ELSE /\ UNCHANGED <<target, attempts>>
           /\ \/ ~ok /\ EndTransfer(t, "failed") /\ sent' = sent \ {r}
              \/ /\ ok /\ r.kind \in {"content", "complete"}
                 /\ EndTransfer(t, "ok") /\ sent' = sent \ {r}
              \/ /\ ok /\ r.kind \in {"start", "chunk"}
                 /\ phase' = phase
                 /\ LET i == IF r.kind = "start" THEN 0 ELSE r.index + 1
                        m == IF i < NChunks(r.total) THEN Msg(t, "chunk", i)
                                                     ELSE Msg(t, "complete", 0)
                    IN  /\ sent' = (sent \ {r}) \cup {m}
                        /\ waiting' = [waiting EXCEPT ![t] = m]

-----------------------------------------------------------------------------
(* The node: handle *)

\* Variant: a refusal by the per-identity limit still counts globally.
CountedRefusal(s, g, ids) ==
    /\ identities' = [ids EXCEPT ![s] = IF g < Global /\ ids[s] < PerIdentity
                                          THEN ids[s] + 1 ELSE ids[s]]
    /\ global' = IF g < Global THEN g + 1 ELSE g

Counted(s, g, ids) ==
    IF g < Global /\ ids[s] < PerIdentity
      THEN identities' = [ids EXCEPT ![s] = ids[s] + 1] /\ global' = g + 1
      ELSE identities' = ids /\ global' = g

\* consume_request_budget and the permission check.  They touch different state,
\* so one step: a revocation between them is one before them.
Receive(r) ==
    LET fresh == clock >= window + Window      \* at.saturating_sub(window) >= ...
        g == IF fresh THEN 0 ELSE global
        ids == IF fresh THEN [s \in Signers |-> 0] ELSE identities
        granted == g < Global /\ ids[r.signer] < PerIdentity /\ r.signer \in allowed
    IN
    /\ r \in sent
    /\ window' = IF fresh THEN clock ELSE window
    /\ Counted(r.signer, g, ids)
    /\ IF granted
         THEN /\ checked' = checked \cup {r}
              /\ sent' = sent \ {r}
              /\ UNCHANGED client
         ELSE /\ Answer(r, FALSE)
              /\ excused' = excused \cup Waits(r)
              /\ UNCHANGED checked
    /\ UNCHANGED <<clock, server, putting, events>>

\* Transfers of the same signer and content that r does not belong to.
Crossed(r) == {t \in Clients : phase[t] = "busy" /\ waiting[t] # r
                               /\ Signer[t] = r.signer /\ target[t] = r.id}

\* Variant: the size announced by the session being replaced is not counted.
ReservedNone(r) == 0

\* Bytes announced by the other sessions.
Reserved(r) == SumOf([k \in Active \ {Key(r)} |-> uploads[k].total])

Room(r) == Key(r) \in Active \/ Cardinality(Active) < MaxActive

\* HashMap::insert and remove on the table.
Inserted(key, session) ==
    [k \in Active \cup {key} |-> IF k = key THEN session ELSE uploads[k]]

Removed(key) == [k \in Active \ {key} |-> uploads[k]]

\* ContentStart: a new session, replacing the signer's session for this content.
HandleStart(r) ==
    LET valid == /\ r.total <= MaxContent
                 /\ Room(r)
                 /\ Reserved(r) + r.total <= MaxInFlight
    IN  /\ r.kind = "start"
        /\ uploads' = IF valid
              THEN Inserted(Key(r), [total |-> r.total,
                                     chunks |-> [i \in Chunks(r.total) |-> "missing"]])
              ELSE uploads
        /\ Answer(r, valid)
        /\ excused' = excused \cup Crossed(r) \cup (IF valid THEN {} ELSE Waits(r))
        /\ UNCHANGED <<store, putting>>

\* ContentChunk: filed in the session; an invalid one ends the session.
HandleChunk(r) ==
    LET session == uploads[Key(r)]
        valid == Key(r) \in Active /\ r.bytes # "damaged" /\ r.index \in Chunks(session.total)
    IN  /\ r.kind = "chunk"
        /\ uploads' = IF valid THEN [uploads EXCEPT ![Key(r)].chunks[r.index] = r.bytes]
                                ELSE Removed(Key(r))
        /\ Answer(r, valid)
        /\ excused' = excused \cup Crossed(r)
        /\ UNCHANGED <<store, putting>>

\* All chunks present, the announced size and the content's hash.
Whole(session, id) ==
    /\ session.total = Size[id]
    /\ \A i \in Chunks(session.total) : session.chunks[i] = "right"

\* ContentComplete: takes the session out, whatever it holds.
HandleComplete(r) ==
    /\ r.kind = "complete"
    /\ uploads' = Removed(Key(r))
    /\ IF Key(r) \in Active /\ Whole(uploads[Key(r)], r.id)
         THEN putting' = putting \cup {r} /\ UNCHANGED <<sent, waiting, target, phase, attempts>>
         ELSE Answer(r, FALSE) /\ UNCHANGED putting
    /\ excused' = excused \cup Crossed(r)
    /\ store' = store

\* Content: one message whose bytes must hash to its id.
HandleContent(r) ==
    /\ r.kind = "content"
    /\ IF r.bytes = "right"
         THEN putting' = putting \cup {r} /\ UNCHANGED <<sent, waiting, target, phase, attempts>>
         ELSE Answer(r, FALSE) /\ UNCHANGED putting
    /\ UNCHANGED <<uploads, store, excused>>

Handle(r) ==
    /\ r \in checked
    /\ checked' = checked \ {r}
    /\ HandleContent(r) \/ HandleStart(r) \/ HandleChunk(r) \/ HandleComplete(r)
    /\ UNCHANGED <<clock, budget, allowed, events>>

\* Variant: the answer does not depend on cas.put.
PutAnswered(r) ==
    /\ r \in putting
    /\ putting' = putting \ {r}
    /\ store' \in {store, store \cup {r.id}}
    /\ Answer(r, TRUE)
    /\ UNCHANGED <<clock, budget, allowed, uploads, checked, excused, events>>

\* cas.put, after the upload lock is released; it may fail.
Put(r) ==
    /\ r \in putting
    /\ putting' = putting \ {r}
    /\ \/ store' = store \cup {r.id} /\ Answer(r, TRUE) /\ excused' = excused
       \/ store' = store /\ Answer(r, FALSE) /\ excused' = excused \cup Waits(r)
    /\ UNCHANGED <<clock, budget, allowed, uploads, checked, events>>

-----------------------------------------------------------------------------
(* The environment *)

Event == events < MaxEvents /\ events' = events + 1

Fields(kind) ==
    CASE kind = "content" -> {0} \X {0} \X {"right", "other"}
      [] kind = "start" -> {0} \X Totals \X {"right"}
      [] kind = "chunk" -> {0, 1} \X {0} \X {"other", "damaged"}
      [] kind = "complete" -> {0} \X {0} \X {"right"}

\* Any other request of a signer: another implementation, a broken sender.
Stray(s, c, kind) ==
    /\ Event
    /\ \E f \in Fields(kind) :
         sent' = sent \cup {[signer |-> s, id |-> c, kind |-> kind, index |-> f[1],
                             total |-> f[2], bytes |-> f[3], to |-> NoClient,
                             attempt |-> events]}
    /\ UNCHANGED <<clock, budget, server, checked, putting, client>>

\* apply_revocations takes a member out of the policy.
Revoke(s) ==
    /\ Event
    /\ s \in allowed
    /\ allowed' = allowed \ {s}
    /\ UNCHANGED <<clock, budget, uploads, store, sent, checked, putting, client>>

\* The wall clock moves, forward or (when it is set) back.
Tick ==
    /\ Event
    /\ clock' \in (0..MaxTime) \ {clock}
    /\ UNCHANGED <<budget, server, sent, checked, putting, client>>

\* Sessions and budget are in memory only; requests being handled are lost.
Restart ==
    /\ Event
    /\ window' = 0 /\ global' = 0 /\ identities' = [s \in Signers |-> 0]
    /\ uploads' = [k \in {} |-> {}]
    /\ sent' = {} /\ checked' = {} /\ putting' = {}
    /\ excused' = excused \cup {t \in Clients : phase[t] = "busy"}
    /\ UNCHANGED <<clock, allowed, store, waiting, target, phase, attempts>>

Next ==
    \/ \E t \in Clients : Timeout(t) \/ \E c \in Contents : Begin(t, c)
    \/ \E r \in sent : Receive(r)
    \/ \E r \in checked : Handle(r)
    \/ \E r \in putting : Put(r)
    \/ \E s \in Signers, c \in Contents, kind \in Kinds : Stray(s, c, kind)
    \/ \E s \in Signers : Revoke(s)
    \/ Tick \/ Restart

Spec == Init /\ [][Next]_vars

-----------------------------------------------------------------------------
(* Properties *)

\* Requests, sessions and client states have their types; a client that is not
\* transferring waits for nothing.
TypeOK ==
    /\ clock \in Nat /\ window \in Nat /\ global \in Nat
    /\ identities \in [Signers -> Nat]
    /\ allowed \subseteq Signers
    /\ Active \subseteq Keys
    /\ \A k \in Active : /\ uploads[k].total \in Nat
                         /\ uploads[k].chunks \in
                              [Chunks(uploads[k].total) -> {"missing", "right", "other"}]
    /\ store \subseteq Contents
    /\ sent \cup checked \cup putting \subseteq Request
    /\ waiting \in [Clients -> Request \cup {NoClient}]
    /\ target \in [Clients -> Contents]
    /\ phase \in [Clients -> {"idle", "busy", "ok", "failed"}]
    /\ \A t \in Clients : phase[t] = "busy" <=> waiting[t] # NoClient
    /\ attempts \in [Clients -> Nat]
    /\ excused \subseteq Clients
    /\ events \in Nat

\* The two limits of RequestBudget speak of the same requests: whatever is
\* refused, and however windows begin, the global count is the sum of the
\* identities' counts, and neither passes its limit.
BudgetExact ==
    /\ global = SumOf(identities)
    /\ global <= Global
    /\ \A s \in Signers : identities[s] <= PerIdentity

\* Length of chunk i as it lies in the session of key k.
Held(k, i) ==
    CASE uploads[k].chunks[i] = "missing" -> 0
      [] uploads[k].chunks[i] = "other" -> ChunkSize
      [] uploads[k].chunks[i] = "right" ->
           IF (i + 1) * ChunkSize <= Size[k[2]] THEN ChunkSize ELSE Size[k[2]] - i * ChunkSize

Buffered(k) == SumOf([i \in Chunks(uploads[k].total) |-> Held(k, i)])

\* SECURITY.md: "Bounded content size, chunk size, concurrent uploads, in-flight bytes".
\* However starts, restarts of a session, chunks and completions of several
\* signers interleave, the table keeps to its number of sessions, to the bytes
\* announced, and to the bytes really buffered: a last chunk longer than what was
\* announced adds less than one chunk per session.
UploadsBounded ==
    /\ Cardinality(Active) <= MaxActive
    /\ SumOf([k \in Active |-> uploads[k].total]) <= MaxInFlight
    /\ SumOf([k \in Active |-> Buffered(k)]) <= MaxInFlight + MaxActive * (ChunkSize - 1)

\* transfer_content_via returns Ok only if the content is in the node's store,
\* whatever timed out, crossed, failed or restarted on the way.
DoneIsStored == \A t \in Clients : phase[t] = "ok" => target[t] \in store

\* A transfer fails only for a reason of its own: it timed out, was refused by a
\* limit or the policy, the store or the node failed, or the same signer sent the
\* same content beside it.  Other signers' uploads, of the same content too, never
\* disturb it.
UndisturbedSucceeds == \A t \in Clients : phase[t] = "failed" => t \in excused
=============================================================================
