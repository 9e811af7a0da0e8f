------------------------- MODULE OutboxRelayProofs -------------------------
(***************************************************************************)
(* For any messages, users, batches and accidents, the relay keeps the     *)
(* at-least-once promise of LeaveNotice and gives up only after the last   *)
(* attempt.                                                                *)
(***************************************************************************)
EXTENDS OutboxRelay, TLAPS, FiniteSetTheorems

\* While the relay works on a message it is an open one, and before it is marked as
\* sent it was given.
WorkInv ==
  /\ relay.phase \in {"found", "read", "put", "failed"} => relay.msg \in Messages
  /\ relay.phase = "put" => given[relay.msg] > 0

\* An open message has attempts left.
AttemptsLeft ==
  \A m \in Messages : outbox[m].status = "PENDING" => outbox[m].attempts < MaxAttempts

RelayInv == TypeOK /\ DeadOnlyAfterRetries /\ WorkInv /\ AttemptsLeft

Relays == [phase : {"idle", "next", "found", "read", "put", "failed"},
           batch : SUBSET Messages, msg : Messages \cup {None}, mdat : Nat]

\* The relay starts idle, with an empty outbox.
LEMMA RelayInit == Init => RelayInv
BY RelayAssumption
   DEF Init, RelayInv, TypeOK, DeadOnlyAfterRetries, WorkInv, AttemptsLeft,
       Absent, Idle, NoSync, Queued

\* A message that is open is a row of the outbox.
LEMMA OpenQueued ==
  ASSUME TypeOK, NEW m \in Messages, outbox[m].status \in {"PENDING", "SENT", "DEAD"}
  PROVE  outbox[m] \in Queued
BY DEF TypeOK, Absent, Queued

\* A step of the relay that writes nothing to the outbox: its new state is typed, its
\* message and the rest of its batch are open.
LEMMA RelayMoved ==
  ASSUME RelayInv, NEW r \in Relays, relay' = r,
         UNCHANGED <<granted, outbox, sync, syncs>>,
         mdat' \in [Users -> Nat], given' \in [Messages -> Nat],
         accidents' \in 0..MaxAccidents,
         \A m \in r.batch : outbox[m].status = "PENDING",
         r.msg # None => outbox[r.msg].status = "PENDING" /\ r.msg \notin r.batch,
         r.phase \in {"found", "read", "put", "failed"} => r.msg \in Messages,
         r.phase = "put" => given'[r.msg] > 0
  PROVE  RelayInv'
BY DEF RelayInv, TypeOK, DeadOnlyAfterRetries, WorkInv, AttemptsLeft, Relays

\* An update of the outbox at an open message by which the message stays a row, with
\* attempts left while it is open and the last one made when it is given up.
LEMMA RowChanged ==
  ASSUME RelayInv, NEW m \in Messages, NEW q \in Queued,
         outbox' = [outbox EXCEPT ![m] = q],
         q.status = "PENDING" => q.attempts < MaxAttempts,
         q.status = "DEAD" => q.attempts = MaxAttempts
  PROVE  /\ outbox' \in [Messages -> {Absent} \cup Queued]
         /\ \A n \in Messages : outbox'[n].status = "DEAD" => outbox'[n].attempts = MaxAttempts
         /\ AttemptsLeft'
         /\ \A n \in Messages \ {m} : outbox'[n] = outbox[n]
         /\ outbox'[m] = q
<1>1. outbox \in [Messages -> {Absent} \cup Queued]
  BY DEF RelayInv, TypeOK
<1>2. /\ outbox' \in [Messages -> {Absent} \cup Queued]
      /\ \A n \in Messages : outbox'[n] = IF n = m THEN q ELSE outbox[n]
  BY <1>1
<1>3. \A n \in Messages : outbox'[n].status = "DEAD" => outbox'[n].attempts = MaxAttempts
  BY <1>2 DEF RelayInv, DeadOnlyAfterRetries
<1>4. AttemptsLeft'
  BY <1>2 DEF RelayInv, AttemptsLeft
<1> QED BY <1>2, <1>3, <1>4

\* A new notice is open, and leaves the ones the relay works on alone.
LEMMA AwardKeeps ==
  ASSUME RelayInv, NEW m \in Messages, NEW u \in Users, Award(m, u)
  PROVE  RelayInv'
<1> DEFINE q == [status |-> "PENDING", attempts |-> 0, ready |-> TRUE, user |-> u]
<1>1. q \in Queued /\ q.status = "PENDING" /\ q.attempts < MaxAttempts
  BY RelayAssumption DEF Queued
<1>2. outbox' = [outbox EXCEPT ![m] = q]
  BY DEF Award
<1>3. outbox[m].status # "PENDING"
  BY DEF Award, Absent
<1> HIDE DEF q
<1>4. /\ outbox' \in [Messages -> {Absent} \cup Queued]
      /\ \A n \in Messages : outbox'[n].status = "DEAD" => outbox'[n].attempts = MaxAttempts
      /\ AttemptsLeft'
      /\ \A n \in Messages \ {m} : outbox'[n] = outbox[n]
  BY <1>1, <1>2, RowChanged
<1>5. granted' = [granted EXCEPT ![u] = granted[u] + 1]
  BY DEF Award
<1>6. granted' \in [Users -> Nat]
  BY <1>5 DEF RelayInv, TypeOK
<1>7. UNCHANGED <<mdat, given, relay, sync, accidents, syncs>>
  BY DEF Award
<1>8. TypeOK'
  BY <1>4, <1>6, <1>7 DEF RelayInv, TypeOK
<1>9. DeadOnlyAfterRetries'
  <2>1. relay.batch \subseteq Messages /\ relay.msg \in Messages \cup {None} /\ None \notin Messages
    BY RelayAssumption DEF RelayInv, TypeOK
  <2>2. m \notin relay.batch /\ relay.msg # m
    BY <1>3, <2>1, RelayAssumption DEF RelayInv, DeadOnlyAfterRetries
  <2> QED BY <1>4, <1>7, <2>1, <2>2 DEF RelayInv, DeadOnlyAfterRetries
<1>10. WorkInv'
  BY <1>7 DEF RelayInv, WorkInv
<1> QED BY <1>4, <1>8, <1>9, <1>10 DEF RelayInv

\* The passing of a back-off changes neither a status nor a count.
LEMMA BackoffKeeps ==
  ASSUME RelayInv, NEW m \in Messages, BackoffPasses(m)
  PROVE  RelayInv'
<1> DEFINE q == [outbox[m] EXCEPT !.ready = TRUE]
<1>1. outbox[m] \in Queued /\ outbox[m].status = "PENDING"
  BY OpenQueued DEF RelayInv, BackoffPasses
<1>2. q \in Queued /\ q.status = "PENDING" /\ q.attempts < MaxAttempts
  BY <1>1 DEF RelayInv, AttemptsLeft, Queued
<1>3. outbox' = [outbox EXCEPT ![m] = q]
  BY DEF BackoffPasses
<1> HIDE DEF q
<1>4. /\ outbox' \in [Messages -> {Absent} \cup Queued]
      /\ \A n \in Messages : outbox'[n].status = "DEAD" => outbox'[n].attempts = MaxAttempts
      /\ AttemptsLeft'
      /\ \A n \in Messages \ {m} : outbox'[n] = outbox[n]
      /\ outbox'[m] = q
  BY <1>2, <1>3, RowChanged
<1>5. UNCHANGED <<granted, mdat, given, relay, sync, accidents, syncs>>
  BY DEF BackoffPasses
<1>6. TypeOK'
  BY <1>4, <1>5 DEF RelayInv, TypeOK
<1>7. DeadOnlyAfterRetries'
  <2>1. relay.batch \subseteq Messages /\ relay.msg \in Messages \cup {None}
    BY DEF RelayInv, TypeOK
  <2> QED BY <1>2, <1>4, <1>5, <2>1 DEF RelayInv, DeadOnlyAfterRetries
<1>8. WorkInv'
  BY <1>5 DEF RelayInv, WorkInv
<1> QED BY <1>4, <1>6, <1>7, <1>8 DEF RelayInv

\* A batch is taken from the open messages.
LEMMA TickKeeps == ASSUME RelayInv, Tick PROVE RelayInv'
<1>1. PICK S \in SUBSET Due : relay' = [Idle EXCEPT !.phase = "next", !.batch = S]
  BY DEF Tick, kSubset
<1> DEFINE r == [phase |-> "next", batch |-> S, msg |-> None, mdat |-> 0]
<1>2. r \in Relays /\ relay' = r
  BY <1>1 DEF Idle, Due, Relays
<1>3. \A m \in S : outbox[m].status = "PENDING"
  BY <1>1 DEF Due
<1>4. UNCHANGED <<granted, outbox, mdat, given, sync, accidents, syncs>>
  BY DEF Tick
<1>5. mdat' \in [Users -> Nat] /\ given' \in [Messages -> Nat] /\ accidents' \in 0..MaxAccidents
  BY <1>4 DEF RelayInv, TypeOK
<1> QED BY <1>2, <1>3, <1>4, <1>5, RelayMoved

\* A message leaves the batch to be worked on.
LEMMA DispatchKeeps == ASSUME RelayInv, Dispatch PROVE RelayInv'
<1>1. PICK m \in relay.batch :
        relay' = [relay EXCEPT !.batch = relay.batch \ {m}, !.msg = m,
                   !.phase = IF outbox[m].user \in NoEmail THEN "failed" ELSE "found"]
  BY DEF Dispatch
<1> DEFINE r == [relay EXCEPT !.batch = relay.batch \ {m}, !.msg = m,
                   !.phase = IF outbox[m].user \in NoEmail THEN "failed" ELSE "found"]
<1>2. relay \in Relays
  BY DEF RelayInv, TypeOK, Relays
<1>3. /\ r \in Relays /\ r.batch = relay.batch \ {m} /\ r.msg = m /\ m \in Messages
      /\ r.phase \in {"failed", "found"}
  BY <1>2 DEF Relays
<1>4. UNCHANGED <<granted, outbox, mdat, given, sync, accidents, syncs>>
  BY DEF Dispatch
<1>5. mdat' \in [Users -> Nat] /\ given' \in [Messages -> Nat] /\ accidents' \in 0..MaxAccidents
  BY <1>4 DEF RelayInv, TypeOK
<1>6. \A n \in relay.batch : outbox[n].status = "PENDING"
  BY DEF RelayInv, DeadOnlyAfterRetries
<1>7. relay' = r
  BY <1>1
<1> HIDE DEF r
<1> QED BY <1>3, <1>4, <1>5, <1>6, <1>7, RelayMoved

\* The relay goes on with its message: its phase, and what it has read, change.
LEMMA WorkGoesOn ==
  ASSUME RelayInv, NEW p \in {"found", "read", "put", "failed"}, NEW n \in Nat,
         relay.phase \in {"found", "read", "put", "failed"},
         relay' = [relay EXCEPT !.phase = p, !.mdat = n],
         UNCHANGED <<granted, outbox, sync, syncs>>,
         mdat' \in [Users -> Nat], given' \in [Messages -> Nat],
         accidents' \in 0..MaxAccidents,
         p = "put" => given'[relay.msg] > 0
  PROVE  RelayInv'
<1> DEFINE r == [relay EXCEPT !.phase = p, !.mdat = n]
<1>1. relay \in Relays
  BY DEF RelayInv, TypeOK, Relays
<1>2. /\ r \in Relays /\ r.batch = relay.batch /\ r.msg = relay.msg /\ r.phase = p
  BY <1>1 DEF Relays
<1>3. relay.msg \in Messages
  BY DEF RelayInv, WorkInv
<1>4. /\ \A m \in relay.batch : outbox[m].status = "PENDING"
      /\ relay.msg # None => outbox[relay.msg].status = "PENDING" /\ relay.msg \notin relay.batch
  BY DEF RelayInv, DeadOnlyAfterRetries
<1> HIDE DEF r
<1>5. relay' = r
  BY DEF r
<1> QED BY <1>2, <1>3, <1>4, <1>5, RelayMoved

\* The client's read.
LEMMA ReadKeeps == ASSUME RelayInv, ReadMdat PROVE RelayInv'
<1>1. /\ relay \in Relays /\ relay.phase = "found"
      /\ UNCHANGED <<granted, outbox, mdat, given, sync, accidents, syncs>>
  BY DEF RelayInv, TypeOK, Relays, ReadMdat
<1>2. mdat' \in [Users -> Nat] /\ given' \in [Messages -> Nat] /\ accidents' \in 0..MaxAccidents
  BY <1>1 DEF RelayInv, TypeOK
<1>3. CASE relay' = [relay EXCEPT !.mdat = mdat[User], !.phase = "read"]
  <2>1. relay.msg \in Messages /\ outbox[relay.msg].status = "PENDING"
    BY <1>1, RelayAssumption DEF RelayInv, WorkInv, DeadOnlyAfterRetries
  <2>2. outbox[relay.msg] \in Queued
    BY <2>1, OpenQueued DEF RelayInv
  <2>3. mdat[User] \in Nat
    BY <2>2 DEF User, Queued, RelayInv, TypeOK
  <2>4. relay' = [relay EXCEPT !.phase = "read", !.mdat = mdat[User]]
    BY <1>1, <1>3 DEF Relays
  <2> QED BY <1>1, <1>2, <2>3, <2>4, WorkGoesOn
<1>4. CASE relay' = [relay EXCEPT !.phase = "failed"]
  <2>1. relay' = [relay EXCEPT !.phase = "failed", !.mdat = relay.mdat] /\ relay.mdat \in Nat
    BY <1>1, <1>4 DEF Relays
  <2> QED BY <1>1, <1>2, <2>1, WorkGoesOn
<1> QED BY <1>3, <1>4 DEF ReadMdat

\* The client's write: when its answer has come the message was given.
LEMMA PutKeeps == ASSUME RelayInv, PutMdat PROVE RelayInv'
<1>1. /\ relay \in Relays /\ relay.phase = "read"
      /\ UNCHANGED <<granted, outbox, sync, syncs>>
  BY DEF RelayInv, TypeOK, Relays, PutMdat
<1>2. /\ mdat \in [Users -> Nat] /\ given \in [Messages -> Nat]
      /\ accidents \in 0..MaxAccidents /\ relay.mdat \in Nat
  BY <1>1 DEF RelayInv, TypeOK, Relays
<1>3. relay.msg \in Messages /\ given[relay.msg] \in Nat
  BY <1>1, <1>2 DEF RelayInv, WorkInv
<1>4. accidents' = accidents \/ Accident
  BY DEF PutMdat
<1>5. accidents' \in 0..MaxAccidents
  BY <1>2, <1>4, RelayAssumption DEF Accident
<1>6. ASSUME NEW p \in {"put", "failed"}, relay' = [relay EXCEPT !.phase = p]
      PROVE  relay' = [relay EXCEPT !.phase = p, !.mdat = relay.mdat]
  BY <1>1, <1>6 DEF Relays
<1>7. CASE /\ mdat' = [mdat EXCEPT ![User] = Written(relay.mdat)]
           /\ given' = [given EXCEPT ![relay.msg] = given[relay.msg] + 1]
           /\ \E p \in {"put", "failed"} : relay' = [relay EXCEPT !.phase = p]
  <2>1. Written(relay.mdat) \in Nat
    BY <1>2 DEF Written
  <2>2. mdat' \in [Users -> Nat]
    BY <1>2, <1>7, <2>1
  <2>3. given' \in [Messages -> Nat] /\ given'[relay.msg] > 0
    BY <1>2, <1>3, <1>7
  <2>4. PICK p \in {"put", "failed"} : relay' = [relay EXCEPT !.phase = p]
    BY <1>7
  <2>5. relay' = [relay EXCEPT !.phase = p, !.mdat = relay.mdat]
    BY <1>6, <2>4
  <2> QED BY <1>1, <1>2, <1>5, <2>2, <2>3, <2>5, WorkGoesOn
<1>8. CASE relay' = [relay EXCEPT !.phase = "failed"] /\ UNCHANGED <<mdat, given>>
  <2>1. relay' = [relay EXCEPT !.phase = "failed", !.mdat = relay.mdat]
    BY <1>6, <1>8
  <2> QED BY <1>1, <1>2, <1>5, <1>8, <2>1, WorkGoesOn
<1> QED BY <1>7, <1>8 DEF PutMdat

\* The relay closes its message, or counts a failed attempt, and takes up the next.
LEMMA Proceeded ==
  ASSUME RelayInv, NEW q \in Queued, relay.msg \in Messages,
         relay.phase \in {"put", "failed"},
         outbox' = [outbox EXCEPT ![relay.msg] = q],
         q.status = "PENDING" => q.attempts < MaxAttempts,
         q.status = "DEAD" => q.attempts = MaxAttempts,
         Proceed,
         UNCHANGED <<granted, mdat, given, sync, accidents, syncs>>
  PROVE  RelayInv'
<1>1. /\ outbox' \in [Messages -> {Absent} \cup Queued]
      /\ \A n \in Messages : outbox'[n].status = "DEAD" => outbox'[n].attempts = MaxAttempts
      /\ AttemptsLeft'
      /\ \A n \in Messages \ {relay.msg} : outbox'[n] = outbox[n]
  BY RowChanged
<1>2. relay \in Relays
  BY DEF RelayInv, TypeOK, Relays
<1>3. \E b \in SUBSET relay.batch, p \in {"idle", "next"} :
        relay' = [phase |-> p, batch |-> b, msg |-> None, mdat |-> 0]
  BY DEF Proceed, Idle
<1>4. PICK b \in SUBSET relay.batch, p \in {"idle", "next"} :
        relay' = [phase |-> p, batch |-> b, msg |-> None, mdat |-> 0]
  BY <1>3
<1>5. /\ relay' \in Relays /\ relay'.batch \subseteq relay.batch /\ relay'.msg = None
      /\ relay'.phase \in {"idle", "next"}
  BY <1>2, <1>4 DEF Relays
<1>6. \A m \in relay.batch : m \in Messages /\ m # relay.msg /\ outbox[m].status = "PENDING"
  BY <1>2, RelayAssumption DEF Relays, RelayInv, DeadOnlyAfterRetries
<1>7. TypeOK'
  BY <1>1, <1>5 DEF RelayInv, TypeOK, Relays
<1>8. DeadOnlyAfterRetries'
  BY <1>1, <1>5, <1>6 DEF DeadOnlyAfterRetries
<1>9. WorkInv'
  BY <1>5 DEF WorkInv
<1> QED BY <1>1, <1>7, <1>8, <1>9 DEF RelayInv

\* A message whose write was answered is closed, or the error is counted as a failure.
LEMMA SentKeeps == ASSUME RelayInv, MarkSent PROVE RelayInv'
<1>1. relay \in Relays /\ relay.phase = "put" /\ relay.msg \in Messages
  BY DEF RelayInv, TypeOK, Relays, WorkInv, MarkSent
<1>2. CASE outbox' = [outbox EXCEPT ![relay.msg].status = "SENT"] /\ Proceed /\ UNCHANGED accidents
  <2> DEFINE q == [outbox[relay.msg] EXCEPT !.status = "SENT"]
  <2>1. outbox[relay.msg].status = "PENDING"
    BY <1>1, RelayAssumption DEF RelayInv, DeadOnlyAfterRetries
  <2>2. outbox[relay.msg] \in Queued
    BY <1>1, <2>1, OpenQueued DEF RelayInv
  <2>3. q \in Queued /\ q.status = "SENT"
    BY <2>2 DEF Queued
  <2>4. outbox' = [outbox EXCEPT ![relay.msg] = q]
    BY <1>2
  <2>5. UNCHANGED <<granted, mdat, given, sync, accidents, syncs>>
    BY <1>2 DEF MarkSent
  <2> HIDE DEF q
  <2> QED BY <1>1, <1>2, <2>3, <2>4, <2>5, Proceeded
<1>3. CASE Accident /\ relay' = [relay EXCEPT !.phase = "failed"] /\ UNCHANGED outbox
  <2>1. relay' = [relay EXCEPT !.phase = "failed", !.mdat = relay.mdat] /\ relay.mdat \in Nat
    BY <1>1, <1>3 DEF Relays
  <2>2. UNCHANGED <<granted, outbox, mdat, given, sync, syncs>>
    BY <1>3 DEF MarkSent
  <2>3. /\ mdat' \in [Users -> Nat] /\ given' \in [Messages -> Nat]
        /\ accidents' \in 0..MaxAccidents
    BY <1>3, <2>2, RelayAssumption DEF Accident, RelayInv, TypeOK
  <2> QED BY <1>1, <2>1, <2>2, <2>3, WorkGoesOn
<1> QED BY <1>2, <1>3 DEF MarkSent

\* One failed attempt more: the message stays open with attempts left, or is given up
\* after the last.
LEMMA FailureCounted ==
  ASSUME NEW q \in Queued, q.status = "PENDING", q.attempts < MaxAttempts
  PROVE  /\ Failed(q) \in Queued /\ Failed(q).status \in {"PENDING", "DEAD"}
         /\ Failed(q).status = "PENDING" => Failed(q).attempts < MaxAttempts
         /\ Failed(q).status = "DEAD" => Failed(q).attempts = MaxAttempts
<1> DEFINE n == q.attempts + 1
           dead == [q EXCEPT !.attempts = n, !.status = "DEAD"]
           open == [q EXCEPT !.attempts = n, !.ready = FALSE]
<1>1. q.attempts \in 0..MaxAttempts /\ MaxAttempts \in Nat
  BY RelayAssumption DEF Queued
<1>2. n \in 0..MaxAttempts /\ (n >= MaxAttempts => n = MaxAttempts)
  BY <1>1
<1>3. Failed(q) = IF n >= MaxAttempts THEN dead ELSE open
  BY DEF Failed
<1> HIDE DEF n
<1>4. dead \in Queued /\ dead.status = "DEAD" /\ dead.attempts = n
  BY <1>2 DEF Queued
<1>5. open \in Queued /\ open.status = "PENDING" /\ open.attempts = n
  BY <1>2 DEF Queued
<1> HIDE DEF dead, open
<1>6. CASE n >= MaxAttempts
  BY <1>2, <1>3, <1>4, <1>6
<1>7. CASE ~ (n >= MaxAttempts)
  BY <1>1, <1>2, <1>3, <1>5, <1>7
<1> QED BY <1>6, <1>7

\* A failed attempt is counted, unless the update fails too and the tick ends.
LEMMA FailedKeeps == ASSUME RelayInv, MarkFailed PROVE RelayInv'
<1>1. relay \in Relays /\ relay.phase = "failed" /\ relay.msg \in Messages
  BY DEF RelayInv, TypeOK, Relays, WorkInv, MarkFailed
<1>2. CASE outbox' = [outbox EXCEPT ![relay.msg] = Failed(outbox[relay.msg])]
           /\ Proceed /\ UNCHANGED accidents
  <2> DEFINE q == Failed(outbox[relay.msg])
  <2>1. outbox[relay.msg].status = "PENDING"
    BY <1>1, RelayAssumption DEF RelayInv, DeadOnlyAfterRetries
  <2>2. outbox[relay.msg] \in Queued /\ outbox[relay.msg].attempts < MaxAttempts
    BY <1>1, <2>1, OpenQueued DEF RelayInv, AttemptsLeft
  <2>3. /\ q \in Queued
        /\ q.status = "PENDING" => q.attempts < MaxAttempts
        /\ q.status = "DEAD" => q.attempts = MaxAttempts
    BY <2>1, <2>2, FailureCounted
  <2>4. UNCHANGED <<granted, mdat, given, sync, accidents, syncs>>
    BY <1>2 DEF MarkFailed
  <2>5. outbox' = [outbox EXCEPT ![relay.msg] = q]
    BY <1>2
  <2> HIDE DEF q
  <2> QED BY <1>1, <1>2, <2>3, <2>4, <2>5, Proceeded
<1>3. CASE Accident /\ relay' = Idle /\ UNCHANGED outbox
  <2>1. UNCHANGED <<granted, mdat, given, sync, syncs>>
    BY DEF MarkFailed
  <2>2. /\ mdat' \in [Users -> Nat] /\ given' \in [Messages -> Nat]
        /\ accidents' \in 0..MaxAccidents
    BY <1>3, <2>1, RelayAssumption DEF Accident, RelayInv, TypeOK
  <2> QED BY <1>3, <2>1, <2>2, RelayMoved DEF Idle, Relays
<1> QED BY <1>2, <1>3 DEF MarkFailed

\* A crash forgets the batch, the message and the reconciliation.
LEMMA CrashKeeps == ASSUME RelayInv, Crash PROVE RelayInv'
<1>1. /\ relay' = Idle /\ sync' = NoSync
      /\ UNCHANGED <<granted, outbox, mdat, given, syncs>>
  BY DEF Crash
<1>2. accidents' \in 0..MaxAccidents
  BY RelayAssumption DEF Crash, Accident, RelayInv, TypeOK
<1>3. Idle \in Relays /\ NoSync \in [user : Users \cup {None}, target : Nat]
  BY DEF Idle, NoSync, Relays
<1>4. TypeOK'
  BY <1>1, <1>2, <1>3 DEF RelayInv, TypeOK, Relays
<1> QED BY <1>1, <1>4 DEF RelayInv, DeadOnlyAfterRetries, WorkInv, AttemptsLeft, Idle

\* A reconciliation reads our days and writes the other system's; no notice changes.
LEMMA SyncKeeps ==
  ASSUME RelayInv, PutTarget \/ \E u \in Users : ReadOurs(u)
  PROVE  RelayInv'
<1>1. UNCHANGED <<granted, outbox, given, relay, accidents>>
  BY DEF PutTarget, ReadOurs
<1>2. CASE PutTarget
  <2>1. UNCHANGED syncs /\ sync' = NoSync
    BY <1>2 DEF PutTarget
  <2>2. sync.target \in Nat
    BY DEF RelayInv, TypeOK
  <2>3. mdat' \in [Users -> Nat]
    BY <1>2, <2>2 DEF PutTarget, RelayInv, TypeOK
  <2>4. TypeOK'
    BY <1>1, <2>1, <2>3 DEF RelayInv, TypeOK, NoSync
  <2> QED BY <1>1, <2>4 DEF RelayInv, DeadOnlyAfterRetries, WorkInv, AttemptsLeft
<1>3. CASE \E u \in Users : ReadOurs(u)
  <2>1. PICK u \in Users : ReadOurs(u)
    BY <1>3
  <2>2. UNCHANGED mdat /\ sync' = [user |-> u, target |-> granted[u]]
    BY <2>1 DEF ReadOurs
  <2>3. granted[u] \in Nat
    BY DEF RelayInv, TypeOK
  <2>4. syncs' \in 0..MaxSyncs
    BY <2>1, RelayAssumption DEF ReadOurs, RelayInv, TypeOK
  <2>5. TypeOK'
    BY <1>1, <2>2, <2>3, <2>4 DEF RelayInv, TypeOK
  <2> QED BY <1>1, <2>5 DEF RelayInv, DeadOnlyAfterRetries, WorkInv, AttemptsLeft
<1> QED BY <1>2, <1>3

\* Every step of the relay keeps its invariant.
LEMMA RelayNext == RelayInv /\ [Next]_vars => RelayInv'
<1> SUFFICES ASSUME RelayInv, [Next]_vars PROVE RelayInv'
  OBVIOUS
<1>1. CASE \E m \in Messages : BackoffPasses(m)
  BY <1>1, BackoffKeeps
<1>2. CASE \E m \in Messages : \E u \in Users : Award(m, u)
  BY <1>2, AwardKeeps
<1>3. CASE Relay
  BY <1>3, TickKeeps, DispatchKeeps, ReadKeeps, PutKeeps, SentKeeps, FailedKeeps DEF Relay
<1>4. CASE Crash
  BY <1>4, CrashKeeps
<1>5. CASE PutTarget \/ \E u \in Users : ReadOurs(u)
  BY <1>5, SyncKeeps
<1>6. CASE UNCHANGED vars
  BY <1>6 DEF vars, RelayInv, TypeOK, DeadOnlyAfterRetries, WorkInv, AttemptsLeft
<1> QED BY <1>1, <1>2, <1>3, <1>4, <1>5, <1>6 DEF Next

\* In every behaviour the relay keeps its types (outbox-relay.scheduler.ts).
THEOREM RelayTyped == Spec => []TypeOK
<1>1. RelayInv => TypeOK
  BY DEF RelayInv
<1> QED BY <1>1, RelayInit, RelayNext, PTL DEF Spec

\* Whatever fails, a notice is given up only after the last attempt, and the relay
\* works only on open notices, on each once in a tick (outbox-relay.scheduler.ts).
THEOREM LastAttemptMade == Spec => []DeadOnlyAfterRetries
<1>1. RelayInv => DeadOnlyAfterRetries
  BY DEF RelayInv
<1> QED BY <1>1, RelayInit, RelayNext, PTL DEF Spec

-----------------------------------------------------------------------------
(* The days that arrive.                                                   *)

\* No answer was lost, and nobody has reconciled.
Clean == accidents = 0 /\ syncs = 0

SentOf(u) == {m \in Of(u) : outbox[m].status = "SENT"}

\* A day that was written and is not marked as sent yet.
Unmarked(u) == IF relay.phase = "put" /\ outbox[relay.msg].user = u THEN 1 ELSE 0

\* What was read is still there when it is written back, and the day is counted once.
DaysInv ==
  Clean => /\ sync = NoSync
           /\ relay.phase = "read" => relay.mdat = mdat[User]
           /\ \A u \in Users : mdat[u] = Cardinality(SentOf(u)) + Unmarked(u)

\* The notices that were sent can be counted.
LEMMA SentFinite ==
  ASSUME NEW u
  PROVE  IsFiniteSet(SentOf(u)) /\ Cardinality(SentOf(u)) \in Nat
<1>1. SentOf(u) \in SUBSET Messages
  BY DEF SentOf, Of
<1> QED BY <1>1, FS_Subset, FS_CardinalityType, RelayAssumption

\* A clean state comes from a clean state, without an accident.
LEMMA CleanBefore ==
  ASSUME RelayInv, [Next]_vars, Clean'
  PROVE  Clean /\ ~ Accident /\ ~ \E u \in Users : ReadOurs(u)
<1>1. accidents \in Nat /\ syncs \in Nat
  BY RelayAssumption DEF RelayInv, TypeOK
<1>2. ~ Accident /\ ~ \E u \in Users : ReadOurs(u)
  BY <1>1 DEF Accident, ReadOurs, Clean
<1>3. UNCHANGED <<accidents, syncs>>
  BY <1>2 DEF Next, Relay, BackoffPasses, Award, Tick, Dispatch, ReadMdat, PutMdat, MarkSent,
              MarkFailed, Crash, PutTarget, vars
<1> QED BY <1>2, <1>3 DEF Clean

\* A step that leaves the rows as they are leaves the sent ones as they are.
LEMMA SameRows == ASSUME UNCHANGED outbox, NEW u PROVE SentOf(u)' = SentOf(u)
BY DEF SentOf, Of

\* A row that is changed, and neither was nor is sent, leaves the sent ones as they are.
LEMMA OneRow ==
  ASSUME NEW m \in Messages, \A n \in Messages \ {m} : outbox'[n] = outbox[n],
         outbox[m].status # "SENT", outbox'[m].status # "SENT", NEW u
  PROVE  SentOf(u)' = SentOf(u)
BY DEF SentOf, Of

\* A step that neither writes a number nor leaves one unmarked keeps the days.
LEMMA QuietStep ==
  ASSUME DaysInv, Clean, UNCHANGED <<mdat, sync>>, relay'.phase \notin {"read", "put"},
         relay.phase # "put", \A u : SentOf(u)' = SentOf(u)
  PROVE  DaysInv'
BY DEF DaysInv, Unmarked

\* A row that changes while the relay does not is not the relay's.
LEMMA OtherRow ==
  ASSUME RelayInv, DaysInv, Clean, NEW m \in Messages, UNCHANGED <<mdat, sync, relay>>,
         \A n \in Messages \ {m} : outbox'[n] = outbox[n],
         outbox[m].status # "SENT", outbox'[m].status # "SENT",
         relay.msg = m => outbox'[m].user = outbox[m].user
  PROVE  DaysInv'
<1>1. \A u : SentOf(u)' = SentOf(u)
  BY OneRow
<1>2. relay.phase \in {"read", "put"} => outbox'[relay.msg].user = outbox[relay.msg].user
  BY DEF RelayInv, WorkInv
<1>3. \A u : Unmarked(u)' = Unmarked(u)
  BY <1>2 DEF Unmarked
<1> QED BY <1>1, <1>2, <1>3 DEF DaysInv, User

\* A write adds a day to what was read.
LEMMA WriteKeepsDays == ASSUME RelayInv, DaysInv, Clean, ~ Accident, PutMdat PROVE DaysInv'
<1> DEFINE v == User
<1>1. /\ relay.phase = "read" /\ relay.mdat = mdat[v] /\ relay \in Relays
      /\ UNCHANGED <<outbox, sync>> /\ sync = NoSync /\ mdat \in [Users -> Nat]
      /\ relay.msg \in Messages /\ \A u \in Users : mdat[u] = Cardinality(SentOf(u))
  BY SentFinite DEF PutMdat, RelayInv, TypeOK, Relays, DaysInv, WorkInv, Unmarked
<1>2. \A u : SentOf(u)' = SentOf(u)
  BY <1>1, SameRows
<1>3. CASE relay' = [relay EXCEPT !.phase = "failed"] /\ UNCHANGED mdat
  <2>1. relay'.phase = "failed"
    BY <1>1, <1>3 DEF Relays
  <2> QED BY <1>1, <1>2, <1>3, <2>1, QuietStep
<1>4. CASE relay' = [relay EXCEPT !.phase = "put"] /\ mdat' = [mdat EXCEPT ![v] = Written(relay.mdat)]
  <2>1. relay'.phase = "put" /\ relay'.msg = relay.msg
    BY <1>1, <1>4 DEF Relays
  <2>2. \A u \in Users : mdat'[u] = IF u = v THEN mdat[u] + 1 ELSE mdat[u]
    BY <1>1, <1>4 DEF Written
  <2>3. \A u \in Users : Unmarked(u)' = IF u = v THEN 1 ELSE 0
    BY <1>1, <2>1 DEF Unmarked, User
  <2>4. \A u \in Users : mdat'[u] = Cardinality(SentOf(u)') + Unmarked(u)'
    BY <1>1, <1>2, <2>2, <2>3, SentFinite
  <2> QED BY <1>1, <2>1, <2>4 DEF DaysInv
<1> QED BY <1>3, <1>4 DEF PutMdat

\* A notice that is marked as sent counts for the day that was written.
LEMMA MarkKeepsDays == ASSUME RelayInv, DaysInv, Clean, ~ Accident, MarkSent PROVE DaysInv'
<1> DEFINE m == relay.msg
           v == outbox[m].user
<1>1. /\ relay.phase = "put" /\ m \in Messages /\ outbox[m].status = "PENDING"
      /\ UNCHANGED <<mdat, sync>> /\ sync = NoSync /\ Proceed
      /\ outbox' = [outbox EXCEPT ![m].status = "SENT"]
      /\ outbox \in [Messages -> {Absent} \cup Queued]
      /\ \A u \in Users : mdat[u] = Cardinality(SentOf(u)) + IF u = v THEN 1 ELSE 0
  BY RelayAssumption
     DEF MarkSent, RelayInv, TypeOK, WorkInv, DeadOnlyAfterRetries, DaysInv, Unmarked
<1>2. relay'.phase \in {"idle", "next"}
  BY <1>1 DEF Proceed, Idle
<1>3. outbox[m] \in Queued
  BY <1>1, OpenQueued DEF RelayInv
<1>4. outbox'[m] = [outbox[m] EXCEPT !.status = "SENT"] /\ \A n \in Messages \ {m} : outbox'[n] = outbox[n]
  BY <1>1
<1>5. outbox'[m].status = "SENT" /\ outbox'[m].user = v /\ outbox'[m] # Absent
  BY <1>3, <1>4 DEF Queued, Absent
<1> HIDE DEF m, v
<1>6. ASSUME NEW u \in Users PROVE mdat'[u] = Cardinality(SentOf(u)') + Unmarked(u)'
  <2>1. Unmarked(u)' = 0
    BY <1>2 DEF Unmarked
  <2>2. CASE u = v
    <3>1. SentOf(u)' = SentOf(u) \cup {m} /\ m \notin SentOf(u)
      BY <1>1, <1>4, <1>5, <2>2 DEF SentOf, Of
    <3>2. Cardinality(SentOf(u) \cup {m}) = Cardinality(SentOf(u)) + 1
      BY <3>1, SentFinite, FS_AddElement
    <3>3. mdat'[u] = Cardinality(SentOf(u)) + 1
      BY <1>1, <2>2
    <3> QED BY <2>1, <3>1, <3>2, <3>3, SentFinite
  <2>3. CASE u # v
    <3>1. SentOf(u)' = SentOf(u)
      BY <1>1, <1>4, <1>5, <2>3 DEF SentOf, Of
    <3> QED BY <1>1, <2>1, <2>3, <3>1, SentFinite
  <2> QED BY <2>2, <2>3
<1> QED BY <1>1, <1>2, <1>6 DEF DaysInv

\* A failure leaves the days as they are.
LEMMA FailureKeepsDays == ASSUME RelayInv, DaysInv, Clean, ~ Accident, MarkFailed PROVE DaysInv'
<1> DEFINE m == relay.msg
           q == Failed(outbox[m])
<1>1. /\ relay.phase = "failed" /\ m \in Messages /\ outbox[m].status = "PENDING"
      /\ UNCHANGED <<mdat, sync>> /\ Proceed
      /\ outbox' = [outbox EXCEPT ![m] = q] /\ outbox \in [Messages -> {Absent} \cup Queued]
  BY RelayAssumption DEF MarkFailed, RelayInv, TypeOK, WorkInv, DeadOnlyAfterRetries
<1>2. q.status \in {"PENDING", "DEAD"}
  BY <1>1, OpenQueued, FailureCounted DEF RelayInv, AttemptsLeft
<1> HIDE DEF q
<1>3. outbox'[m].status # "SENT" /\ \A n \in Messages \ {m} : outbox'[n] = outbox[n]
  BY <1>1, <1>2
<1> HIDE DEF m
<1>4. \A u : SentOf(u)' = SentOf(u)
  BY <1>1, <1>3, OneRow
<1>5. relay'.phase \in {"idle", "next"}
  BY <1>1 DEF Proceed, Idle
<1> QED BY <1>1, <1>4, <1>5, QuietStep

\* Every step keeps the days.
LEMMA DaysNext == RelayInv /\ DaysInv /\ [Next]_vars => DaysInv'
<1> SUFFICES ASSUME RelayInv, DaysInv, [Next]_vars, Clean' PROVE DaysInv'
  BY DEF DaysInv
<1>c. Clean /\ ~ Accident /\ ~ \E u \in Users : ReadOurs(u)
  BY CleanBefore
<1>1. ASSUME NEW m \in Messages, BackoffPasses(m) PROVE DaysInv'
  <2>1. /\ outbox[m].status = "PENDING" /\ UNCHANGED <<mdat, sync, relay>>
        /\ outbox' = [outbox EXCEPT ![m].ready = TRUE] /\ outbox \in [Messages -> {Absent} \cup Queued]
    BY <1>1 DEF BackoffPasses, RelayInv, TypeOK
  <2>2. outbox[m] \in Queued
    BY <2>1, OpenQueued DEF RelayInv
  <2>3. /\ outbox'[m] = [outbox[m] EXCEPT !.ready = TRUE]
        /\ \A n \in Messages \ {m} : outbox'[n] = outbox[n]
    BY <2>1
  <2>4. outbox'[m].status = "PENDING" /\ outbox'[m].user = outbox[m].user
    BY <2>1, <2>2, <2>3 DEF Queued
  <2> QED BY <1>c, <2>1, <2>3, <2>4, OtherRow
<1>2. ASSUME NEW m \in Messages, NEW u \in Users, Award(m, u) PROVE DaysInv'
  <2> DEFINE q == [status |-> "PENDING", attempts |-> 0, ready |-> TRUE, user |-> u]
  <2>1. /\ outbox[m] = Absent /\ UNCHANGED <<mdat, sync, relay>>
        /\ outbox' = [outbox EXCEPT ![m] = q] /\ outbox \in [Messages -> {Absent} \cup Queued]
    BY <1>2 DEF Award, RelayInv, TypeOK
  <2>2. outbox'[m].status = "PENDING" /\ \A n \in Messages \ {m} : outbox'[n] = outbox[n]
    BY <2>1
  <2>3. outbox[m].status = "ABSENT" /\ relay.msg # m
    BY <2>1, RelayAssumption DEF Absent, RelayInv, DeadOnlyAfterRetries
  <2> QED BY <1>c, <2>1, <2>2, <2>3, OtherRow
<1>3. CASE Tick \/ Dispatch
  <2>1. relay \in Relays
    BY DEF RelayInv, TypeOK, Relays
  <2>2. relay.phase \in {"idle", "next"} /\ relay'.phase \in {"next", "found", "failed"}
        /\ UNCHANGED <<outbox, mdat, sync>>
    BY <1>3, <2>1 DEF Tick, Dispatch, Idle, Relays
  <2> QED BY <1>c, <2>2, SameRows, QuietStep
<1>4. CASE ReadMdat
  <2>1. relay \in Relays /\ relay.phase = "found" /\ UNCHANGED <<outbox, mdat, sync>>
    BY <1>4 DEF RelayInv, TypeOK, Relays, ReadMdat
  <2>2. CASE relay' = [relay EXCEPT !.phase = "failed"]
    <3>1. relay'.phase = "failed"
      BY <2>1, <2>2 DEF Relays
    <3> QED BY <1>c, <2>1, <3>1, SameRows, QuietStep
  <2>3. CASE relay' = [relay EXCEPT !.mdat = mdat[User], !.phase = "read"]
    <3>1. relay'.phase = "read" /\ relay'.mdat = mdat[User] /\ relay'.msg = relay.msg
      BY <2>1, <2>3 DEF Relays
    <3>2. User' = User
      BY <2>1, <3>1 DEF User
    <3>3. \A u : Unmarked(u)' = Unmarked(u)
      BY <2>1, <3>1 DEF Unmarked
    <3> QED BY <1>c, <2>1, <3>1, <3>2, <3>3, SameRows DEF DaysInv
  <2> QED BY <1>4, <2>2, <2>3 DEF ReadMdat
<1>5. CASE PutMdat
  BY <1>c, <1>5, WriteKeepsDays
<1>6. CASE MarkSent
  BY <1>c, <1>6, MarkKeepsDays
<1>7. CASE MarkFailed
  BY <1>c, <1>7, FailureKeepsDays
<1>8. ~ Crash /\ ~ PutTarget
  BY <1>c DEF Crash, PutTarget, DaysInv
<1>9. CASE UNCHANGED vars
  BY <1>9, SameRows DEF vars, DaysInv, Clean, User, Unmarked
<1> QED BY <1>1, <1>2, <1>3, <1>4, <1>5, <1>6, <1>7, <1>8, <1>9, <1>c DEF Next, Relay

\* Nothing was written and nothing sent when the relay starts.
LEMMA DaysInit == Init => DaysInv
<1> SUFFICES ASSUME Init PROVE DaysInv
  OBVIOUS
<1>1. \A u \in Users : SentOf(u) = {} /\ Unmarked(u) = 0 /\ mdat[u] = 0
  BY DEF Init, SentOf, Of, Unmarked, Idle
<1> QED BY <1>1, FS_EmptySet DEF Init, DaysInv, Idle

\* As long as no answer is lost and nobody reconciles, the personnel system has the days of the
\* notices that were sent, several of one user added up (ezpass-hr-leave.client.ts).
THEOREM DaysArrive == Spec => []SentDaysArrived
<1>1. DaysInv => SentDaysArrived
  <2> SUFFICES ASSUME DaysInv, relay = Idle, Clean, NEW u \in Users
               PROVE  mdat[u] = Cardinality({m \in Of(u) : outbox[m].status = "SENT"})
    BY DEF SentDaysArrived, Clean
  <2>1. Unmarked(u) = 0
    BY DEF Unmarked, Idle
  <2>2. mdat[u] = Cardinality(SentOf(u)) + Unmarked(u)
    BY DEF DaysInv
  <2> QED BY <2>1, <2>2, SentFinite DEF SentOf
<1> QED BY <1>1, DaysInit, DaysNext, RelayInit, RelayNext, PTL DEF Spec

-----------------------------------------------------------------------------
(* The relay implements LeaveNotice.                                       *)

\* A step that changes one row changes one notice.
LEMMA NoticeChanged ==
  ASSUME RelayInv, NEW m \in Messages, NEW q, outbox' = [outbox EXCEPT ![m] = q]
  PROVE  Notices' = [Notices EXCEPT ![m] = Reading(q.status)]
<1>1. \A n \in Messages : outbox'[n] = IF n = m THEN q ELSE outbox[n]
  BY DEF RelayInv, TypeOK
<1>2. Notices' = [n \in Messages |-> Reading(outbox'[n].status)]
  BY DEF Notices
<1>3. Notices = [n \in Messages |-> Reading(outbox[n].status)]
  BY DEF Notices
<1>4. [n \in Messages |-> Reading(outbox'[n].status)] =
      [n \in Messages |-> IF n = m THEN Reading(q.status) ELSE Reading(outbox[n].status)]
  BY <1>1
<1> QED BY <1>2, <1>3, <1>4

\* An open message is an open notice.
LEMMA OpenNotice ==
  ASSUME NEW m \in Messages, outbox[m].status = "PENDING"
  PROVE  Notices[m] = "open"
BY DEF Notices, Reading

\* The initial states are initial states of LeaveNotice.
LEMMA NoticeInit == Init => Notice!Init
BY DEF Init, Notice!Init, Notices, Reading, Absent

\* A new row is a notice that is queued.
LEMMA AwardQueues ==
  ASSUME RelayInv, NEW m \in Messages, NEW u \in Users, Award(m, u)
  PROVE  Notice!Enqueue(m)
<1> DEFINE q == [status |-> "PENDING", attempts |-> 0, ready |-> TRUE, user |-> u]
<1>1. outbox' = [outbox EXCEPT ![m] = q] /\ q.status = "PENDING" /\ UNCHANGED given
  BY DEF Award
<1> HIDE DEF q
<1>2. Notices' = [Notices EXCEPT ![m] = Reading("PENDING")]
  BY <1>1, NoticeChanged
<1>3. Reading("PENDING") = "open"
  BY DEF Reading
<1>4. Notices[m] = "none"
  BY DEF Award, Notices, Reading, Absent
<1> QED BY <1>1, <1>2, <1>3, <1>4 DEF Notice!Enqueue

\* The passing of a back-off is not seen.
LEMMA BackoffUnseen ==
  ASSUME RelayInv, NEW m \in Messages, BackoffPasses(m)
  PROVE  UNCHANGED <<Notices, given>>
<1> DEFINE q == [outbox[m] EXCEPT !.ready = TRUE]
<1>1. outbox[m] \in Queued /\ outbox[m].status = "PENDING"
  BY OpenQueued DEF RelayInv, BackoffPasses
<1>2. q.status = "PENDING" /\ outbox' = [outbox EXCEPT ![m] = q] /\ UNCHANGED given
  BY <1>1 DEF BackoffPasses, Queued
<1> HIDE DEF q
<1>3. Notices' = [Notices EXCEPT ![m] = Reading("PENDING")]
  BY <1>2, NoticeChanged
<1>4. Notices' = [Notices EXCEPT ![m] = Notices[m]]
  BY <1>1, <1>3, OpenNotice DEF Reading
<1> QED BY <1>2, <1>4 DEF Notices

\* A write that is done gives the notice; one that fails is not seen.
LEMMA PutGives ==
  ASSUME RelayInv, PutMdat
  PROVE  Notice!Give(relay.msg) \/ UNCHANGED <<Notices, given>>
<1>1. relay.msg \in Messages /\ outbox[relay.msg].status = "PENDING" /\ UNCHANGED outbox
  BY RelayAssumption DEF RelayInv, WorkInv, DeadOnlyAfterRetries, PutMdat
<1>2. Notices[relay.msg] = "open" /\ UNCHANGED Notices
  BY <1>1, OpenNotice DEF Notices
<1> QED BY <1>1, <1>2 DEF PutMdat, Notice!Give

\* A notice is closed as sent after it was given; an error of the update is not seen.
LEMMA SentCloses ==
  ASSUME RelayInv, MarkSent
  PROVE  Notice!Close(relay.msg) \/ UNCHANGED <<Notices, given>>
<1>1. /\ relay.msg \in Messages /\ outbox[relay.msg].status = "PENDING"
      /\ given[relay.msg] > 0 /\ UNCHANGED given
  BY RelayAssumption DEF RelayInv, WorkInv, DeadOnlyAfterRetries, MarkSent
<1>2. CASE outbox' = [outbox EXCEPT ![relay.msg].status = "SENT"]
  <2> DEFINE q == [outbox[relay.msg] EXCEPT !.status = "SENT"]
  <2>1. outbox[relay.msg] \in Queued
    BY <1>1, OpenQueued DEF RelayInv
  <2>2. q.status = "SENT" /\ outbox' = [outbox EXCEPT ![relay.msg] = q]
    BY <1>2, <2>1 DEF Queued
  <2> HIDE DEF q
  <2>3. Notices' = [Notices EXCEPT ![relay.msg] = Reading("SENT")]
    BY <1>1, <2>2, NoticeChanged
  <2>4. Reading("SENT") = "sent" /\ Notices[relay.msg] = "open"
    BY <1>1, OpenNotice DEF Reading
  <2> QED BY <1>1, <2>3, <2>4 DEF Notice!Close
<1>3. CASE UNCHANGED outbox
  BY <1>1, <1>3 DEF Notices
<1> QED BY <1>2, <1>3 DEF MarkSent

\* A failure gives the notice up, or is not seen.
LEMMA FailureGivesUp ==
  ASSUME RelayInv, MarkFailed
  PROVE  Notice!GiveUp(relay.msg) \/ UNCHANGED <<Notices, given>>
<1>1. /\ relay.msg \in Messages /\ outbox[relay.msg].status = "PENDING" /\ UNCHANGED given
  BY RelayAssumption DEF RelayInv, WorkInv, DeadOnlyAfterRetries, MarkFailed
<1>2. CASE outbox' = [outbox EXCEPT ![relay.msg] = Failed(outbox[relay.msg])]
  <2> DEFINE q == Failed(outbox[relay.msg])
  <2>1. outbox[relay.msg] \in Queued /\ outbox[relay.msg].attempts < MaxAttempts
    BY <1>1, OpenQueued DEF RelayInv, AttemptsLeft
  <2>2. q.status \in {"PENDING", "DEAD"} /\ outbox' = [outbox EXCEPT ![relay.msg] = q]
    BY <1>1, <1>2, <2>1, FailureCounted
  <2> HIDE DEF q
  <2>3. Notices' = [Notices EXCEPT ![relay.msg] = Reading(q.status)]
    BY <1>1, <2>2, NoticeChanged
  <2>4. Reading("DEAD") = "dead" /\ Reading("PENDING") = "open" /\ Notices[relay.msg] = "open"
    BY <1>1, OpenNotice DEF Reading
  <2>5. CASE q.status = "DEAD"
    BY <1>1, <2>3, <2>4, <2>5 DEF Notice!GiveUp
  <2>6. CASE q.status = "PENDING"
    BY <1>1, <2>3, <2>4, <2>6 DEF Notices
  <2> QED BY <2>2, <2>5, <2>6
<1>3. CASE UNCHANGED outbox
  BY <1>1, <1>3 DEF Notices
<1> QED BY <1>2, <1>3 DEF MarkFailed

\* Every step of the relay is a step of LeaveNotice, or not seen.
LEMMA NoticeStep == RelayInv /\ [Next]_vars => [Notice!Next]_<<Notices, given>>
<1> SUFFICES ASSUME RelayInv, [Next]_vars
             PROVE  Notice!Next \/ UNCHANGED <<Notices, given>>
  OBVIOUS
<1>1. CASE \E m \in Messages : BackoffPasses(m)
  BY <1>1, BackoffUnseen
<1>2. CASE \E m \in Messages : \E u \in Users : Award(m, u)
  BY <1>2, AwardQueues DEF Notice!Next
<1>3. CASE Tick \/ Dispatch \/ ReadMdat \/ Crash \/ PutTarget \/ \E u \in Users : ReadOurs(u)
  BY <1>3 DEF Tick, Dispatch, ReadMdat, Crash, PutTarget, ReadOurs, Notices
<1>4. ASSUME PutMdat \/ MarkSent \/ MarkFailed PROVE relay.msg \in Messages
  BY <1>4 DEF RelayInv, WorkInv, PutMdat, MarkSent, MarkFailed
<1>5. CASE PutMdat
  BY <1>4, <1>5, PutGives DEF Notice!Next
<1>6. CASE MarkSent
  BY <1>4, <1>6, SentCloses DEF Notice!Next
<1>7. CASE MarkFailed
  BY <1>4, <1>7, FailureGivesUp DEF Notice!Next
<1>8. CASE UNCHANGED vars
  BY <1>8 DEF vars, Notices
<1> QED BY <1>1, <1>2, <1>3, <1>5, <1>6, <1>7, <1>8 DEF Next, Relay

\* Whatever fails, is lost or dies, a notice is given at least once before it is closed
\* as sent, and never after it was closed (outbox-relay.scheduler.ts).
THEOREM NoticePromiseKept == Spec => KeepsNoticePromise
BY NoticeInit, NoticeStep, RelayInit, RelayNext, PTL DEF Spec, KeepsNoticePromise, Notice!Spec
=============================================================================
