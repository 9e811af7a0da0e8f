---------------------------- MODULE OutboxRelay ----------------------------
(***************************************************************************)
(* The outbox: the settlement of an auction grants a day of leave and      *)
(* queues a notice of it in one transaction, and a relay carries the       *)
(* notices, a batch at a tick, to the company's personnel system.  That    *)
(* system keeps one number for each user, which the client reads and       *)
(* writes back with the day added; an administrator's reconciliation       *)
(* writes it too.  Requests may fail, answers may be lost, the process may *)
(* die between any two steps.                                              *)
(***************************************************************************)
EXTENDS Integers, FiniteSets, FiniteSetsExt

CONSTANTS
  Messages, Users,
  NoEmail,         \* users the personnel system cannot be asked about
  Batch,           \* notices a tick takes
  MaxAttempts,     \* outbox.max_attempts
  MaxAccidents,    \* bound: answers lost, database errors, crashes
  MaxSyncs,        \* bound: reconciliations
  None

ASSUME RelayAssumption ==
  /\ IsFiniteSet(Messages) /\ NoEmail \subseteq Users
  /\ Batch \in Nat \ {0} /\ MaxAttempts \in Nat \ {0}
  /\ MaxAccidents \in Nat /\ MaxSyncs \in Nat /\ None \notin Messages \cup Users

VARIABLES
  granted,     \* leave_balance, type AUCTION: days granted
  outbox,      \* outbox: status, attempts, whether next_attempt_at has come; its user
  mdat,        \* the personnel system's number for each user
  given,       \* how often the relay's write for the message reached that system
  relay,       \* the relay's tick: the rest of its batch, its message, what it has read
  sync,        \* the reconciliation under way
  accidents, syncs

vars == <<granted, outbox, mdat, given, relay, sync, accidents, syncs>>

Absent == [status |-> "ABSENT"]
Idle   == [phase |-> "idle", batch |-> {}, msg |-> None, mdat |-> 0]
NoSync == [user |-> None, target |-> 0]

Init ==
  /\ granted = [u \in Users |-> 0] /\ mdat = [u \in Users |-> 0]
  /\ outbox = [m \in Messages |-> Absent] /\ given = [m \in Messages |-> 0]
  /\ relay = Idle /\ sync = NoSync
  /\ accidents = 0 /\ syncs = 0

Accident == accidents < MaxAccidents /\ accidents' = accidents + 1

-----------------------------------------------------------------------------
(* The settlement, and the passing of a message's back-off.                *)

Award(m, u) ==
  /\ outbox[m] = Absent
  /\ granted' = [granted EXCEPT ![u] = @ + 1]
  /\ outbox' = [outbox EXCEPT ![m] = [status |-> "PENDING", attempts |-> 0, ready |-> TRUE, user |-> u]]
  /\ UNCHANGED <<mdat, given, relay, sync, accidents, syncs>>

BackoffPasses(m) ==
  /\ outbox[m].status = "PENDING" /\ ~ outbox[m].ready
  /\ outbox' = [outbox EXCEPT ![m].ready = TRUE]
  /\ UNCHANGED <<granted, mdat, given, relay, sync, accidents, syncs>>

-----------------------------------------------------------------------------
(* A tick of the relay.                                                    *)

DueAnyStatus == {m \in Messages : outbox[m].status \in {"PENDING", "DEAD"} /\ outbox[m].ready}  \* Mutant
Due == {m \in Messages : outbox[m].status = "PENDING" /\ outbox[m].ready}

User == outbox[relay.msg].user

Tick ==
  /\ relay.phase = "idle" /\ Due # {}
  /\ \E S \in kSubset(IF Cardinality(Due) < Batch THEN Cardinality(Due) ELSE Batch, Due) :
       relay' = [Idle EXCEPT !.phase = "next", !.batch = S]
  /\ UNCHANGED <<granted, outbox, mdat, given, sync, accidents, syncs>>

Dispatch ==
  /\ relay.phase = "next"
  /\ \E m \in relay.batch :
       relay' = [relay EXCEPT !.batch = @ \ {m}, !.msg = m,
                   !.phase = IF outbox[m].user \in NoEmail THEN "failed" ELSE "found"]
  /\ UNCHANGED <<granted, outbox, mdat, given, sync, accidents, syncs>>

ReadMdat ==
  /\ relay.phase = "found"
  /\ \/ relay' = [relay EXCEPT !.mdat = mdat[User], !.phase = "read"]
     \/ relay' = [relay EXCEPT !.phase = "failed"]
  /\ UNCHANGED <<granted, outbox, mdat, given, sync, accidents, syncs>>

WrittenOver(n) == 1    \* Mutant: the day alone is written.
Written(n) == n + 1

\* The write fails, or is done; if it is done, the answer may still be lost.
PutMdat ==
  /\ relay.phase = "read"
  /\ \/ /\ mdat' = [mdat EXCEPT ![User] = Written(relay.mdat)]
        /\ given' = [given EXCEPT ![relay.msg] = @ + 1]
        /\ \/ relay' = [relay EXCEPT !.phase = "put"] /\ UNCHANGED accidents
           \/ relay' = [relay EXCEPT !.phase = "failed"] /\ Accident
     \/ /\ relay' = [relay EXCEPT !.phase = "failed"]
        /\ UNCHANGED <<mdat, given, accidents>>
  /\ UNCHANGED <<granted, outbox, sync, syncs>>

Proceed == relay' = IF relay.batch = {} THEN Idle ELSE [Idle EXCEPT !.phase = "next", !.batch = relay.batch]

\* SENT; an error of this update is caught like one of the dispatch.
MarkSent ==
  /\ relay.phase = "put"
  /\ \/ /\ outbox' = [outbox EXCEPT ![relay.msg].status = "SENT"]
        /\ Proceed /\ UNCHANGED accidents
     \/ Accident /\ relay' = [relay EXCEPT !.phase = "failed"] /\ UNCHANGED outbox
  /\ UNCHANGED <<granted, mdat, given, sync, syncs>>

FailedUncounted(msg) ==    \* Mutant: the attempt is not counted.
  [msg EXCEPT !.ready = FALSE]
FailedEarly(msg) ==        \* Mutant: the last attempt is not made.
  IF msg.attempts + 2 >= MaxAttempts
  THEN [msg EXCEPT !.attempts = @ + 1, !.status = "DEAD"]
  ELSE [msg EXCEPT !.attempts = @ + 1, !.ready = FALSE]
Failed(msg) ==
  IF msg.attempts + 1 >= MaxAttempts
  THEN [msg EXCEPT !.attempts = @ + 1, !.status = "DEAD"]
  ELSE [msg EXCEPT !.attempts = @ + 1, !.ready = FALSE]

\* One attempt more, and DEAD after the last; an error of this update ends the tick.
MarkFailed ==
  /\ relay.phase = "failed"
  /\ \/ /\ outbox' = [outbox EXCEPT ![relay.msg] = Failed(@)]
        /\ Proceed /\ UNCHANGED accidents
     \/ Accident /\ relay' = Idle /\ UNCHANGED outbox
  /\ UNCHANGED <<granted, mdat, given, sync, syncs>>

Crash ==
  /\ Accident
  /\ relay' = Idle /\ sync' = NoSync
  /\ UNCHANGED <<granted, outbox, mdat, given, syncs>>

Relay == Tick \/ Dispatch \/ ReadMdat \/ PutMdat \/ MarkSent \/ MarkFailed

-----------------------------------------------------------------------------
(* The reconciliation of one user: our days replace the other system's.    *)

ReadOurs(u) ==
  /\ sync = NoSync /\ u \notin NoEmail
  /\ syncs < MaxSyncs /\ syncs' = syncs + 1
  /\ sync' = [user |-> u, target |-> granted[u]]
  /\ UNCHANGED <<granted, outbox, mdat, given, relay, accidents>>

PutTarget ==
  /\ sync # NoSync
  /\ \/ mdat' = [mdat EXCEPT ![sync.user] = sync.target]
     \/ UNCHANGED mdat
  /\ sync' = NoSync
  /\ UNCHANGED <<granted, outbox, given, relay, accidents, syncs>>

Next ==
  \/ \E m \in Messages : BackoffPasses(m) \/ \E u \in Users : Award(m, u)
  \/ Relay \/ Crash
  \/ PutTarget \/ \E u \in Users : ReadOurs(u)

Spec == Init /\ [][Next]_vars

\* The timer ticks, awaited calls return, and time passes.
FairSpec == Spec /\ WF_vars(Relay) /\ \A m \in Messages : WF_vars(BackoffPasses(m))

-----------------------------------------------------------------------------
(* Properties.                                                             *)

Queued == [status : {"PENDING", "SENT", "DEAD"}, attempts : 0..MaxAttempts, ready : BOOLEAN, user : Users]

TypeOK ==
  /\ granted \in [Users -> Nat] /\ mdat \in [Users -> Nat] /\ given \in [Messages -> Nat]
  /\ outbox \in [Messages -> {Absent} \cup Queued]
  /\ relay \in [phase : {"idle", "next", "found", "read", "put", "failed"},
                batch : SUBSET Messages, msg : Messages \cup {None}, mdat : Nat]
  /\ sync \in [user : Users \cup {None}, target : Nat]
  /\ accidents \in 0..MaxAccidents /\ syncs \in 0..MaxSyncs

Of(u) == {m \in Messages : outbox[m] # Absent /\ outbox[m].user = u}

\* While none is under way, the personnel system has the days of the notices that were
\* sent, no more and no fewer, as long as no answer was lost and nobody reconciled
\* (ezpass-hr-leave.client: several notices for one user add up).
SentDaysArrived ==
  relay = Idle /\ accidents = 0 /\ syncs = 0 =>
    \A u \in Users : mdat[u] = Cardinality({m \in Of(u) : outbox[m].status = "SENT"})

\* A notice is given up only after MaxAttempts attempts, and the relay works only
\* on open notices (tick).
DeadOnlyAfterRetries ==
  /\ \A m \in Messages : outbox[m].status = "DEAD" => outbox[m].attempts = MaxAttempts
  /\ \A m \in relay.batch : outbox[m].status = "PENDING"
  /\ relay.msg # None => outbox[relay.msg].status = "PENDING" /\ relay.msg \notin relay.batch

\* The personnel system never has more days than we granted
\* (ezpass-hr-leave.client, reconcile-user-leave).
NeverAhead == \A u \in Users : mdat[u] <= granted[u]

\* Every notice that is queued is closed in the end, one that always fails included.
NoticesClose ==
  \A m \in Messages : outbox[m].status = "PENDING" ~> outbox[m].status \in {"SENT", "DEAD"}

\* How the status of a row is read as the state of a notice.
Reading(s) == CASE s = "ABSENT"  -> "none"
                [] s = "PENDING" -> "open"
                [] s = "SENT"    -> "sent"
                [] s = "DEAD"    -> "dead"

Notices == [m \in Messages |-> Reading(outbox[m].status)]

Notice == INSTANCE LeaveNotice WITH notice <- Notices, given <- given

\* The relay implements the at-least-once promise of LeaveNotice, whatever fails.
KeepsNoticePromise == Notice!Spec
=============================================================================
