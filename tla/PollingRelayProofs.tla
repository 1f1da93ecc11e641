-------------------------- MODULE PollingRelayProofs --------------------------
(***************************************************************************)
(* Proofs about PollingRelay and PublishBudget for every value of their    *)
(* constants: any number of relays and events, any settings, with and      *)
(* without metrics, with and without faults.                               *)
(***************************************************************************)
EXTENDS PublishBudget, FiniteSetTheorems, TLAPS

-----------------------------------------------------------------------------
(* What the relay computes from a row.                                     *)

LEMMA NewRowProperties ==
    ASSUME NEW t \in Nat
    PROVE  /\ NewRow(t) \in Row
           /\ NewRow(t).status = "pending"
           /\ WithinBudget(NewRow(t))
BY SettingsAssumption DEF NewRow, Row, Status, WithinBudget

LEMMA MarkPublishedProperties ==
    ASSUME NEW row \in Row, NEW t \in Nat
    PROVE  /\ MarkPublished(row, t) \in Row
           /\ MarkPublished(row, t).status = "published"
           /\ MarkPublished(row, t).retry_count = row.retry_count
           /\ MarkPublished(row, t).last_error = row.last_error
BY DEF MarkPublished, Row, Status

LEMMA RequeuedProperties ==
    ASSUME NEW row \in Row, NEW t \in Nat
    PROVE  /\ Requeued(row, t) \in Row
           /\ Requeued(row, t).status = "pending"
           /\ WithinBudget(Requeued(row, t))
<1>1. Requeued(row, t) \in Row
  BY DEF Requeued, Row, Status
<1>2. /\ Requeued(row, t).status = "pending"
      /\ Requeued(row, t).retry_count = 0
      /\ Requeued(row, t).last_error = "null"
  BY DEF Requeued, Row
<1> QED
  BY <1>1, <1>2, SettingsAssumption DEF WithinBudget

LEMMA CountFailureProperties ==
    ASSUME NEW row \in Row
    PROVE  /\ CountFailure(row) \in Row
           /\ CountFailure(row).retry_count = row.retry_count + 1
           /\ CountFailure(row).last_error = "error"
           /\ CountFailure(row).status = row.status
<1> DEFINE n == row.retry_count + 1
<1>1. n \in Nat
  BY DEF Row
<1>2. CountFailure(row) = [row EXCEPT !.retry_count = n, !.last_error = "error"]
  BY DEF CountFailure
<1> HIDE DEF n
<1>3. /\ CountFailure(row) \in Row
      /\ CountFailure(row).retry_count = n
      /\ CountFailure(row).last_error = "error"
      /\ CountFailure(row).status = row.status
  BY <1>1, <1>2 DEF Row, Status
<1> QED
  BY <1>3 DEF n

(* The except branch keeps the row's status or dead-letters it, and stays  *)
(* within the budget if the row had an attempt left.                       *)
LEMMA FailureProperties ==
    ASSUME NEW row \in Row, NEW t \in Nat,
           row.status # "failed", row.retry_count < MaxRetries,
           NEW failed \in FailureOutcomes(row, t)
    PROVE  /\ failed \in Row
           /\ failed.status \in {row.status, "failed"}
           /\ WithinBudget(failed)
<1> DEFINE counted == CountFailure(row)
<1>1. /\ counted \in Row
      /\ counted.retry_count = row.retry_count + 1
      /\ counted.last_error = "error"
      /\ counted.status = row.status
  BY CountFailureProperties
<1> HIDE DEF counted
<1>2. CASE counted.retry_count >= MaxRetries
  <2>1. failed = [counted EXCEPT !.status = "failed"]
    BY <1>2 DEF FailureOutcomes, counted
  <2>2. failed \in Row /\ failed.status = "failed"
        /\ failed.retry_count = counted.retry_count /\ failed.last_error = "error"
    BY <1>1, <2>1 DEF Row, Status
  <2>3. row.retry_count \in Nat
    BY DEF Row
  <2> QED
    BY <1>1, <1>2, <2>2, <2>3, SettingsAssumption DEF WithinBudget
<1>3. CASE ~(counted.retry_count >= MaxRetries)
  <2>1. counted.retry_count \in 1 .. (ExpOverflow - 1)
        /\ \E d \in Backoff[counted.retry_count] :
              failed = [counted EXCEPT !.scheduled_at = t + d]
    <3>1. row.retry_count \in Nat
      BY DEF Row
    <3> QED
      BY <1>1, <1>3, <3>1, SettingsAssumption
         DEF FailureOutcomes, BackoffDelays, counted
  <2>2. PICK d \in Nat : failed = [counted EXCEPT !.scheduled_at = t + d]
    BY <2>1, BackoffAssumption
  <2>3. failed \in Row /\ failed.status = row.status
        /\ failed.retry_count = counted.retry_count /\ failed.last_error = "error"
    BY <1>1, <2>2 DEF Row, Status
  <2>4. row.retry_count \in Nat
    BY DEF Row
  <2> QED
    BY <1>1, <1>3, <2>3, <2>4, SettingsAssumption DEF WithinBudget
<1> QED
  BY <1>2, <1>3

(* A failed attempt that _backoff can count leaves a row to write.         *)
LEMMA FailureHappens ==
    ASSUME MaxRetries <= ExpOverflow, NEW row \in Row, NEW t \in Nat,
           row.retry_count < MaxRetries
    PROVE  FailureOutcomes(row, t) # {}
<1> DEFINE n == CountFailure(row).retry_count
<1>1. n = row.retry_count + 1 /\ row.retry_count \in Nat
  BY CountFailureProperties DEF Row
<1>2. CASE n >= MaxRetries
  BY <1>2 DEF FailureOutcomes
<1>3. CASE ~(n >= MaxRetries)
  <2>1. n \in 1 .. (ExpOverflow - 1) /\ n < ExpOverflow
    BY <1>1, <1>3, SettingsAssumption
  <2>2. BackoffDelays(n) # {}
    BY <2>1, BackoffAssumption DEF BackoffDelays
  <2> QED
    BY <1>3, <2>2 DEF FailureOutcomes
<1> QED
  BY <1>2, <1>3

(* What JetStream holds after storing one more copy.                       *)
LEMMA AppendRange ==
    ASSUME NEW S, NEW s \in Seq(S), NEW e \in S
    PROVE  {Append(s, e)[i] : i \in 1 .. Len(Append(s, e))} =
           {s[i] : i \in 1 .. Len(s)} \union {e}
<1>1. Len(Append(s, e)) = Len(s) + 1 /\ Len(s) \in Nat
  OBVIOUS
<1>2. \A i \in 1 .. Len(s) : Append(s, e)[i] = s[i]
  OBVIOUS
<1>3. Append(s, e)[Len(s) + 1] = e
  OBVIOUS
<1>4. 1 .. (Len(s) + 1) = (1 .. Len(s)) \union {Len(s) + 1}
  BY <1>1
<1> QED
  BY <1>1, <1>2, <1>3, <1>4

-----------------------------------------------------------------------------
(* The pieces the steps of a relay are made of.                            *)

LEMMA InitInv == Init => Inv
<1> SUFFICES ASSUME Init PROVE Inv
  OBVIOUS
<1> USE DEF Init, NoCopies
<1>1. TypeOK
  BY NullAssumption DEF TypeOK, Phases
<1>2. Delivered = {}
  BY DEF Delivered
<1>3. LocksExclusive /\ CopiesCurrent
  BY DEF LocksExclusive, CopiesCurrent
<1>4. TableSound
  BY DEF TableSound
<1>5. \A r \in Relays : SessionSound(r)
  BY DEF SessionSound
<1>6. ServerSound
  BY <1>2 DEF ServerSound
<1> QED
  BY <1>1, <1>3, <1>4, <1>5, <1>6 DEF Inv

(* A message that arrives is held by JetStream afterwards.                 *)
LEMMA AcceptDelivers ==
    ASSUME Inv, NEW e \in staged, Accept(e)
    PROVE  /\ stream' \in Seq(Events)
           /\ dedup' \in [Events -> Nat \union {NoTime}]
           /\ Delivered' = Delivered \union {e}
           /\ \A f \in Events : dedup'[f] # NoTime => f \in Delivered'
<1>1. /\ stream \in Seq(Events) /\ e \in Events /\ now \in Nat
      /\ dedup \in [Events -> Nat \union {NoTime}]
      /\ \A f \in Events : dedup[f] # NoTime => f \in Delivered
  BY DEF Inv, TypeOK, ServerSound
<1>2. CASE IsDuplicate(e)
  <2>1. UNCHANGED <<stream, dedup>>
    BY <1>2 DEF Accept
  <2>2. Delivered' = Delivered
    BY <2>1 DEF Delivered
  <2>3. e \in Delivered
    BY <1>1, <1>2 DEF IsDuplicate
  <2> QED
    BY <1>1, <2>1, <2>2, <2>3
<1>3. CASE ~IsDuplicate(e)
  <2>1. stream' = Append(stream, e) /\ dedup' = [dedup EXCEPT ![e] = now]
    BY <1>3 DEF Accept
  <2>2. Delivered' = Delivered \union {e}
    BY <1>1, <2>1, AppendRange DEF Delivered
  <2> QED
    BY <1>1, <2>1, <2>2
<1> QED
  BY <1>2, <1>3

(* The transaction ends without a commit.                                  *)
LEMMA EndSessionKeepsInv ==
    ASSUME Inv, NEW r \in Relays, NEW p \in {"idle", "down"}, EndSession(r, p),
           UNCHANGED <<now, staged, rows, stream, dedup>>,
           late' \subseteq staged, faults' \in Nat
    PROVE  Inv'
<1> USE DEF Inv
<1>1. Delivered' = Delivered
  BY DEF Delivered
<1>2. TypeOK'
  BY DEF TypeOK, EndSession, NoCopies, Phases
<1>3. LocksExclusive'
  BY DEF LocksExclusive, EndSession, TypeOK
<1>4. CopiesCurrent'
  BY DEF CopiesCurrent, EndSession, TypeOK
<1>5. TableSound'
  BY <1>1 DEF TableSound, RowSound
<1>6. ASSUME NEW s \in Relays PROVE SessionSound(s)'
  <2>1. CASE s = r
    BY <2>1 DEF SessionSound, EndSession, TypeOK, NoCopies
  <2>2. CASE s # r
    BY <1>1, <2>2 DEF SessionSound, RowSound, EndSession, TypeOK
  <2> QED
    BY <2>1, <2>2
<1>7. ServerSound'
  BY <1>1 DEF ServerSound
<1> QED
  BY <1>2, <1>3, <1>4, <1>5, <1>6, <1>7

(* _process_event returns, leaving a sound row behind.                     *)
LEMMA ProcessedKeepsInv ==
    ASSUME Inv, NEW r \in Relays, phase[r] = "tick", cur[r] # NoEvent,
           NEW row \in Row, RowSound(cur[r], row), Processed(r, row),
           UNCHANGED <<now, staged, rows, stream, dedup, faults>>,
           late' \subseteq staged
    PROVE  Inv'
<1> USE DEF Inv
<1>1. Delivered' = Delivered
  BY DEF Delivered
<1>2. /\ cur[r] \in Events /\ cur[r] \in todo[r]
      /\ row # NoRow
  BY NullAssumption DEF TypeOK, SessionSound
<1>3. TypeOK'
  BY <1>2 DEF TypeOK, Processed
<1>4. LocksExclusive'
  BY DEF LocksExclusive, Processed
<1>5. CopiesCurrent'
  BY <1>2 DEF CopiesCurrent, Processed, TypeOK
<1>6. TableSound'
  BY <1>1 DEF TableSound, RowSound
<1>7. ASSUME NEW s \in Relays PROVE SessionSound(s)'
  <2>1. CASE s = r
    BY <1>1, <1>2, <2>1 DEF SessionSound, RowSound, Processed, TypeOK
  <2>2. CASE s # r
    BY <1>1, <2>2 DEF SessionSound, RowSound, Processed, TypeOK
  <2> QED
    BY <2>1, <2>2
<1>8. ServerSound'
  BY <1>1 DEF ServerSound
<1> QED
  BY <1>3, <1>4, <1>5, <1>6, <1>7, <1>8

(* The except branch, entered with a row that had an attempt left.         *)
LEMMA RecordFailureKeepsInv ==
    ASSUME Inv, NEW r \in Relays, phase[r] = "tick", cur[r] # NoEvent,
           NEW row \in Row, row.status # "failed", row.retry_count < MaxRetries,
           row.status = "published" => cur[r] \in Delivered,
           RecordFailure(r, row),
           UNCHANGED <<now, staged, rows, stream, dedup, faults>>,
           late' \subseteq staged
    PROVE  Inv'
<1>1. CASE \E failed \in FailureOutcomes(row, now) : Processed(r, failed)
  <2>1. PICK failed \in FailureOutcomes(row, now) : Processed(r, failed)
    BY <1>1
  <2>2. now \in Nat
    BY DEF Inv, TypeOK
  <2>3. failed \in Row /\ RowSound(cur[r], failed)
    BY <2>2, FailureProperties DEF RowSound
  <2> QED
    BY <2>1, <2>3, ProcessedKeepsInv
<1>2. CASE EndSession(r, "idle")
  <2>1. faults' \in Nat
    BY DEF Inv, TypeOK
  <2> QED
    BY <1>2, <2>1, EndSessionKeepsInv
<1> QED
  BY <1>1, <1>2 DEF RecordFailure

(* The row a relay is publishing is a pending one with an attempt left.    *)
LEMMA CurrentRow ==
    ASSUME Inv, NEW r \in Relays, cur[r] # NoEvent
    PROVE  /\ cur[r] \in staged /\ cur[r] \in Events
           /\ work[r][cur[r]] \in Row
           /\ work[r][cur[r]].status = "pending"
           /\ WithinBudget(work[r][cur[r]])
BY DEF Inv, TypeOK, SessionSound, RowSound

-----------------------------------------------------------------------------
(* The steps.                                                              *)

LEMMA StageKeepsInv ==
    ASSUME Inv, NEW e \in Events, Stage(e)
    PROVE  Inv'
<1> USE DEF Inv
<1>1. PICK o \in StageOffsets :
         now + o >= 0 /\ rows' = [rows EXCEPT ![e] = NewRow(now + o)]
  BY DEF Stage
<1>2. now + o \in Nat
  BY <1>1, RelayAssumption DEF TypeOK
<1>3. /\ NewRow(now + o) \in Row
      /\ NewRow(now + o) # NoRow
      /\ NewRow(now + o).status = "pending"
      /\ WithinBudget(NewRow(now + o))
  BY <1>2, NewRowProperties, NullAssumption
<1>4. e \notin staged /\ rows[e] = NoRow
  BY DEF Stage, TableSound
<1>5. Delivered' = Delivered
  BY DEF Delivered, Stage, server
<1>6. TypeOK'
  BY <1>1, <1>3 DEF TypeOK, Stage, session, server
<1>7. LocksExclusive'
  BY <1>1, <1>4 DEF LocksExclusive, Stage, session, TypeOK
<1>8. CopiesCurrent'
  BY <1>1, <1>4 DEF CopiesCurrent, LocksExclusive, Stage, session, TypeOK
<1>9. TableSound'
  BY <1>1, <1>3, <1>5 DEF TableSound, RowSound, Stage, TypeOK
<1>10. \A s \in Relays : SessionSound(s)'
  BY <1>5 DEF SessionSound, RowSound, Stage, session
<1>11. ServerSound'
  BY <1>5 DEF ServerSound, Stage, server
<1> QED
  BY <1>6, <1>7, <1>8, <1>9, <1>10, <1>11

LEMMA FetchKeepsInv ==
    ASSUME Inv, NEW r \in Relays, Fetch(r)
    PROVE  Inv'
<1> USE DEF Inv
<1>1. PICK S \in SUBSET Available :
         /\ held' = [held EXCEPT ![r] = S]
         /\ todo' = [todo EXCEPT ![r] = S]
         /\ work' = [work EXCEPT ![r] =
                        [e \in Events |-> IF e \in S THEN rows[e] ELSE NoRow]]
  BY DEF Fetch
<1>2. \A e \in S : /\ e \in Events /\ e \in staged
                   /\ rows[e] # NoRow /\ rows[e].status = "pending"
                   /\ \A s \in Relays : e \notin held[s]
  <2>1. \A e \in S : e \in Events \ Locked /\ rows[e] # NoRow
                                       /\ IsDue(rows[e], now)
    BY DEF Available
  <2>2. \A e \in S, s \in Relays : e \notin held[s]
    BY <2>1 DEF Locked
  <2> QED
    BY <2>1, <2>2 DEF IsDue, TableSound
<1>3. Delivered' = Delivered
  BY DEF Delivered, Fetch, server
<1>4. TypeOK'
  BY <1>1, <1>2 DEF TypeOK, Fetch, Phases, server
<1>5. LocksExclusive'
  BY <1>1, <1>2 DEF LocksExclusive, Fetch, TypeOK
<1>6. CopiesCurrent'
  BY <1>1, <1>2 DEF CopiesCurrent, Fetch, TypeOK
<1>7. TableSound'
  BY <1>3 DEF TableSound, RowSound, Fetch
<1>8. ASSUME NEW s \in Relays PROVE SessionSound(s)'
  <2>1. CASE s = r
    <3>1. cur[r] = NoEvent /\ wire[r] = "none"
      BY DEF Fetch, SessionSound, TypeOK
    <3>2. work'[r] = [e \in Events |-> IF e \in S THEN rows[e] ELSE NoRow]
      BY <1>1 DEF TypeOK
    <3> QED
      BY <1>1, <1>2, <1>3, <2>1, <3>1, <3>2
         DEF SessionSound, TableSound, RowSound, Fetch, TypeOK
  <2>2. CASE s # r
    BY <1>1, <1>3, <2>2 DEF SessionSound, RowSound, Fetch, TypeOK
  <2> QED
    BY <2>1, <2>2
<1>9. ServerSound'
  BY <1>3 DEF ServerSound, Fetch, server
<1> QED
  BY <1>4, <1>5, <1>6, <1>7, <1>8, <1>9

LEMMA PublishKeepsInv ==
    ASSUME Inv, NEW r \in Relays, Publish(r)
    PROVE  Inv'
<1> USE DEF Inv
<1>1. PICK e \in todo[r] : cur' = [cur EXCEPT ![r] = e]
  BY DEF Publish
<1>2. e \in Events /\ e # NoEvent
  BY RelayAssumption DEF TypeOK
<1>3. Delivered' = Delivered
  BY DEF Delivered, Publish, server
<1>4. TypeOK'
  BY <1>1, <1>2 DEF TypeOK, Publish, server
<1>5. LocksExclusive' /\ CopiesCurrent'
  BY DEF LocksExclusive, CopiesCurrent, Publish
<1>6. TableSound'
  BY <1>3 DEF TableSound, RowSound, Publish
<1>7. \A s \in Relays : SessionSound(s)'
  BY <1>1, <1>2, <1>3 DEF SessionSound, RowSound, Publish, TypeOK
<1>8. ServerSound'
  BY <1>3 DEF ServerSound, Publish, server
<1> QED
  BY <1>4, <1>5, <1>6, <1>7, <1>8

LEMMA PublishOkKeepsInv ==
    ASSUME Inv, NEW r \in Relays, PublishOk(r)
    PROVE  Inv'
<1> DEFINE row == MarkPublished(work[r][cur[r]], now)
<1>1. cur[r] # NoEvent /\ cur[r] \in Delivered /\ now \in Nat
  BY DEF Inv, SessionSound, PublishOk, TypeOK
<1>2. /\ row \in Row
      /\ row.status = "published"
      /\ row.retry_count < MaxRetries
      /\ WithinBudget(row)
  BY <1>1, CurrentRow, MarkPublishedProperties DEF WithinBudget
<1>3. phase[r] = "tick" /\ UNCHANGED <<now, staged, rows, late, stream, dedup, faults>>
  BY DEF PublishOk, server
<1>4. late' \subseteq staged
  BY <1>3 DEF Inv, ServerSound
<1>5. CASE Metrics
  <2>1. RecordFailure(r, row)
    BY <1>5 DEF PublishOk
  <2> HIDE DEF row
  <2> QED
    BY <1>1, <1>2, <1>3, <1>4, <2>1, RecordFailureKeepsInv
<1>6. CASE ~Metrics
  <2>1. Processed(r, row)
    BY <1>6 DEF PublishOk
  <2>2. RowSound(cur[r], row)
    BY <1>1, <1>2 DEF RowSound
  <2> HIDE DEF row
  <2> QED
    BY <1>1, <1>2, <1>3, <1>4, <2>1, <2>2, ProcessedKeepsInv
<1> QED
  BY <1>5, <1>6

(* A message left in transit belongs to a committed event.                 *)
LEMMA OrphanStaged ==
    ASSUME Inv, NEW r \in Relays,
           late' = late \union (IF wire[r] = "sent" THEN {cur[r]} \ NoStream ELSE {})
    PROVE  late' \subseteq staged
<1>1. wire[r] = "sent" => cur[r] \in staged
  BY CurrentRow DEF Inv, SessionSound
<1> QED
  BY <1>1 DEF Inv, ServerSound

LEMMA PublishErrKeepsInv ==
    ASSUME Inv, NEW r \in Relays, PublishErr(r)
    PROVE  Inv'
<1>1. /\ work[r][cur[r]] \in Row
      /\ work[r][cur[r]].status = "pending"
      /\ work[r][cur[r]].retry_count < MaxRetries
  BY CurrentRow DEF PublishErr, WithinBudget
<1>2. late' \subseteq staged
  BY OrphanStaged DEF PublishErr
<1>3. /\ phase[r] = "tick" /\ cur[r] # NoEvent
      /\ RecordFailure(r, work[r][cur[r]])
      /\ UNCHANGED <<now, staged, rows, stream, dedup, faults>>
  BY DEF PublishErr
<1> QED
  BY <1>1, <1>2, <1>3, RecordFailureKeepsInv

LEMMA UpdatePendingGaugeKeepsInv ==
    ASSUME Inv, NEW r \in Relays, UpdatePendingGauge(r)
    PROVE  Inv'
<1> USE DEF Inv
<1>1. PICK p \in {"commit", "doomed"} : phase' = [phase EXCEPT ![r] = p]
  BY DEF UpdatePendingGauge
<1>2. faults' \in Nat
  BY DEF UpdatePendingGauge, TypeOK
<1>3. UNCHANGED <<now, staged, rows, held, todo, work, cur, wire, late, stream, dedup>>
  BY DEF UpdatePendingGauge, server
<1>4. Delivered' = Delivered
  BY <1>3 DEF Delivered
<1>5. TypeOK'
  BY <1>1, <1>2, <1>3 DEF TypeOK, Phases
<1>6. LocksExclusive' /\ CopiesCurrent'
  BY <1>3 DEF LocksExclusive, CopiesCurrent
<1>7. TableSound' /\ ServerSound'
  BY <1>3, <1>4 DEF TableSound, RowSound, ServerSound
<1>8. \A s \in Relays : SessionSound(s)'
  BY <1>1, <1>3, <1>4 DEF SessionSound, RowSound, TypeOK
<1> QED
  BY <1>5, <1>6, <1>7, <1>8

(* Only the rows the relay holds change, and no other relay holds them.    *)
LEMMA CommitKeepsInv ==
    ASSUME Inv, NEW r \in Relays, Commit(r)
    PROVE  Inv'
<1> USE DEF Inv
<1>1. /\ rows' = [e \in Events |-> IF e \in held[r] THEN work[r][e] ELSE rows[e]]
      /\ EndSession(r, "idle")
      /\ UNCHANGED <<now, staged, late, stream, dedup, faults>>
  BY DEF Commit, server
<1>2. Delivered' = Delivered
  BY <1>1 DEF Delivered
<1>3. TypeOK'
  BY <1>1 DEF TypeOK, EndSession, NoCopies, Phases
<1>4. \A s \in Relays : \A e \in held'[s] : s # r /\ e \in held[s] /\ e \notin held[r]
  BY <1>1 DEF EndSession, LocksExclusive, TypeOK
<1>5. \A s \in Relays : \A e \in held'[s] : rows'[e] = rows[e]
  BY <1>1, <1>4 DEF TypeOK
<1>6. LocksExclusive'
  BY <1>4, <1>5 DEF LocksExclusive
<1>7. CopiesCurrent'
  BY <1>1, <1>4, <1>5 DEF CopiesCurrent, EndSession, TypeOK
<1>8. TableSound'
  BY <1>1, <1>2 DEF TableSound, RowSound, SessionSound, LocksExclusive, TypeOK
<1>9. ASSUME NEW s \in Relays PROVE SessionSound(s)'
  <2>1. CASE s = r
    BY <1>1, <2>1 DEF SessionSound, EndSession, TypeOK, NoCopies
  <2>2. CASE s # r
    BY <1>1, <1>2, <2>2 DEF SessionSound, RowSound, EndSession, TypeOK
  <2> QED
    BY <2>1, <2>2
<1>10. ServerSound'
  BY <1>1, <1>2 DEF ServerSound
<1> QED
  BY <1>3, <1>6, <1>7, <1>8, <1>9, <1>10

LEMMA RollbackKeepsInv ==
    ASSUME Inv, NEW r \in Relays, Rollback(r)
    PROVE  Inv'
<1>1. /\ EndSession(r, "idle")
      /\ UNCHANGED <<now, staged, rows, late, stream, dedup, faults>>
  BY DEF Rollback, server
<1>2. late' \subseteq staged /\ faults' \in Nat
  BY <1>1 DEF Inv, ServerSound, TypeOK
<1> QED
  BY <1>1, <1>2, EndSessionKeepsInv

LEMMA DisconnectKeepsInv ==
    ASSUME Inv, NEW r \in Relays, Disconnect(r)
    PROVE  Inv'
<1> USE DEF Inv
<1>1. /\ held' = [held EXCEPT ![r] = {}]
      /\ UNCHANGED <<now, staged, rows, phase, todo, work, cur, wire,
                     late, stream, dedup>>
  BY DEF Disconnect, server
<1>2. Delivered' = Delivered
  BY <1>1 DEF Delivered
<1>3. TypeOK'
  BY <1>1 DEF TypeOK, Disconnect
<1>4. LocksExclusive' /\ CopiesCurrent'
  BY <1>1 DEF LocksExclusive, CopiesCurrent, TypeOK
<1>5. TableSound' /\ ServerSound'
  BY <1>1, <1>2 DEF TableSound, RowSound, ServerSound
<1>6. \A s \in Relays : SessionSound(s)'
  BY <1>1, <1>2 DEF SessionSound, RowSound, TypeOK
<1> QED
  BY <1>3, <1>4, <1>5, <1>6

LEMMA AbortKeepsInv ==
    ASSUME Inv, NEW r \in Relays, Abort(r)
    PROVE  Inv'
<1>1. late' \subseteq staged
  BY OrphanStaged DEF Abort
<1>2. faults' \in Nat
  BY DEF Inv, TypeOK, Abort
<1> QED
  BY <1>1, <1>2, EndSessionKeepsInv DEF Abort

LEMMA StartKeepsInv ==
    ASSUME Inv, NEW r \in Relays, Start(r)
    PROVE  Inv'
<1> USE DEF Inv
<1>1. /\ phase[r] = "down" /\ phase' = [phase EXCEPT ![r] = "idle"]
      /\ UNCHANGED <<now, staged, rows, held, todo, work, cur, wire,
                     late, stream, dedup, faults>>
  BY DEF Start, server
<1>2. Delivered' = Delivered
  BY <1>1 DEF Delivered
<1>3. TypeOK'
  BY <1>1 DEF TypeOK, Phases
<1>4. LocksExclusive' /\ CopiesCurrent'
  BY <1>1 DEF LocksExclusive, CopiesCurrent
<1>5. TableSound' /\ ServerSound'
  BY <1>1, <1>2 DEF TableSound, RowSound, ServerSound
<1>6. \A s \in Relays : SessionSound(s)'
  BY <1>1, <1>2 DEF SessionSound, RowSound, TypeOK
<1> QED
  BY <1>3, <1>4, <1>5, <1>6

LEMMA StoreKeepsInv ==
    ASSUME Inv, NEW r \in Relays, Store(r)
    PROVE  Inv'
<1> USE DEF Inv
<1>1. /\ Accept(cur[r])
      /\ wire' = [wire EXCEPT ![r] = "acked"]
      /\ UNCHANGED <<now, staged, rows, held, phase, todo, work, cur, late, faults>>
  BY DEF Store
<1>2. cur[r] # NoEvent /\ cur[r] \in staged
  BY CurrentRow DEF Store, SessionSound
<1>3. /\ stream' \in Seq(Events)
      /\ dedup' \in [Events -> Nat \union {NoTime}]
      /\ Delivered' = Delivered \union {cur[r]}
      /\ \A f \in Events : dedup'[f] # NoTime => f \in Delivered'
  BY <1>1, <1>2, AcceptDelivers
<1>4. TypeOK'
  BY <1>1, <1>3 DEF TypeOK
<1>5. LocksExclusive' /\ CopiesCurrent'
  BY <1>1 DEF LocksExclusive, CopiesCurrent
<1>6. TableSound' /\ ServerSound'
  BY <1>1, <1>2, <1>3 DEF TableSound, RowSound, ServerSound
<1>7. \A s \in Relays : SessionSound(s)'
  BY <1>1, <1>2, <1>3 DEF SessionSound, RowSound, TypeOK
<1> QED
  BY <1>4, <1>5, <1>6, <1>7

LEMMA LateKeepsInv ==
    ASSUME Inv, NEW e \in Events, StoreLate(e) \/ LoseLate(e)
    PROVE  Inv'
<1> USE DEF Inv
<1>1. /\ e \in late /\ e \in staged /\ late' = late \ {e}
      /\ UNCHANGED <<now, staged, rows, held, phase, todo, work, cur, wire, faults>>
  BY DEF StoreLate, LoseLate, session, ServerSound
<1>2. /\ stream' \in Seq(Events)
      /\ dedup' \in [Events -> Nat \union {NoTime}]
      /\ Delivered \subseteq Delivered' /\ Delivered' \subseteq Delivered \union {e}
      /\ \A f \in Events : dedup'[f] # NoTime => f \in Delivered'
  <2>1. CASE StoreLate(e)
    BY <1>1, <2>1, AcceptDelivers DEF StoreLate
  <2>2. CASE LoseLate(e)
    <3>1. Delivered' = Delivered
      BY <2>2 DEF LoseLate, Delivered
    <3> QED
      BY <2>2, <3>1 DEF LoseLate, TypeOK, ServerSound
  <2> QED
    BY <2>1, <2>2
<1>3. TypeOK'
  BY <1>1, <1>2 DEF TypeOK
<1>4. LocksExclusive' /\ CopiesCurrent'
  BY <1>1 DEF LocksExclusive, CopiesCurrent
<1>5. TableSound' /\ ServerSound'
  BY <1>1, <1>2 DEF TableSound, RowSound, ServerSound
<1>6. \A s \in Relays : SessionSound(s)'
  BY <1>1, <1>2 DEF SessionSound, RowSound
<1> QED
  BY <1>3, <1>4, <1>5, <1>6

LEMMA RunCleanupKeepsInv ==
    ASSUME Inv, RunCleanup
    PROVE  Inv'
<1> USE DEF Inv
<1>1. /\ rows' = [e \in Events |-> IF e \in Expired THEN NoRow ELSE rows[e]]
      /\ UNCHANGED <<now, staged, held, phase, todo, work, cur, wire,
                     late, stream, dedup, faults>>
  BY DEF RunCleanup, session, server
<1>2. \A e \in Expired : rows[e] # NoRow /\ rows[e].status = "published"
  BY DEF Expired, IsExpired
<1>3. Delivered' = Delivered
  BY <1>1 DEF Delivered
<1>4. TypeOK'
  BY <1>1 DEF TypeOK
<1>5. \A r \in Relays : \A e \in held[r] : rows'[e] = rows[e]
  BY <1>1, <1>2 DEF LocksExclusive, TypeOK
<1>6. LocksExclusive' /\ CopiesCurrent'
  BY <1>1, <1>5 DEF LocksExclusive, CopiesCurrent
<1>7. TableSound' /\ ServerSound'
  BY <1>1, <1>2, <1>3 DEF TableSound, RowSound, ServerSound
<1>8. \A s \in Relays : SessionSound(s)'
  BY <1>1, <1>3 DEF SessionSound, RowSound
<1> QED
  BY <1>4, <1>6, <1>7, <1>8

LEMMA RequeueKeepsInv ==
    ASSUME Inv, Requeue
    PROVE  Inv'
<1> USE DEF Inv
<1>1. PICK S \in {Failed} \union {{e} : e \in Failed} :
         rows' = [e \in Events |-> IF e \in S THEN Requeued(rows[e], now)
                                              ELSE rows[e]]
  BY DEF Requeue
<1>2. UNCHANGED <<now, staged, held, phase, todo, work, cur, wire,
                  late, stream, dedup, faults>>
  BY DEF Requeue, session, server
<1>3. \A e \in S : /\ e \in Events /\ rows[e] # NoRow
                   /\ rows[e] \in Row /\ rows[e].status = "failed"
  BY <1>1 DEF Failed, TypeOK
<1>4. \A e \in S : /\ rows'[e] \in Row /\ rows'[e] # NoRow
                   /\ rows'[e].status = "pending"
                   /\ WithinBudget(rows'[e])
  BY <1>1, <1>3, RequeuedProperties, NullAssumption DEF TypeOK
<1>5. \A e \in Events \ S : rows'[e] = rows[e]
  BY <1>1
<1>6. Delivered' = Delivered
  BY <1>2 DEF Delivered
<1>7. TypeOK'
  BY <1>1, <1>2, <1>4, <1>5 DEF TypeOK
<1>8. \A r \in Relays : \A e \in held[r] : rows'[e] = rows[e]
  BY <1>3, <1>5 DEF LocksExclusive, TypeOK
<1>9. LocksExclusive' /\ CopiesCurrent'
  BY <1>2, <1>8 DEF LocksExclusive, CopiesCurrent
<1>10. TableSound' /\ ServerSound'
  BY <1>2, <1>3, <1>4, <1>5, <1>6 DEF TableSound, RowSound, ServerSound, WithinBudget
<1>11. \A s \in Relays : SessionSound(s)'
  BY <1>2, <1>6 DEF SessionSound, RowSound
<1> QED
  BY <1>7, <1>9, <1>10, <1>11

(* Neither the clock nor an empty tick touches what the invariant is about.*)
LEMMA QuietKeepsInv ==
    ASSUME Inv, now' \in Nat,
           UNCHANGED <<staged, rows, held, phase, todo, work, cur, wire,
                       late, stream, dedup, faults>>
    PROVE  Inv'
<1>1. Delivered' = Delivered
  BY DEF Delivered
<1> QED
  BY <1>1 DEF Inv, TypeOK, LocksExclusive, CopiesCurrent, TableSound,
              RowSound, SessionSound, ServerSound

LEMMA NextKeepsInv == Inv /\ [Next]_vars => Inv'
<1> SUFFICES ASSUME Inv, [Next]_vars PROVE Inv'
  OBVIOUS
<1>1. ASSUME NEW e \in Events, Stage(e) \/ StoreLate(e) \/ LoseLate(e)
      PROVE  Inv'
  BY <1>1, StageKeepsInv, LateKeepsInv
<1>2. ASSUME NEW r \in Relays, RelayStep(r)
      PROVE  Inv'
  BY <1>2, FetchKeepsInv, PublishKeepsInv, StoreKeepsInv, PublishOkKeepsInv,
     PublishErrKeepsInv, UpdatePendingGaugeKeepsInv, CommitKeepsInv,
     RollbackKeepsInv DEF RelayStep
<1>3. ASSUME NEW r \in Relays, Disconnect(r) \/ Abort(r) \/ Start(r)
      PROVE  Inv'
  BY <1>3, DisconnectKeepsInv, AbortKeepsInv, StartKeepsInv
<1>4. ASSUME RunCleanup \/ Requeue PROVE Inv'
  BY <1>4, RunCleanupKeepsInv, RequeueKeepsInv
<1>5. CASE AdvanceTime
  <2>1. now' \in Nat
    BY <1>5 DEF AdvanceTime, Inv, TypeOK
  <2> QED
    BY <1>5, <2>1, QuietKeepsInv DEF AdvanceTime, session, server
<1>6. CASE UNCHANGED vars
  <2>1. now' \in Nat
    BY <1>6 DEF vars, Inv, TypeOK
  <2> QED
    BY <1>6, <2>1, QuietKeepsInv DEF vars, session, server
<1> QED
  BY <1>1, <1>2, <1>3, <1>4, <1>5, <1>6 DEF Next, EmptyTick

-----------------------------------------------------------------------------
(* The theorems.                                                           *)

(* The inductive invariant holds in every reachable state of any number of *)
(* relays, with whatever faults.                                           *)
THEOREM Invariance == Spec => []Inv
<1>1. Init => Inv
  BY InitInv
<1>2. Inv /\ [Next]_vars => Inv'
  BY NextKeepsInv
<1> QED
  BY <1>1, <1>2, PTL DEF Spec

(* Every variable stays within its type.                                   *)
THEOREM TypeCorrectness == Spec => []TypeOK
<1>1. Inv => TypeOK
  BY DEF Inv
<1> QED
  BY <1>1, Invariance, PTL

(* FOR UPDATE SKIP LOCKED keeps relays, requeue and cleanup apart.         *)
THEOREM MutualExclusion == Spec => []LocksExclusive
<1>1. Inv => LocksExclusive
  BY DEF Inv
<1> QED
  BY <1>1, Invariance, PTL

(* A relay that holds a row's lock decides on the row as it is.            *)
THEOREM FreshCopies == Spec => []CopiesCurrent
<1>1. Inv => CopiesCurrent
  BY DEF Inv
<1> QED
  BY <1>1, Invariance, PTL

(* No committed event is lost: it waits in the table or JetStream has it.  *)
THEOREM AtLeastOnceDelivery == Spec => []NothingLost
<1>1. Inv => NothingLost
  BY DEF Inv, TypeOK, TableSound, RowSound, ServerSound, NothingLost, Row, Status
<1> QED
  BY <1>1, Invariance, PTL

(* No event is tried more often than max_retries between two requeues.     *)
THEOREM BoundedRetries == Spec => []RetryBudget
<1>1. Inv => RetryBudget
  BY DEF Inv, TableSound, RowSound, RetryBudget
<1> QED
  BY <1>1, Invariance, PTL

-----------------------------------------------------------------------------
(* PollingRelay implements OutboxDelivery.                                 *)

LEMMA DeliveryInit == Init => Delivery!Init
<1> SUFFICES ASSUME Init PROVE Delivery!Init
  OBVIOUS
<1>1. Delivered = {}
  BY DEF Init, Delivered
<1> QED
  BY <1>1 DEF Init, NoCopies, Life, Delivery!Init

(* A step that leaves the table and the stream alone is a stutter.         *)
LEMMA Stutter ==
    ASSUME UNCHANGED <<rows, staged, stream>>
    PROVE  UNCHANGED Delivery!vars
BY DEF Delivery!vars, Life, Delivered

LEMMA StageRefines ==
    ASSUME Inv, NEW e \in Events, Stage(e)
    PROVE  Delivery!Stage(e)
<1>1. PICK o \in StageOffsets :
         now + o >= 0 /\ rows' = [rows EXCEPT ![e] = NewRow(now + o)]
  BY DEF Stage
<1>2. now + o \in Nat
  BY <1>1, RelayAssumption DEF Inv, TypeOK
<1>3. NewRow(now + o) # NoRow /\ NewRow(now + o).status = "pending"
  BY <1>2, NewRowProperties, NullAssumption
<1>4. e \notin staged /\ rows[e] = NoRow /\ staged' = staged \union {e}
  BY DEF Stage, Inv, TableSound
<1>5. Delivered' = Delivered
  BY DEF Delivered, Stage, server
<1> QED
  BY <1>1, <1>3, <1>4, <1>5
     DEF Delivery!Stage, Delivery!Move, Life, Inv, TypeOK

LEMMA DeliverRefines ==
    ASSUME Inv, NEW e \in staged, UNCHANGED <<rows, staged>>,
           Delivered' = Delivered \union {e}
    PROVE  Delivery!Deliver(e)
<1>1. e \in Events /\ Life(e) # "absent"
  BY DEF Inv, TypeOK, Life, Row, Status
<1> QED
  BY <1>1 DEF Delivery!Deliver, Life

(* A commit settles the rows it marks published, all of them delivered,    *)
(* and dead-letters others; the rest of the batch stays pending.           *)
LEMMA CommitRefines ==
    ASSUME Inv, NEW r \in Relays, Commit(r)
    PROVE  \E P, F \in SUBSET Events : Delivery!Settle(P, F)
<1> DEFINE P == {e \in held[r] : work[r][e].status = "published"}
           F == {e \in held[r] : work[r][e].status = "failed"}
<1>1. /\ rows' = [e \in Events |-> IF e \in held[r] THEN work[r][e] ELSE rows[e]]
      /\ UNCHANGED <<staged, stream>>
  BY DEF Commit, server
<1>2. \A e \in held[r] : /\ e \in Events
                         /\ rows[e] # NoRow /\ rows[e].status = "pending"
                         /\ work[r][e] # NoRow /\ work[r][e] \in Row
  BY DEF Inv, TypeOK, LocksExclusive, SessionSound
<1>3. \A e \in held[r] : work[r][e].status \in Status
  BY <1>2 DEF Row
<1>4. P \subseteq Delivered
  BY <1>2 DEF Inv, SessionSound, RowSound
<1>5. Delivered' = Delivered
  BY <1>1 DEF Delivered
<1>6. \A e \in held[r] : Life(e) = "pending" /\ Life(e)' = work[r][e].status
  BY <1>1, <1>2 DEF Life
<1>7. \A e \in Events \ held[r] : Life(e)' = Life(e)
  BY <1>1 DEF Life
<1>8. P \in SUBSET Events /\ F \in SUBSET Events /\ P \intersect F = {}
  BY <1>2
<1>9. \A e \in Events : Life(e)' = IF e \in P THEN "published"
                                   ELSE IF e \in F THEN "failed" ELSE Life(e)
  BY <1>3, <1>6, <1>7 DEF Status
<1>10. \A e \in P \union F : e \in Events /\ Life(e) = "pending"
  BY <1>2, <1>6
<1> HIDE DEF P, F
<1>11. Delivery!Settle(P, F)
  BY <1>4, <1>5, <1>8, <1>9, <1>10 DEF Delivery!Settle, Delivery!InState
<1> QED
  BY <1>8, <1>11

LEMMA CleanupRefines ==
    ASSUME Inv, RunCleanup
    PROVE  \E S \in SUBSET Events : Delivery!Purge(S)
<1>1. /\ rows' = [e \in Events |-> IF e \in Expired THEN NoRow ELSE rows[e]]
      /\ UNCHANGED <<staged, stream>>
  BY DEF RunCleanup, session, server
<1>2. \A e \in Expired : /\ e \in Events /\ rows[e] # NoRow
                         /\ rows[e].status = "published" /\ e \in staged
  BY DEF Expired, IsExpired, Inv, TableSound
<1>3. Delivered' = Delivered
  BY <1>1 DEF Delivered
<1>4. Delivery!Purge(Expired)
  BY <1>1, <1>2, <1>3
     DEF Delivery!Purge, Delivery!InState, Delivery!Move, Life
<1> QED
  BY <1>2, <1>4

LEMMA RequeueRefines ==
    ASSUME Inv, Requeue
    PROVE  \E S \in SUBSET Events : Delivery!Requeue(S)
<1>1. PICK S \in {Failed} \union {{e} : e \in Failed} :
         rows' = [e \in Events |-> IF e \in S THEN Requeued(rows[e], now)
                                              ELSE rows[e]]
  BY DEF Requeue
<1>2. UNCHANGED <<staged, stream>>
  BY DEF Requeue, session, server
<1>3. now \in Nat /\ \A e \in S : /\ e \in Events /\ rows[e] # NoRow
                                  /\ rows[e] \in Row /\ rows[e].status = "failed"
  BY <1>1 DEF Failed, Inv, TypeOK
<1>4. \A e \in S : rows'[e] # NoRow /\ rows'[e].status = "pending"
  BY <1>1, <1>3, RequeuedProperties, NullAssumption
<1>5. \A e \in Events \ S : rows'[e] = rows[e]
  BY <1>1
<1>6. Delivered' = Delivered
  BY <1>2 DEF Delivered
<1>7. Delivery!Requeue(S)
  BY <1>2, <1>3, <1>4, <1>5, <1>6
     DEF Delivery!Requeue, Delivery!InState, Delivery!Move, Life
<1> QED
  BY <1>3, <1>7

LEMMA NextRefines == Inv /\ [Next]_vars => [Delivery!Next]_(Delivery!vars)
<1> SUFFICES ASSUME Inv, [Next]_vars
             PROVE  Delivery!Next \/ UNCHANGED Delivery!vars
  OBVIOUS
<1>1. ASSUME NEW e \in Events, Stage(e) PROVE Delivery!Next
  BY <1>1, StageRefines DEF Delivery!Next
<1>2. ASSUME NEW e \in Events, StoreLate(e) PROVE Delivery!Next
  <2>1. e \in staged /\ UNCHANGED <<rows, staged>> /\ Accept(e)
    BY <1>2 DEF StoreLate, Inv, ServerSound
  <2> QED
    BY <2>1, AcceptDelivers, DeliverRefines DEF Delivery!Next
<1>3. ASSUME NEW r \in Relays, Store(r) PROVE Delivery!Next
  <2>1. cur[r] \in staged /\ cur[r] \in Events
    BY <1>3, CurrentRow DEF Store, Inv, SessionSound
  <2>2. UNCHANGED <<rows, staged>> /\ Accept(cur[r])
    BY <1>3 DEF Store
  <2> QED
    BY <2>1, <2>2, AcceptDelivers, DeliverRefines DEF Delivery!Next
<1>4. ASSUME NEW r \in Relays, Commit(r) PROVE Delivery!Next
  BY <1>4, CommitRefines DEF Delivery!Next
<1>5. CASE RunCleanup
  BY <1>5, CleanupRefines DEF Delivery!Next
<1>6. CASE Requeue
  BY <1>6, RequeueRefines DEF Delivery!Next
<1>7. ASSUME NEW r \in Relays,
             \/ Fetch(r) \/ Publish(r) \/ PublishOk(r) \/ PublishErr(r)
             \/ UpdatePendingGauge(r) \/ Rollback(r)
             \/ Disconnect(r) \/ Abort(r) \/ Start(r)
      PROVE  UNCHANGED <<rows, staged, stream>>
  BY <1>7 DEF Fetch, Publish, PublishOk, PublishErr, UpdatePendingGauge,
              Rollback, Disconnect, Abort, Start, server
<1>8. ASSUME NEW e \in Events, LoseLate(e)
      PROVE  UNCHANGED <<rows, staged, stream>>
  BY <1>8 DEF LoseLate
<1>9. ASSUME AdvanceTime \/ UNCHANGED vars
      PROVE  UNCHANGED <<rows, staged, stream>>
  BY <1>9 DEF AdvanceTime, vars, server
<1> QED
  BY <1>1, <1>2, <1>3, <1>4, <1>5, <1>6, <1>7, <1>8, <1>9, Stutter
     DEF Next, RelayStep, EmptyTick

(* Whatever the number of relays and the faults, the relay keeps the       *)
(* outbox's promise.                                                       *)
THEOREM Refinement == Spec => ImplementsDelivery
<1>1. Init => Delivery!Init
  BY DeliveryInit
<1>2. Inv /\ [Next]_vars => [Delivery!Next]_(Delivery!vars)
  BY NextRefines
<1> QED
  BY <1>1, <1>2, Invariance, PTL DEF Spec, ImplementsDelivery, Delivery!Spec

-----------------------------------------------------------------------------
(* Rows only move forward.  The invariant behind it: what a relay has made *)
(* of a row it still holds is one legal step on from the row, the rows it  *)
(* has yet to publish were due when it fetched them and are due still, and *)
(* it commits nothing before it has been through the batch.                *)

Forward(old, new) ==
    /\ new.retry_count \in {old.retry_count, old.retry_count + 1}
    /\ new.status = "pending" => /\ new.retry_count = old.retry_count + 1
                                 /\ new.scheduled_at > old.scheduled_at

TickSound(r) ==
    /\ phase[r] \in {"commit", "doomed"} => todo[r] = {}
    /\ \A e \in todo[r] : work[r][e].scheduled_at <= now
    /\ \A e \in held[r] \ todo[r] : Forward(rows[e], work[r][e])

TicksSound == \A r \in Relays : TickSound(r)

(* A failure charges one attempt; a retry lies after the failed attempt.   *)
LEMMA FailureForward ==
    ASSUME NEW row \in Row, NEW t \in Nat,
           row.status # "failed", row.retry_count < MaxRetries,
           NEW failed \in FailureOutcomes(row, t)
    PROVE  /\ failed.retry_count = row.retry_count + 1
           /\ failed.status = "pending" => failed.scheduled_at > t
<1> DEFINE counted == CountFailure(row)
<1>1. /\ counted \in Row
      /\ counted.retry_count = row.retry_count + 1
  BY CountFailureProperties
<1> HIDE DEF counted
<1>2. CASE counted.retry_count >= MaxRetries
  <2>1. failed = [counted EXCEPT !.status = "failed"]
    BY <1>2 DEF FailureOutcomes, counted
  <2>2. failed.status = "failed" /\ failed.retry_count = counted.retry_count
    BY <1>1, <2>1 DEF Row, Status
  <2> QED
    BY <1>1, <2>2
<1>3. CASE ~(counted.retry_count >= MaxRetries)
  <2>1. counted.retry_count \in 1 .. (ExpOverflow - 1)
        /\ \E d \in Backoff[counted.retry_count] :
              failed = [counted EXCEPT !.scheduled_at = t + d]
    <3>1. row.retry_count \in Nat
      BY DEF Row
    <3> QED
      BY <1>1, <1>3, <3>1, SettingsAssumption
         DEF FailureOutcomes, BackoffDelays, counted
  <2>2. PICK d \in Nat \ {0} : failed = [counted EXCEPT !.scheduled_at = t + d]
    BY <2>1, BackoffAssumption
  <2>3. failed.retry_count = counted.retry_count /\ failed.scheduled_at = t + d
    BY <1>1, <2>2 DEF Row
  <2> QED
    BY <1>1, <2>2, <2>3
<1> QED
  BY <1>2, <1>3

LEMMA InitTicksSound == Init => TicksSound
BY DEF Init, TicksSound, TickSound

(* A step that leaves every session and every row a relay holds alone.     *)
LEMMA OutsideTick ==
    ASSUME Inv, TicksSound, now' \in Nat, now' >= now,
           UNCHANGED <<held, phase, todo, work>>,
           \A r \in Relays : \A e \in held[r] : rows'[e] = rows[e]
    PROVE  TicksSound'
<1> SUFFICES ASSUME NEW r \in Relays PROVE TickSound(r)'
  BY DEF TicksSound
<1>1. TickSound(r)
  BY DEF TicksSound
<1>2. \A e \in todo[r] : work[r][e].scheduled_at <= now'
  <2>1. now \in Nat
    BY DEF Inv, TypeOK
  <2>2. \A e \in todo[r] : e \in Events /\ work[r][e] \in Row
    BY DEF Inv, TypeOK, SessionSound
  <2>3. \A e \in todo[r] : work[r][e].scheduled_at \in Nat
    BY <2>2 DEF Row
  <2> QED
    BY <1>1, <2>1, <2>3 DEF TickSound
<1>3. \A e \in held[r] \ todo[r] : rows'[e] = rows[e]
  OBVIOUS
<1> QED
  BY <1>1, <1>2, <1>3 DEF TickSound

(* The session of r ends; if its batch was committed, nobody else held it. *)
LEMMA EndOfTick ==
    ASSUME Inv, TicksSound, NEW r \in Relays, NEW p \in {"idle", "down"},
           EndSession(r, p), now' = now,
           \A e \in Events \ held[r] : rows'[e] = rows[e]
    PROVE  TicksSound'
<1> SUFFICES ASSUME NEW s \in Relays PROVE TickSound(s)'
  BY DEF TicksSound
<1>1. CASE s = r
  BY <1>1 DEF TickSound, EndSession, Inv, TypeOK
<1>2. CASE s # r
  <2>1. /\ held'[s] = held[s] /\ todo'[s] = todo[s]
        /\ work'[s] = work[s] /\ phase'[s] = phase[s]
    BY <1>2 DEF EndSession, Inv, TypeOK
  <2>2. \A e \in held[s] : rows'[e] = rows[e]
    BY <1>2 DEF Inv, TypeOK, LocksExclusive
  <2> QED
    BY <2>1, <2>2 DEF TicksSound, TickSound
<1> QED
  BY <1>1, <1>2

(* The relay has processed its current event, one legal step on.           *)
LEMMA ProcessedForward ==
    ASSUME Inv, TicksSound, NEW r \in Relays, phase[r] = "tick",
           cur[r] # NoEvent, NEW row \in Row, Processed(r, row),
           Forward(work[r][cur[r]], row), UNCHANGED <<now, rows>>
    PROVE  TicksSound'
<1> SUFFICES ASSUME NEW s \in Relays PROVE TickSound(s)'
  BY DEF TicksSound
<1>1. CASE s = r
  <2>1. cur[r] \in todo[r] /\ cur[r] \in Events
    BY DEF Inv, TypeOK, SessionSound
  <2>2. /\ held'[r] = held[r] /\ phase'[r] = "tick"
        /\ todo'[r] = todo[r] \ {cur[r]}
        /\ work'[r][cur[r]] = row
        /\ \A e \in Events \ {cur[r]} : work'[r][e] = work[r][e]
    BY <2>1 DEF Processed, Inv, TypeOK
  <2>3. cur[r] \in held[r] => work[r][cur[r]] = rows[cur[r]]
    BY <2>1 DEF Inv, CopiesCurrent
  <2>4. \A e \in todo[r] : e \in Events
    BY DEF Inv, TypeOK
  <2>5. \A e \in held'[r] \ todo'[r] : Forward(rows'[e], work'[r][e])
    <3> SUFFICES ASSUME NEW e \in held[r], e \notin todo'[r]
                 PROVE  Forward(rows[e], work'[r][e])
      BY <2>2
    <3>1. CASE e = cur[r]
      BY <2>2, <2>3, <3>1
    <3>2. CASE e # cur[r]
      <4>1. e \in held[r] \ todo[r] /\ e \in Events
        BY <2>2, <3>2 DEF Inv, TypeOK
      <4> QED
        BY <2>2, <3>2, <4>1 DEF TicksSound, TickSound
    <3> QED
      BY <3>1, <3>2
  <2> QED
    BY <1>1, <2>2, <2>4, <2>5 DEF TicksSound, TickSound
<1>2. CASE s # r
  <2>1. /\ held'[s] = held[s] /\ todo'[s] = todo[s]
        /\ work'[s] = work[s] /\ phase'[s] = phase[s]
    BY <1>2 DEF Processed, Inv, TypeOK
  <2> QED
    BY <2>1 DEF TicksSound, TickSound
<1> QED
  BY <1>1, <1>2

LEMMA RecordFailureForward ==
    ASSUME Inv, TicksSound, NEW r \in Relays, phase[r] = "tick", cur[r] # NoEvent,
           NEW row \in Row, row.status # "failed",
           row.retry_count = work[r][cur[r]].retry_count,
           RecordFailure(r, row), UNCHANGED <<now, rows>>
    PROVE  TicksSound'
<1>1. /\ work[r][cur[r]] \in Row /\ row.retry_count < MaxRetries
      /\ now \in Nat
      /\ work[r][cur[r]].scheduled_at <= now
  <2>1. cur[r] \in todo[r] /\ now \in Nat
    BY DEF Inv, SessionSound, TypeOK
  <2> QED
    BY <2>1, CurrentRow DEF TicksSound, TickSound, WithinBudget
<1>2. CASE \E failed \in FailureOutcomes(row, now) : Processed(r, failed)
  <2>1. PICK failed \in FailureOutcomes(row, now) : Processed(r, failed)
    BY <1>2
  <2>2. failed \in Row
    BY <1>1, FailureProperties
  <2>3. /\ failed.retry_count = row.retry_count + 1
        /\ failed.status = "pending" => failed.scheduled_at > now
    BY <1>1, FailureForward
  <2>4. work[r][cur[r]].scheduled_at \in Nat /\ failed.scheduled_at \in Nat
    BY <1>1, <2>2 DEF Row
  <2>5. Forward(work[r][cur[r]], failed)
    BY <1>1, <2>3, <2>4 DEF Forward
  <2> QED
    BY <2>1, <2>2, <2>5, ProcessedForward
<1>3. CASE EndSession(r, "idle")
  BY <1>3, EndOfTick
<1> QED
  BY <1>2, <1>3 DEF RecordFailure

LEMMA PublishOkForward ==
    ASSUME Inv, TicksSound, NEW r \in Relays, PublishOk(r)
    PROVE  TicksSound'
<1> DEFINE old == work[r][cur[r]]
           row == MarkPublished(old, now)
<1>1. cur[r] # NoEvent /\ now \in Nat /\ phase[r] = "tick"
  BY DEF Inv, SessionSound, PublishOk, TypeOK
<1>2. old \in Row
  BY <1>1, CurrentRow
<1>3. /\ row \in Row
      /\ row.status = "published"
      /\ row.retry_count = old.retry_count
  BY <1>1, <1>2, MarkPublishedProperties
<1>4. UNCHANGED <<now, rows>>
  BY DEF PublishOk
<1>5. IF Metrics THEN RecordFailure(r, row) ELSE Processed(r, row)
  BY DEF PublishOk
<1>6. Forward(old, row)
  BY <1>3 DEF Forward
<1> HIDE DEF row
<1> QED
  BY <1>1, <1>2, <1>3, <1>4, <1>5, <1>6, RecordFailureForward, ProcessedForward

LEMMA FetchForward ==
    ASSUME Inv, TicksSound, NEW r \in Relays, Fetch(r)
    PROVE  TicksSound'
<1>1. PICK S \in SUBSET Available :
         /\ held' = [held EXCEPT ![r] = S]
         /\ todo' = [todo EXCEPT ![r] = S]
         /\ work' = [work EXCEPT ![r] =
                        [e \in Events |-> IF e \in S THEN rows[e] ELSE NoRow]]
  BY DEF Fetch
<1>2. phase' = [phase EXCEPT ![r] = "tick"] /\ UNCHANGED <<now, rows>>
  BY DEF Fetch
<1> SUFFICES ASSUME NEW s \in Relays PROVE TickSound(s)'
  BY DEF TicksSound
<1>3. CASE s = r
  <2>1. held'[r] = S /\ todo'[r] = S /\ phase'[r] = "tick"
    BY <1>1, <1>2 DEF Inv, TypeOK
  <2>2. \A e \in S : work'[r][e] = rows[e] /\ rows[e].scheduled_at <= now
    BY <1>1 DEF Inv, TypeOK, Available, IsDue
  <2> QED
    BY <1>2, <1>3, <2>1, <2>2 DEF TickSound
<1>4. CASE s # r
  <2>1. /\ held'[s] = held[s] /\ todo'[s] = todo[s]
        /\ work'[s] = work[s] /\ phase'[s] = phase[s]
    BY <1>1, <1>2, <1>4 DEF Inv, TypeOK
  <2> QED
    BY <1>2, <2>1 DEF TicksSound, TickSound
<1> QED
  BY <1>3, <1>4

LEMMA UpdatePendingGaugeForward ==
    ASSUME Inv, TicksSound, NEW r \in Relays,
           UpdatePendingGauge(r) \/ Disconnect(r) \/ Start(r)
    PROVE  TicksSound'
<1>1. UNCHANGED <<now, rows, todo, work>>
  BY DEF UpdatePendingGauge, Disconnect, Start
<1>2. \A s \in Relays : held'[s] \subseteq held[s]
  BY DEF UpdatePendingGauge, Disconnect, Start, Inv, TypeOK
<1>3. \A s \in Relays : phase'[s] \in {"commit", "doomed"} =>
         phase[s] \in {"commit", "doomed"} \/ todo[s] = {}
  BY DEF UpdatePendingGauge, Disconnect, Start, Inv, TypeOK
<1> SUFFICES ASSUME NEW s \in Relays PROVE TickSound(s)'
  BY DEF TicksSound
<1> QED
  BY <1>1, <1>2, <1>3 DEF TicksSound, TickSound

LEMMA RelayForward ==
    ASSUME Inv, TicksSound, NEW r \in Relays,
           RelayStep(r) \/ Disconnect(r) \/ Abort(r) \/ Start(r)
    PROVE  TicksSound'
<1> USE DEF Inv
<1>1. now \in Nat
  BY DEF TypeOK
<1>2. CASE Publish(r) \/ Store(r)
  BY <1>1, <1>2, OutsideTick DEF Publish, Store
<1>3. CASE PublishErr(r)
  <2>1. /\ phase[r] = "tick" /\ cur[r] # NoEvent
        /\ RecordFailure(r, work[r][cur[r]])
        /\ UNCHANGED <<now, rows>>
    BY <1>3 DEF PublishErr
  <2> QED
    BY <2>1, CurrentRow, RecordFailureForward
<1>4. CASE Commit(r)
  BY <1>4, EndOfTick DEF Commit
<1>5. CASE Rollback(r) \/ Abort(r)
  BY <1>5, EndOfTick DEF Rollback, Abort
<1> QED
  BY <1>2, <1>3, <1>4, <1>5, FetchForward, PublishOkForward,
     UpdatePendingGaugeForward DEF RelayStep

(* What runs beside the relays touches only rows no relay holds.           *)
LEMMA OthersForward ==
    ASSUME Inv, TicksSound,
           \/ \E e \in Events : Stage(e) \/ StoreLate(e) \/ LoseLate(e)
           \/ RunCleanup \/ Requeue \/ AdvanceTime \/ UNCHANGED vars
    PROVE  TicksSound'
<1>1. now \in Nat /\ now' \in Nat /\ now' >= now
  BY DEF Inv, TypeOK, Stage, StoreLate, LoseLate, RunCleanup, Requeue,
         AdvanceTime, vars
<1>2. UNCHANGED <<held, phase, todo, work>>
  BY DEF Stage, StoreLate, LoseLate, RunCleanup, Requeue, AdvanceTime, vars, session
<1>3. ASSUME NEW r \in Relays, NEW f \in held[r] PROVE rows'[f] = rows[f]
  <2>1. f \in Events /\ rows[f] # NoRow /\ rows[f].status = "pending" /\ f \in staged
    BY DEF Inv, TypeOK, LocksExclusive, TableSound
  <2>2. ASSUME NEW e \in Events, Stage(e) PROVE rows'[f] = rows[f]
    BY <2>1, <2>2 DEF Stage, Inv, TypeOK
  <2>3. CASE RunCleanup
    BY <2>1, <2>3 DEF RunCleanup, Expired, IsExpired
  <2>4. CASE Requeue
    BY <2>1, <2>4 DEF Requeue, Failed
  <2>5. CASE \E e \in Events : StoreLate(e) \/ LoseLate(e)
    BY <2>5 DEF StoreLate, LoseLate
  <2>6. CASE AdvanceTime \/ UNCHANGED vars
    BY <2>6 DEF AdvanceTime, vars
  <2> QED
    BY <2>2, <2>3, <2>4, <2>5, <2>6
<1> QED
  BY <1>1, <1>2, <1>3, OutsideTick

LEMMA NextTicksSound == Inv /\ TicksSound /\ [Next]_vars => TicksSound'
BY RelayForward, OthersForward DEF Next, EmptyTick

(* The committed rows change only by a commit, a command or a producer.    *)
LEMMA CommitLegal ==
    ASSUME Inv, TicksSound, NEW r \in Relays, Commit(r), NEW e \in Events
    PROVE  LegalChange(e)
<1>1. rows' = [f \in Events |-> IF f \in held[r] THEN work[r][f] ELSE rows[f]]
  BY DEF Commit
<1>2. CASE e \in held[r]
  <2>1. rows'[e] = work[r][e] /\ work[r][e] # NoRow
    BY <1>1, <1>2 DEF Inv, SessionSound
  <2>2. rows[e] # NoRow /\ rows[e].status = "pending"
    BY <1>2 DEF Inv, LocksExclusive
  <2>3. Forward(rows[e], work[r][e])
    BY <1>2 DEF Commit, TicksSound, TickSound
  <2>4. work[r][e].status = "published" => e \in Delivered
    BY <2>1 DEF Inv, SessionSound, RowSound
  <2> QED
    BY <2>1, <2>2, <2>3, <2>4 DEF LegalChange, Forward
<1>3. CASE e \notin held[r]
  BY <1>1, <1>3 DEF LegalChange
<1> QED
  BY <1>2, <1>3

LEMMA CommandsLegal ==
    ASSUME Inv, RunCleanup \/ Requeue, NEW e \in Events
    PROVE  LegalChange(e)
<1>1. CASE RunCleanup
  <2>1. e \in Expired => /\ rows[e] # NoRow /\ rows[e].status = "published"
                         /\ e \in Delivered
    BY DEF Expired, IsExpired, Inv, TableSound, RowSound
  <2>2. rows'[e] = IF e \in Expired THEN NoRow ELSE rows[e]
    BY <1>1 DEF RunCleanup
  <2> QED
    BY <2>1, <2>2 DEF LegalChange
<1>2. CASE Requeue
  <2>1. PICK S \in {Failed} \union {{f} : f \in Failed} :
           rows' = [f \in Events |-> IF f \in S THEN Requeued(rows[f], now)
                                                ELSE rows[f]]
    BY <1>2 DEF Requeue
  <2>2. now \in Nat /\ (e \in S => /\ rows[e] # NoRow /\ rows[e] \in Row
                                   /\ rows[e].status = "failed")
    BY <2>1 DEF Failed, Inv, TypeOK
  <2>3. CASE e \in S
    <3>1. rows'[e] = Requeued(rows[e], now)
      BY <2>1, <2>3
    <3>2. /\ Requeued(rows[e], now) # NoRow
          /\ Requeued(rows[e], now).status = "pending"
      BY <2>2, <2>3, RequeuedProperties, NullAssumption
    <3>3. Requeued(rows[e], now).retry_count = 0
      BY <2>2, <2>3 DEF Requeued, Row
    <3> QED
      BY <2>2, <2>3, <3>1, <3>2, <3>3 DEF LegalChange
  <2>4. CASE e \notin S
    BY <2>1, <2>4 DEF LegalChange
  <2> QED
    BY <2>3, <2>4
<1> QED
  BY <1>1, <1>2

LEMMA StageLegal ==
    ASSUME Inv, NEW f \in Events, Stage(f), NEW e \in Events
    PROVE  LegalChange(e)
<1>1. PICK o \in StageOffsets :
         now + o >= 0 /\ rows' = [rows EXCEPT ![f] = NewRow(now + o)]
  BY DEF Stage
<1>2. now + o \in Nat
  BY <1>1, RelayAssumption DEF Inv, TypeOK
<1>3. NewRow(now + o).status = "pending"
  BY <1>2, NewRowProperties
<1>4. f \notin staged /\ rows[f] = NoRow
  BY DEF Stage, Inv, TableSound
<1> QED
  BY <1>1, <1>3, <1>4 DEF LegalChange, Inv, TypeOK

(* Every change of a committed row is a legal one: one attempt at a time,  *)
(* retries into the future, published only with JetStream's copy.          *)
THEOREM ForwardOnly == Spec => RowsMoveForward
<1>1. Init => TicksSound
  BY InitTicksSound
<1>2. Inv /\ TicksSound /\ [Next]_vars => TicksSound'
  BY NextTicksSound
<1>3. Inv /\ TicksSound /\ [Next]_vars => [\A e \in Events : LegalChange(e)]_vars
  <2> SUFFICES ASSUME Inv, TicksSound, Next, NEW e \in Events PROVE LegalChange(e)
    OBVIOUS
  <2>1. ASSUME rows' = rows PROVE LegalChange(e)
    BY <2>1 DEF LegalChange
  <2>2. ASSUME NEW f \in Events, StoreLate(f) \/ LoseLate(f) PROVE rows' = rows
    BY <2>2 DEF StoreLate, LoseLate
  <2>3. ASSUME NEW r \in Relays,
               \/ Fetch(r) \/ Publish(r) \/ Store(r) \/ PublishOk(r) \/ PublishErr(r)
               \/ UpdatePendingGauge(r) \/ Rollback(r) \/ EmptyTick(r)
               \/ Disconnect(r) \/ Abort(r) \/ Start(r)
        PROVE  rows' = rows
    BY <2>3 DEF Fetch, Publish, Store, PublishOk, PublishErr, UpdatePendingGauge,
                Rollback, EmptyTick, Disconnect, Abort, Start, vars
  <2>4. ASSUME AdvanceTime PROVE rows' = rows
    BY <2>4 DEF AdvanceTime
  <2> QED
    BY <2>1, <2>2, <2>3, <2>4, CommitLegal, CommandsLegal, StageLegal
       DEF Next, RelayStep
<1> QED
  BY <1>1, <1>2, <1>3, Invariance, PTL DEF Spec, RowsMoveForward

-----------------------------------------------------------------------------
(* Without metrics no step marks a row published and fails afterwards, so  *)
(* a row, or a copy of it, that is not published has never been.           *)

Clean(row) == row # NoRow /\ row.status # "published" => row.published_at = NoTime

AllClean ==
    /\ \A e \in Events : Clean(rows[e])
    /\ \A r \in Relays : \A e \in Events : Clean(work[r][e])

LEMMA FailureKeepsTime ==
    ASSUME NEW row \in Row, NEW t \in Nat,
           row.status # "failed", row.retry_count < MaxRetries,
           NEW failed \in FailureOutcomes(row, t)
    PROVE  failed.published_at = row.published_at
<1> DEFINE counted == CountFailure(row)
<1>1. counted \in Row /\ counted.published_at = row.published_at
  BY CountFailureProperties DEF CountFailure, Row
<1> HIDE DEF counted
<1>2. CASE counted.retry_count >= MaxRetries
  BY <1>1, <1>2 DEF FailureOutcomes, Row, counted
<1>3. CASE ~(counted.retry_count >= MaxRetries)
  <2>1. \E d \in BackoffDelays(counted.retry_count) :
           failed = [counted EXCEPT !.scheduled_at = t + d]
    BY <1>3 DEF FailureOutcomes, counted
  <2> QED
    BY <1>1, <2>1 DEF Row
<1> QED
  BY <1>2, <1>3

LEMMA ProcessedClean ==
    ASSUME Inv, AllClean, NEW r \in Relays, cur[r] # NoEvent,
           NEW row \in Row, Clean(row), Processed(r, row), rows' = rows
    PROVE  AllClean'
<1>1. cur[r] \in Events
  BY DEF Inv, TypeOK
<1>2. \A s \in Relays : \A e \in Events :
         work'[s][e] = IF s = r /\ e = cur[r] THEN row ELSE work[s][e]
  BY <1>1 DEF Processed, Inv, TypeOK
<1> QED
  BY <1>2 DEF AllClean, Clean

LEMMA EndSessionClean ==
    ASSUME Inv, AllClean, NEW r \in Relays, NEW p \in {"idle", "down"},
           EndSession(r, p),
           \A e \in Events : rows'[e] = rows[e] \/ rows'[e] = work[r][e]
    PROVE  AllClean'
<1>1. \A s \in Relays : \A e \in Events :
         work'[s][e] = IF s = r THEN NoRow ELSE work[s][e]
  BY DEF EndSession, NoCopies, Inv, TypeOK
<1> QED
  BY <1>1 DEF AllClean, Clean

(* Only the publish of a pending row can fail.                             *)
LEMMA PublishErrClean ==
    ASSUME Inv, AllClean, NEW r \in Relays, PublishErr(r)
    PROVE  AllClean'
<1> DEFINE row == work[r][cur[r]]
<1>1. /\ cur[r] # NoEvent /\ now \in Nat /\ rows' = rows
      /\ RecordFailure(r, row)
  BY DEF PublishErr, Inv, TypeOK
<1>2. /\ cur[r] \in Events /\ row \in Row /\ row.status = "pending"
      /\ row.retry_count < MaxRetries
  BY <1>1, CurrentRow DEF WithinBudget
<1>3. row.published_at = NoTime
  BY <1>2, NullAssumption DEF AllClean, Clean
<1>4. CASE \E failed \in FailureOutcomes(row, now) : Processed(r, failed)
  <2>1. PICK failed \in FailureOutcomes(row, now) : Processed(r, failed)
    BY <1>4
  <2> HIDE DEF row
  <2>2. failed \in Row /\ failed.published_at = NoTime
    BY <1>1, <1>2, <1>3, FailureProperties, FailureKeepsTime
  <2> QED
    BY <1>1, <2>1, <2>2, ProcessedClean DEF Clean
<1>5. CASE EndSession(r, "idle")
  BY <1>1, <1>5, EndSessionClean
<1> QED
  BY <1>1, <1>4, <1>5 DEF RecordFailure

LEMMA RelayClean ==
    ASSUME ~Metrics, Inv, AllClean, NEW r \in Relays,
           RelayStep(r) \/ Disconnect(r) \/ Abort(r) \/ Start(r)
    PROVE  AllClean'
<1>1. CASE Fetch(r)
  <2>1. PICK S \in SUBSET Available :
           work' = [work EXCEPT ![r] =
                        [e \in Events |-> IF e \in S THEN rows[e] ELSE NoRow]]
    BY <1>1 DEF Fetch
  <2>2. \A s \in Relays : \A e \in Events :
           work'[s][e] \in {work[s][e], rows[e], NoRow}
    BY <2>1 DEF Inv, TypeOK
  <2> QED
    BY <1>1, <2>2 DEF Fetch, AllClean, Clean
<1>2. CASE PublishOk(r)
  <2>1. cur[r] # NoEvent /\ now \in Nat /\ rows' = rows
        /\ Processed(r, MarkPublished(work[r][cur[r]], now))
    BY <1>2 DEF PublishOk, Inv, SessionSound, TypeOK
  <2>2. /\ MarkPublished(work[r][cur[r]], now) \in Row
        /\ MarkPublished(work[r][cur[r]], now).status = "published"
    BY <2>1, CurrentRow, MarkPublishedProperties
  <2> QED
    BY <2>1, <2>2, ProcessedClean DEF Clean
<1>3. CASE Commit(r) \/ Rollback(r) \/ Abort(r)
  BY <1>3, EndSessionClean DEF Commit, Rollback, Abort, Inv, TypeOK
<1>4. CASE Publish(r) \/ Store(r) \/ UpdatePendingGauge(r) \/ Disconnect(r) \/ Start(r)
  BY <1>4 DEF Publish, Store, UpdatePendingGauge, Disconnect, Start, AllClean
<1> QED
  BY <1>1, <1>2, <1>3, <1>4, PublishErrClean DEF RelayStep

LEMMA OthersClean ==
    ASSUME Inv, AllClean,
           \/ \E e \in Events : Stage(e) \/ StoreLate(e) \/ LoseLate(e)
           \/ RunCleanup \/ Requeue \/ AdvanceTime \/ UNCHANGED vars
    PROVE  AllClean'
<1>1. work' = work
  BY DEF Stage, StoreLate, LoseLate, RunCleanup, Requeue, AdvanceTime, vars, session
<1>2. CASE Requeue
  <2>1. PICK S \in {Failed} \union {{f} : f \in Failed} :
           rows' = [f \in Events |-> IF f \in S THEN Requeued(rows[f], now)
                                                ELSE rows[f]]
    BY <1>2 DEF Requeue
  <2>2. now \in Nat /\ \A e \in S : /\ e \in Events /\ rows[e] # NoRow
                                    /\ rows[e] \in Row /\ rows[e].status = "failed"
    BY <2>1 DEF Failed, Inv, TypeOK
  <2>3. \A e \in S : rows'[e].published_at = NoTime
    BY <2>1, <2>2 DEF Requeued, Row, AllClean, Clean
  <2> QED
    BY <1>1, <2>1, <2>3 DEF AllClean, Clean
<1>3. ASSUME NEW f \in Events, Stage(f) PROVE AllClean'
  <2>1. PICK o \in StageOffsets : rows' = [rows EXCEPT ![f] = NewRow(now + o)]
    BY <1>3 DEF Stage
  <2>2. NewRow(now + o).published_at = NoTime
    BY DEF NewRow
  <2> QED
    BY <1>1, <2>1, <2>2 DEF AllClean, Clean, Inv, TypeOK
<1>4. CASE RunCleanup
  BY <1>1, <1>4 DEF RunCleanup, AllClean, Clean
<1>5. ASSUME AdvanceTime \/ UNCHANGED vars
             \/ \E e \in Events : StoreLate(e) \/ LoseLate(e)
      PROVE  AllClean'
  <2>1. rows' = rows
    BY <1>5 DEF AdvanceTime, vars, StoreLate, LoseLate
  <2> QED
    BY <1>1, <2>1 DEF AllClean
<1> QED
  BY <1>2, <1>3, <1>4, <1>5

(* published_at is NULL until published, for a relay without metrics.      *)
THEOREM UnpublishedUntilPublished ==
    ASSUME ~Metrics
    PROVE  Spec => []DeadLetterUnpublished
<1>1. Init => AllClean
  BY DEF Init, NoCopies, AllClean, Clean
<1>2. Inv /\ AllClean /\ [Next]_vars => AllClean'
  BY RelayClean, OthersClean DEF Next, EmptyTick
<1>3. AllClean => DeadLetterUnpublished
  BY DEF AllClean, Clean, DeadLetterUnpublished
<1> QED
  BY <1>1, <1>2, <1>3, Invariance, PTL DEF Spec

-----------------------------------------------------------------------------
(* Nothing is published twice without faults.  An event JetStream has, and *)
(* whose row does not say so yet, is in the locked batch of one relay,     *)
(* which either waits for this ACK or has marked its copy published; so no *)
(* relay can fetch or publish it once more before the commit.              *)

Calm ==
    /\ ~NatsFaults /\ ~Metrics
    /\ MaxFaults = 0
    /\ MaxRetries <= ExpOverflow

InHand(r, e) ==
    /\ e \in held[r]
    /\ \/ e \in todo[r] /\ cur[r] = e /\ wire[r] = "acked"
       \/ e \notin todo[r] /\ work[r][e].status = "published"

CalmSession(r) ==
    /\ todo[r] \subseteq held[r]
    /\ phase[r] # "doomed"
    /\ phase[r] \in {"tick", "commit"} => held[r] # {}

Once ==
    /\ late = {}
    /\ Delivered \intersect NoStream = {}
    /\ NoDuplicatePublishes
    /\ \A e \in Delivered : rows[e] # NoRow =>
          rows[e].status = "published" \/ \E r \in Relays : InHand(r, e)
    /\ \A r \in Relays : CalmSession(r)

(* A delivered row that is still pending is in some relay's hand.          *)
LEMMA PendingInHand ==
    ASSUME Inv, Once, NEW e \in Delivered,
           rows[e] # NoRow, rows[e].status # "published"
    PROVE  \E r \in Relays : InHand(r, e) /\ e \in held[r]
BY DEF Once, InHand

LEMMA InitOnce == Init => Once
<1> SUFFICES ASSUME Init PROVE Once
  OBVIOUS
<1>1. stream = << >> /\ late = {}
  BY DEF Init
<1>2. Delivered = {} /\ NoDuplicatePublishes
  BY <1>1 DEF Delivered, NoDuplicatePublishes
<1>3. \A r \in Relays : CalmSession(r)
  BY DEF Init, CalmSession
<1> QED
  BY <1>1, <1>2, <1>3 DEF Once

(* A step that stores nothing keeps the invariant if it frees no hand,     *)
(* leaves sessions calm, and changes only rows nobody has in hand.         *)
LEMMA NothingStored ==
    ASSUME Inv, Once, late' = late, stream' = stream,
           \A e \in Delivered : rows'[e] = NoRow \/ rows'[e] = rows[e]
                                                 \/ rows'[e].status = "published",
           \A e \in Delivered : \A r \in Relays : InHand(r, e) =>
               \/ InHand(r, e)'
               \/ rows'[e].status = "published",
           \A r \in Relays : CalmSession(r)'
    PROVE  Once'
<1>1. Delivered' = Delivered /\ NoDuplicatePublishes' = NoDuplicatePublishes
  BY DEF Delivered, NoDuplicatePublishes
<1>2. ASSUME NEW e \in Delivered, rows'[e] # NoRow, rows'[e].status # "published"
      PROVE  \E r \in Relays : InHand(r, e)'
  <2>1. rows'[e] = rows[e]
    BY <1>2
  <2>2. PICK r \in Relays : InHand(r, e)
    BY <1>2, <2>1, PendingInHand
  <2> QED
    BY <1>2, <2>2
<1> QED
  BY <1>1, <1>2 DEF Once

(* Storing a message nobody has stored before.                             *)
LEMMA AppendOnce ==
    ASSUME NEW S, NEW s \in Seq(S), NEW e \in S,
           \A i, j \in 1 .. Len(s) : s[i] = s[j] => i = j,
           \A i \in 1 .. Len(s) : s[i] # e
    PROVE  \A i, j \in 1 .. Len(Append(s, e)) :
               Append(s, e)[i] = Append(s, e)[j] => i = j
<1>1. Len(Append(s, e)) = Len(s) + 1 /\ Len(s) \in Nat
  OBVIOUS
<1>2. \A i \in 1 .. Len(s) : Append(s, e)[i] = s[i]
  OBVIOUS
<1>3. Append(s, e)[Len(s) + 1] = e
  OBVIOUS
<1>4. 1 .. (Len(s) + 1) = (1 .. Len(s)) \union {Len(s) + 1}
  BY <1>1
<1> QED
  BY <1>1, <1>2, <1>3, <1>4

LEMMA StoreOnce ==
    ASSUME Inv, Once, NEW r \in Relays, Store(r)
    PROVE  Once'
<1> DEFINE e == cur[r]
<1>1. /\ e # NoEvent /\ e \in Events /\ e \in staged /\ e \in todo[r]
      /\ e \in held[r] /\ e \notin NoStream /\ wire[r] = "sent"
  BY CurrentRow DEF Store, Inv, SessionSound, Once, CalmSession
<1>2. rows[e] # NoRow /\ rows[e].status = "pending"
  BY <1>1 DEF Inv, LocksExclusive
<1>3. e \notin Delivered
  <2> SUFFICES ASSUME e \in Delivered PROVE FALSE
    OBVIOUS
  <2>1. PICK s \in Relays : InHand(s, e) /\ e \in held[s]
    BY <1>2, PendingInHand
  <2>2. s = r
    BY <1>1, <2>1 DEF Inv, LocksExclusive
  <2> QED
    BY <1>1, <2>1, <2>2 DEF InHand
<1>4. /\ ~IsDuplicate(e) /\ stream \in Seq(Events)
  BY <1>1, <1>3 DEF IsDuplicate, Inv, TypeOK, ServerSound
<1>5. stream' = Append(stream, e)
  BY <1>4 DEF Store, Accept
<1>6. Delivered' = Delivered \union {e}
  BY <1>1, <1>4, <1>5, AppendRange DEF Delivered
<1>7. NoDuplicatePublishes'
  <2>1. \A i \in 1 .. Len(stream) : stream[i] # e
    BY <1>3 DEF Delivered
  <2> HIDE DEF e
  <2>2. \A i, j \in 1 .. Len(stream) : stream[i] = stream[j] => i = j
    BY DEF Once, NoDuplicatePublishes
  <2> QED
    BY <1>1, <1>4, <1>5, <2>1, <2>2, AppendOnce DEF NoDuplicatePublishes
<1>8. /\ wire' = [wire EXCEPT ![r] = "acked"]
      /\ UNCHANGED <<rows, held, phase, todo, work, cur, late>>
  BY DEF Store
<1>9. InHand(r, e)'
  BY <1>1, <1>8 DEF InHand, Inv, TypeOK
<1>10. \A f \in Delivered : \A s \in Relays : InHand(s, f) => InHand(s, f)'
  BY <1>8 DEF InHand, Inv, TypeOK
<1>11. \A s \in Relays : CalmSession(s)'
  BY <1>8 DEF Once, CalmSession
<1> QED
  BY <1>1, <1>6, <1>7, <1>8, <1>9, <1>10, <1>11 DEF Once

(* A fetched row is one no relay has in hand, so JetStream has no copy.    *)
LEMMA FetchOnce ==
    ASSUME Inv, Once, NEW r \in Relays, Fetch(r)
    PROVE  Once'
<1>1. PICK S \in SUBSET Available :
         /\ S # {}
         /\ held' = [held EXCEPT ![r] = S]
         /\ todo' = [todo EXCEPT ![r] = S]
         /\ work' = [work EXCEPT ![r] =
                        [e \in Events |-> IF e \in S THEN rows[e] ELSE NoRow]]
  BY DEF Fetch
<1>2. /\ phase' = [phase EXCEPT ![r] = "tick"]
      /\ UNCHANGED <<rows, cur, wire, late, stream>>
  BY DEF Fetch, server
<1>3. \A s \in Relays : s # r =>
         /\ held'[s] = held[s] /\ todo'[s] = todo[s]
         /\ work'[s] = work[s] /\ phase'[s] = phase[s]
  BY <1>1, <1>2 DEF Inv, TypeOK
<1>4. held[r] = {}
  BY DEF Fetch, Inv, SessionSound
<1>5. \A e \in Delivered : \A s \in Relays : InHand(s, e) => InHand(s, e)'
  BY <1>2, <1>3, <1>4 DEF InHand
<1>6. \A s \in Relays : CalmSession(s)'
  BY <1>1, <1>2, <1>3 DEF Once, CalmSession, Inv, TypeOK
<1> QED
  BY <1>2, <1>5, <1>6, NothingStored

(* The current event leaves todo with a row that says what JetStream has.  *)
LEMMA ProcessedOnce ==
    ASSUME Inv, Once, NEW r \in Relays, cur[r] # NoEvent, phase[r] = "tick",
           NEW row \in Row, Processed(r, row),
           cur[r] \in Delivered => row.status = "published",
           UNCHANGED <<rows, stream, late>>
    PROVE  Once'
<1>1. /\ cur[r] \in Events /\ cur[r] \in todo[r] /\ todo[r] \subseteq held[r]
  BY DEF Inv, TypeOK, SessionSound, Once, CalmSession
<1>2. /\ UNCHANGED <<held, phase>>
      /\ todo' = [todo EXCEPT ![r] = @ \ {cur[r]}]
      /\ \A s \in Relays : \A e \in Events :
            work'[s][e] = IF s = r /\ e = cur[r] THEN row ELSE work[s][e]
  BY <1>1 DEF Processed, Inv, TypeOK
<1>3. \A s \in Relays : s # r => cur'[s] = cur[s] /\ wire'[s] = wire[s]
  BY DEF Processed, Inv, TypeOK
<1>4. ASSUME NEW e \in Delivered, NEW s \in Relays, InHand(s, e)
      PROVE  InHand(s, e)'
  <2>1. e \in Events
    BY <1>4 DEF InHand, Inv, TypeOK
  <2>2. CASE s = r /\ e = cur[r]
    BY <1>1, <1>2, <1>4, <2>1, <2>2 DEF InHand, Inv, TypeOK
  <2>3. CASE s = r /\ e # cur[r]
    BY <1>1, <1>2, <1>4, <2>1, <2>3 DEF InHand, Inv, TypeOK
  <2>4. CASE s # r
    BY <1>2, <1>3, <1>4, <2>1, <2>4 DEF InHand, Inv, TypeOK
  <2> QED
    BY <2>2, <2>3, <2>4
<1>5. \A s \in Relays : CalmSession(s)'
  BY <1>2 DEF Once, CalmSession, Inv, TypeOK
<1> QED
  BY <1>4, <1>5, NothingStored

LEMMA PublishErrOnce ==
    ASSUME Calm, Inv, Once, NEW r \in Relays, PublishErr(r)
    PROVE  Once'
<1> DEFINE row == work[r][cur[r]]
<1>1. /\ cur[r] # NoEvent /\ cur[r] \in NoStream /\ phase[r] = "tick"
      /\ RecordFailure(r, row) /\ UNCHANGED <<now, rows, stream>>
  BY DEF PublishErr, Calm
<1>2. late' = late
  BY <1>1 DEF PublishErr
<1>3. /\ row \in Row /\ row.status = "pending" /\ row.retry_count < MaxRetries
      /\ now \in Nat
  BY <1>1, CurrentRow DEF WithinBudget, Inv, TypeOK
<1>4. cur[r] \notin Delivered
  BY <1>1 DEF Once
<1> HIDE DEF row
<1>5. FailureOutcomes(row, now) # {}
  BY <1>3, FailureHappens DEF Calm
<1>6. PICK failed \in FailureOutcomes(row, now) : Processed(r, failed)
  BY <1>1, <1>5 DEF RecordFailure
<1>7. failed \in Row
  BY <1>3, FailureProperties
<1> QED
  BY <1>1, <1>2, <1>4, <1>6, <1>7, ProcessedOnce

LEMMA PublishOkOnce ==
    ASSUME Calm, Inv, Once, NEW r \in Relays, PublishOk(r)
    PROVE  Once'
<1> DEFINE row == MarkPublished(work[r][cur[r]], now)
<1>1. /\ cur[r] # NoEvent /\ now \in Nat /\ phase[r] = "tick"
      /\ Processed(r, row) /\ UNCHANGED <<rows, late, stream>>
  BY DEF PublishOk, Calm, Inv, SessionSound, TypeOK, server
<1>2. row \in Row /\ row.status = "published"
  BY <1>1, CurrentRow, MarkPublishedProperties
<1> HIDE DEF row
<1> QED
  BY <1>1, <1>2, ProcessedOnce

(* The commit writes what the relay has in hand: published.                *)
LEMMA CommitOnce ==
    ASSUME Inv, TicksSound, Once, NEW r \in Relays, Commit(r)
    PROVE  Once'
<1>1. /\ rows' = [e \in Events |-> IF e \in held[r] THEN work[r][e] ELSE rows[e]]
      /\ EndSession(r, "idle") /\ UNCHANGED <<late, stream>>
      /\ todo[r] = {}
  BY DEF Commit, server, TicksSound, TickSound
<1>2. \A s \in Relays : s # r =>
         /\ held'[s] = held[s] /\ todo'[s] = todo[s] /\ phase'[s] = phase[s]
         /\ work'[s] = work[s] /\ cur'[s] = cur[s] /\ wire'[s] = wire[s]
  BY <1>1 DEF EndSession, Inv, TypeOK
<1>3. todo'[r] = {} /\ phase'[r] = "idle"
  BY <1>1 DEF EndSession, Inv, TypeOK
<1>4. \A e \in Delivered : e \in Events
  BY DEF Inv, TypeOK, ServerSound
<1>5. ASSUME NEW e \in Delivered, e \in held[r]
      PROVE  rows'[e].status = "published"
  <2>1. rows[e] # NoRow /\ rows[e].status = "pending"
    BY <1>5 DEF Inv, LocksExclusive
  <2>2. PICK s \in Relays : InHand(s, e) /\ e \in held[s]
    BY <2>1, PendingInHand
  <2>3. s = r
    BY <1>5, <2>2 DEF Inv, LocksExclusive
  <2> QED
    BY <1>1, <1>4, <1>5, <2>2, <2>3 DEF InHand
<1>6. \A e \in Delivered : rows'[e] = rows[e] \/ rows'[e].status = "published"
  BY <1>1, <1>4, <1>5
<1>7. \A e \in Delivered : \A s \in Relays : InHand(s, e) =>
         InHand(s, e)' \/ rows'[e].status = "published"
  BY <1>2, <1>5 DEF InHand
<1>8. \A s \in Relays : CalmSession(s)'
  BY <1>2, <1>3 DEF Once, CalmSession
<1> QED
  BY <1>1, <1>6, <1>7, <1>8, NothingStored

LEMMA RelayOnce ==
    ASSUME Calm, Inv, TicksSound, Once, NEW r \in Relays,
           RelayStep(r) \/ Disconnect(r) \/ Abort(r) \/ Start(r)
    PROVE  Once'
<1>1. ~(Rollback(r) \/ Disconnect(r) \/ Abort(r))
  BY DEF Rollback, Disconnect, Abort, Calm, Once, CalmSession, Inv, TypeOK
<1>2. CASE Publish(r)
  <2>1. UNCHANGED <<rows, held, phase, todo, work, late, stream>>
    BY <1>2 DEF Publish, server
  <2>2. cur[r] = NoEvent /\ \A s \in Relays : s # r => cur'[s] = cur[s] /\ wire'[s] = wire[s]
    BY <1>2 DEF Publish, Inv, TypeOK
  <2>3. \A e \in Delivered : \A s \in Relays : InHand(s, e) => InHand(s, e)'
    BY <2>1, <2>2, RelayAssumption DEF InHand, Inv, TypeOK, ServerSound
  <2>4. \A s \in Relays : CalmSession(s)'
    BY <2>1 DEF Once, CalmSession
  <2> QED
    BY <2>1, <2>3, <2>4, NothingStored
<1>3. CASE UpdatePendingGauge(r) \/ Start(r)
  <2>1. UNCHANGED <<rows, held, todo, work, cur, wire, late, stream>>
    BY <1>3 DEF UpdatePendingGauge, Start, server
  <2>2. \A e \in Delivered : \A s \in Relays : InHand(s, e) => InHand(s, e)'
    BY <2>1 DEF InHand
  <2>3. \A s \in Relays : CalmSession(s)'
    BY <1>3, <2>1 DEF UpdatePendingGauge, Start, Once, CalmSession, Calm, Inv, TypeOK
  <2> QED
    BY <2>1, <2>2, <2>3, NothingStored
<1> QED
  BY <1>1, <1>2, <1>3, FetchOnce, StoreOnce, PublishOkOnce, PublishErrOnce,
     CommitOnce DEF RelayStep

LEMMA OthersOnce ==
    ASSUME Inv, Once,
           \/ \E e \in Events : Stage(e) \/ StoreLate(e) \/ LoseLate(e)
           \/ RunCleanup \/ Requeue \/ AdvanceTime \/ UNCHANGED vars
    PROVE  Once'
<1>1. \A e \in Events : ~StoreLate(e) /\ ~LoseLate(e)
  BY DEF StoreLate, LoseLate, Once
<1>2. UNCHANGED <<held, phase, todo, work, cur, wire, late, stream>>
  BY <1>1 DEF Stage, RunCleanup, Requeue, AdvanceTime, vars, session, server
<1>3. \A e \in Delivered : e \in Events /\ e \in staged
  BY DEF Inv, TypeOK, ServerSound
<1>4. ASSUME NEW e \in Delivered
      PROVE  rows'[e] = NoRow \/ rows'[e] = rows[e]
  <2>1. CASE Requeue
    <3>1. e \notin Failed
      <4> SUFFICES ASSUME rows[e] # NoRow, rows[e].status = "failed" PROVE FALSE
        BY DEF Failed
      <4>1. PICK r \in Relays : e \in held[r]
        BY PendingInHand
      <4> QED
        BY <4>1 DEF Inv, LocksExclusive
    <3> QED
      BY <1>3, <2>1, <3>1 DEF Requeue
  <2>2. ASSUME NEW f \in Events, Stage(f) PROVE rows'[e] = rows[e]
    BY <1>3, <2>2 DEF Stage, Inv, TypeOK
  <2>3. CASE RunCleanup
    BY <1>3, <2>3 DEF RunCleanup
  <2>4. CASE AdvanceTime \/ UNCHANGED vars
    BY <2>4 DEF AdvanceTime, vars
  <2> QED
    BY <1>1, <2>1, <2>2, <2>3, <2>4
<1>5. \A e \in Delivered : \A s \in Relays : InHand(s, e) => InHand(s, e)'
  BY <1>2 DEF InHand
<1>6. \A s \in Relays : CalmSession(s)'
  BY <1>2 DEF Once, CalmSession
<1> QED
  BY <1>2, <1>4, <1>5, <1>6, NothingStored

(* FOR UPDATE SKIP LOCKED lets any number of relays share the table: with  *)
(* no fault, and a max_retries _backoff can count to, no event is ever     *)
(* stored twice, even if JetStream's window were a single tick long.       *)
THEOREM PublishedOnce ==
    ASSUME Calm
    PROVE  Spec => []NoDuplicatePublishes
<1>1. Init => TicksSound /\ Once
  BY InitTicksSound, InitOnce
<1>2. Inv /\ TicksSound /\ Once /\ [Next]_vars => TicksSound' /\ Once'
  BY NextTicksSound, RelayOnce, OthersOnce DEF Next, EmptyTick
<1>3. Once => NoDuplicatePublishes
  BY DEF Once
<1> QED
  BY <1>1, <1>2, <1>3, Invariance, PTL DEF Spec

-----------------------------------------------------------------------------
(* The order of first copies.  One relay whose publishes do not time out,  *)
(* fed by producers that commit in the order of their row ids, has tried   *)
(* nothing out of turn: the events still waiting for their first copy are  *)
(* pending, untouched, due in the order of their ids, and whatever is in a *)
(* batch has every earlier one of them before it in the batch.             *)

OneAtATime ==
    /\ \A r, s \in Relays : r = s
    /\ OrderedCommits /\ StageOffsets = {0}
    /\ ~NatsFaults

Waiting == {e \in staged \ NoStream : e \notin Delivered}

Turn(f) == \A e \in Events \ NoStream : e < f => e \in Delivered

TableInOrder ==
    /\ \A e, f \in Events : e < f /\ f \in staged => e \in staged
    /\ \A e \in Waiting : /\ rows[e].status = "pending"
                          /\ rows[e].scheduled_at <= now
    /\ \A e, f \in Waiting : e < f => rows[e].scheduled_at <= rows[f].scheduled_at

SessionInOrder(r) ==
    /\ \A e \in Events : work[r][e] # NoRow =>
          /\ e \in staged
          /\ e \in Waiting => work[r][e] = rows[e] /\ e \in todo[r]
    /\ \A f \in todo[r] \intersect Waiting : \A e \in Waiting :
          e < f => e \in todo[r]
    /\ cur[r] \in Events \ NoStream => Turn(cur[r])

ServerInOrder ==
    /\ \A f \in late : f \notin NoStream /\ Turn(f)
    /\ \A f \in Delivered : Turn(f)

InTurn ==
    /\ TableInOrder
    /\ \A r \in Relays : SessionInOrder(r)
    /\ ServerInOrder
    /\ FirstCopiesInOrder

LEMMA InitInTurn == Init => InTurn
<1> SUFFICES ASSUME Init PROVE InTurn
  OBVIOUS
<1>1. stream = << >> /\ late = {} /\ staged = {}
  BY DEF Init
<1>2. Delivered = {} /\ Waiting = {} /\ FirstCopiesInOrder
  BY <1>1 DEF Delivered, Waiting, FirstCopiesInOrder
<1>3. \A r \in Relays : SessionInOrder(r)
  BY <1>2, RelayAssumption DEF Init, NoCopies, SessionInOrder
<1> QED
  BY <1>1, <1>2, <1>3 DEF InTurn, TableInOrder, ServerInOrder

(* The next copy stored is a repetition, or the first of the next in turn. *)
LEMMA AcceptInTurn ==
    ASSUME Inv, InTurn, NEW f \in staged, f \notin NoStream, Turn(f), Accept(f),
           UNCHANGED <<now, staged, rows, work, todo, cur>>, late' \subseteq late
    PROVE  InTurn'
<1>1. Delivered' = Delivered \union {f} /\ f \in Events
  BY AcceptDelivers DEF Inv, TypeOK
<1>2. Waiting' \subseteq Waiting
  BY <1>1 DEF Waiting
<1>3. ASSUME NEW e, Turn(e) PROVE Turn(e)'
  BY <1>1, <1>3 DEF Turn
<1>4. TableInOrder'
  BY <1>2 DEF InTurn, TableInOrder
<1>5. \A r \in Relays : SessionInOrder(r)'
  BY <1>2, <1>3 DEF InTurn, SessionInOrder
<1>6. ServerInOrder'
  BY <1>1, <1>3 DEF InTurn, ServerInOrder
<1>7. FirstCopiesInOrder'
  <2>1. CASE IsDuplicate(f)
    BY <2>1, <1>1 DEF Accept, InTurn, FirstCopiesInOrder, Delivered
  <2>2. CASE ~IsDuplicate(f)
    <3>1. stream' = Append(stream, f) /\ stream \in Seq(Events)
      BY <2>2 DEF Accept, Inv, TypeOK
    <3>2. /\ Len(stream') = Len(stream) + 1 /\ Len(stream) \in Nat
          /\ stream'[Len(stream) + 1] = f
          /\ \A i \in 1 .. Len(stream) : stream'[i] = stream[i]
      BY <1>1, <3>1
    <3> SUFFICES ASSUME NEW i \in 1 .. Len(stream'), NEW e \in Delivered',
                        e < stream'[i]
                 PROVE  \E j \in 1 .. i : stream'[j] = e
      BY DEF FirstCopiesInOrder
    <3>3. CASE i \in 1 .. Len(stream)
      <4>1. stream[i] \in Delivered /\ e < stream[i]
        BY <3>2, <3>3 DEF Delivered
      <4>2. e \in Delivered
        BY <1>1, <4>1 DEF InTurn, ServerInOrder, Turn
      <4>3. PICK j \in 1 .. i : stream[j] = e
        BY <3>3, <4>1, <4>2 DEF InTurn, FirstCopiesInOrder
      <4> QED
        BY <3>2, <3>3, <4>3
    <3>4. CASE i = Len(stream) + 1
      <4>1. e \in Delivered \/ e = f
        BY <1>1
      <4>2. CASE e = f
        BY <3>2, <3>4, <4>2
      <4>3. CASE e \in Delivered
        <5>1. PICK j \in 1 .. Len(stream) : stream[j] = e
          BY <4>3 DEF Delivered
        <5> QED
          BY <3>2, <3>4, <5>1
      <4> QED
        BY <4>1, <4>2, <4>3
    <3> QED
      BY <3>2, <3>3, <3>4
  <2> QED
    BY <2>1, <2>2
<1> QED
  BY <1>4, <1>5, <1>6, <1>7 DEF InTurn

(* A step that stores nothing and leaves table, batches and time in order. *)
LEMMA StreamUntouched ==
    ASSUME Inv, InTurn, stream' = stream,
           TableInOrder', \A r \in Relays : SessionInOrder(r)',
           \A f \in late' : f \notin NoStream /\ Turn(f)
    PROVE  InTurn'
<1>1. Delivered' = Delivered
  BY DEF Delivered
<1>2. \A f : Turn(f)' = Turn(f)
  BY <1>1 DEF Turn
<1>3. FirstCopiesInOrder'
  BY <1>1 DEF InTurn, FirstCopiesInOrder
<1> QED
  BY <1>1, <1>2, <1>3 DEF InTurn, ServerInOrder

LEMMA StageInTurn ==
    ASSUME OneAtATime, Inv, InTurn, NEW e \in Events, Stage(e)
    PROVE  InTurn'
<1>1. /\ e \notin staged /\ staged' = staged \union {e}
      /\ \A f \in Events : f < e => f \in staged
      /\ UNCHANGED <<now, work, todo, cur, late, stream>>
  BY DEF Stage, OneAtATime, session, server
<1>2. now \in Nat /\ rows' = [rows EXCEPT ![e] = NewRow(now)]
  <2>1. PICK o \in StageOffsets : rows' = [rows EXCEPT ![e] = NewRow(now + o)]
    BY DEF Stage
  <2>2. o = 0 /\ now \in Nat
    BY DEF OneAtATime, Inv, TypeOK
  <2> QED
    BY <2>1, <2>2
<1>3. /\ rows'[e].status = "pending" /\ rows'[e].scheduled_at = now
      /\ \A f \in Events \ {e} : rows'[f] = rows[f]
  BY <1>2 DEF NewRow, Inv, TypeOK
<1>4. Delivered' = Delivered /\ staged \subseteq Events /\ Events \subseteq Nat
  BY <1>1, EventsAssumption DEF Delivered, Inv, TypeOK
<1>5. Waiting' \subseteq Waiting \union {e} /\ Waiting \subseteq staged
  BY <1>1, <1>4 DEF Waiting
<1>6. \A f \in staged : ~(e < f)
  BY <1>1, <1>4 DEF InTurn, TableInOrder
<1>7. TableInOrder'
  <2>1. \A g, f \in Events : g < f /\ f \in staged' => g \in staged'
    BY <1>1 DEF InTurn, TableInOrder
  <2>2. \A g \in Waiting' : rows'[g].status = "pending" /\ rows'[g].scheduled_at <= now'
    BY <1>1, <1>2, <1>3, <1>4, <1>5 DEF InTurn, TableInOrder
  <2>3. ASSUME NEW g \in Waiting', NEW f \in Waiting', g < f
        PROVE  rows'[g].scheduled_at <= rows'[f].scheduled_at
    <3>1. g # e /\ g \in Waiting
      BY <1>4, <1>5, <1>6, <2>3
    <3>2. CASE f = e
      BY <1>1, <1>3, <2>2, <3>2
    <3>3. CASE f # e
      BY <1>3, <1>4, <1>5, <2>3, <3>1, <3>3 DEF InTurn, TableInOrder
    <3> QED
      BY <3>2, <3>3
  <2> QED
    BY <2>1, <2>2, <2>3 DEF TableInOrder
<1>8. ASSUME NEW r \in Relays PROVE SessionInOrder(r)'
  <2>1. todo[r] \subseteq staged /\ work[r][e] = NoRow
    BY <1>1 DEF Inv, SessionSound, InTurn, SessionInOrder
  <2>2. ASSUME NEW f \in Events, work'[r][f] # NoRow
        PROVE  /\ f \in staged'
               /\ f \in Waiting' => work'[r][f] = rows'[f] /\ f \in todo'[r]
    <3>1. f # e /\ work[r][f] # NoRow
      BY <1>1, <2>1, <2>2
    <3> QED
      BY <1>1, <1>3, <1>5, <3>1 DEF InTurn, SessionInOrder
  <2>3. \A f \in todo'[r] \intersect Waiting' : \A g \in Waiting' :
           g < f => g \in todo'[r]
    BY <1>1, <1>5, <1>6, <2>1 DEF InTurn, SessionInOrder
  <2>4. cur'[r] \in Events \ NoStream => Turn(cur[r])'
    BY <1>1, <1>4 DEF InTurn, SessionInOrder, Turn
  <2> QED
    BY <1>1, <2>2, <2>3, <2>4 DEF SessionInOrder
<1>9. \A f \in late' : f \notin NoStream /\ Turn(f)
  BY <1>1 DEF InTurn, ServerInOrder
<1> QED
  BY <1>1, <1>7, <1>8, <1>9, StreamUntouched

(* Steps that keep the waiting events, their rows and the relay's view.    *)
LEMMA ElsewhereInTurn ==
    ASSUME Inv, InTurn, UNCHANGED <<staged, work, todo, cur, stream>>,
           now \in Nat, now' \in Nat, now' >= now, late' \subseteq late,
           \A e \in Waiting : rows'[e] = rows[e]
    PROVE  InTurn'
<1>1. Waiting' = Waiting /\ Delivered' = Delivered
  BY DEF Waiting, Delivered
<1>2. \A e \in Waiting : e \in Events /\ rows[e] \in Row
  BY DEF Waiting, Inv, TypeOK, TableSound
<1>3. \A e \in Waiting : rows[e].scheduled_at \in Nat
  BY <1>2 DEF Row
<1>4. TableInOrder'
  BY <1>1, <1>3 DEF InTurn, TableInOrder
<1>5. \A r \in Relays : SessionInOrder(r)'
  BY <1>1 DEF InTurn, SessionInOrder, Turn
<1>6. \A f \in late' : f \notin NoStream /\ Turn(f)
  BY DEF InTurn, ServerInOrder
<1> QED
  BY <1>4, <1>5, <1>6, StreamUntouched

(* The relay is done with an event that does not wait any more, or it gave *)
(* up its whole session, or committed it.                                  *)
LEMMA DoneInTurn ==
    ASSUME Inv, InTurn, NEW r \in Relays, \A s \in Relays : s = r,
           UNCHANGED <<now, staged, stream>>,
           cur' = [cur EXCEPT ![r] = NoEvent],
           \A e \in Waiting : rows'[e] = rows[e],
           \A e \in Events : work'[r][e] # NoRow => e \in staged,
           \A e \in Waiting : work'[r][e] # NoRow =>
               work'[r][e] = work[r][e] /\ e \in todo'[r],
           \/ todo'[r] = {}
           \/ todo'[r] \intersect Waiting = todo[r] \intersect Waiting,
           \A f \in late' : f \notin NoStream /\ Turn(f)
    PROVE  InTurn'
<1>1. Waiting' = Waiting
  BY DEF Waiting, Delivered
<1>2. TableInOrder'
  BY <1>1 DEF InTurn, TableInOrder
<1>3. cur'[r] = NoEvent /\ NoEvent \notin Events
  BY RelayAssumption DEF Inv, TypeOK
<1>4. SessionInOrder(r)'
  <2>1. ASSUME NEW e \in Events, work'[r][e] # NoRow
        PROVE  /\ e \in staged'
               /\ e \in Waiting' => work'[r][e] = rows'[e] /\ e \in todo'[r]
    BY <1>1, <2>1 DEF InTurn, SessionInOrder
  <2>2. ASSUME NEW f \in todo'[r] \intersect Waiting', NEW e \in Waiting', e < f
        PROVE  e \in todo'[r]
    BY <1>1, <2>2 DEF InTurn, SessionInOrder
  <2> QED
    BY <1>3, <2>1, <2>2 DEF SessionInOrder
<1> QED
  BY <1>2, <1>4, StreamUntouched

(* What Abort and PublishErr leave in transit was published in its turn.   *)
LEMMA LateInTurn ==
    ASSUME Inv, InTurn, NEW r \in Relays,
           late' = late \union (IF wire[r] = "sent" THEN {cur[r]} \ NoStream ELSE {})
    PROVE  \A f \in late' : f \notin NoStream /\ Turn(f)
<1>1. wire[r] = "sent" => cur[r] \in Events
  BY DEF Inv, TypeOK, SessionSound
<1> QED
  BY <1>1 DEF InTurn, ServerInOrder, SessionInOrder

LEMMA EndSessionInTurn ==
    ASSUME Inv, InTurn, NEW r \in Relays, \A s \in Relays : s = r,
           NEW p \in {"idle", "down"}, EndSession(r, p),
           UNCHANGED <<now, staged, stream>>,
           \A e \in Waiting : rows'[e] = rows[e],
           \A f \in late' : f \notin NoStream /\ Turn(f)
    PROVE  InTurn'
<1>1. /\ cur' = [cur EXCEPT ![r] = NoEvent]
      /\ todo'[r] = {} /\ \A e \in Events : work'[r][e] = NoRow
  BY DEF EndSession, NoCopies, Inv, TypeOK
<1>2. \A e \in Waiting : e \in Events
  BY DEF Waiting, Inv, TypeOK
<1> QED
  BY <1>1, <1>2, DoneInTurn

LEMMA ProcessedInTurn ==
    ASSUME Inv, InTurn, NEW r \in Relays, \A s \in Relays : s = r,
           cur[r] # NoEvent, cur[r] \notin Waiting,
           NEW row, Processed(r, row), UNCHANGED <<now, staged, rows, stream>>,
           \A f \in late' : f \notin NoStream /\ Turn(f)
    PROVE  InTurn'
<1>1. cur[r] \in Events /\ cur[r] \in staged
  BY CurrentRow
<1>2. /\ cur' = [cur EXCEPT ![r] = NoEvent]
      /\ todo'[r] = todo[r] \ {cur[r]}
      /\ \A e \in Events \ {cur[r]} : work'[r][e] = work[r][e]
  BY <1>1 DEF Processed, Inv, TypeOK
<1>3. \A e \in Waiting : e \in Events /\ e # cur[r]
  BY DEF Waiting, Inv, TypeOK
<1>4. \A e \in Events : work'[r][e] # NoRow => e \in staged
  BY <1>1, <1>2 DEF InTurn, SessionInOrder
<1>5. \A e \in Waiting : work'[r][e] # NoRow =>
         work'[r][e] = work[r][e] /\ e \in todo'[r]
  BY <1>2, <1>3 DEF InTurn, SessionInOrder
<1>6. todo'[r] \intersect Waiting = todo[r] \intersect Waiting
  BY <1>2
<1> QED
  BY <1>2, <1>4, <1>5, <1>6, DoneInTurn

LEMMA FailureInTurn ==
    ASSUME Inv, InTurn, NEW r \in Relays, \A s \in Relays : s = r,
           cur[r] # NoEvent, cur[r] \notin Waiting, NEW row,
           RecordFailure(r, row), UNCHANGED <<now, staged, rows, stream>>,
           \A f \in late' : f \notin NoStream /\ Turn(f)
    PROVE  InTurn'
BY ProcessedInTurn, EndSessionInTurn DEF RecordFailure

(* A fetch takes waiting events from the front.                            *)
LEMMA FetchInTurn ==
    ASSUME Inv, InTurn, NEW r \in Relays, \A s \in Relays : s = r, Fetch(r)
    PROVE  InTurn'
<1>1. PICK S \in SUBSET Available :
         /\ IsBatch(S, Available)
         /\ todo' = [todo EXCEPT ![r] = S]
         /\ work' = [work EXCEPT ![r] =
                        [e \in Events |-> IF e \in S THEN rows[e] ELSE NoRow]]
  BY DEF Fetch
<1>2. UNCHANGED <<now, staged, rows, cur, late, stream>>
  BY DEF Fetch, server
<1>3. todo'[r] = S /\ \A e \in Events : work'[r][e] = IF e \in S THEN rows[e] ELSE NoRow
  BY <1>1 DEF Inv, TypeOK
<1>4. Waiting' = Waiting /\ Waiting \subseteq Events /\ Delivered' = Delivered
  BY <1>2 DEF Waiting, Delivered, Inv, TypeOK
<1>5. Waiting \subseteq Available
  <2>1. Locked = {}
    BY DEF Locked, Fetch, Inv, SessionSound
  <2>2. \A e \in Waiting : rows[e] # NoRow
    BY <1>4 DEF Waiting, Inv, TableSound
  <2> QED
    BY <1>4, <2>1, <2>2 DEF Available, IsDue, InTurn, TableInOrder
<1>6. ASSUME NEW f \in S \intersect Waiting, NEW e \in Waiting, e < f
      PROVE  e \in S
  <2> SUFFICES ASSUME e \notin S PROVE FALSE
    OBVIOUS
  <2>1. Before(rows, f, e)
    BY <1>1, <1>5 DEF IsBatch
  <2>2. rows[e].scheduled_at <= rows[f].scheduled_at
    BY <1>6 DEF InTurn, TableInOrder
  <2>3. rows[e] \in Row /\ rows[f] \in Row /\ e \in Nat /\ f \in Nat
    BY <1>4, <1>5, EventsAssumption DEF Available, Inv, TypeOK
  <2>4. rows[e].scheduled_at \in Nat /\ rows[f].scheduled_at \in Nat
    BY <2>3 DEF Row
  <2> QED
    BY <1>6, <2>1, <2>2, <2>3, <2>4 DEF Before
<1>7. TableInOrder'
  BY <1>2, <1>4 DEF InTurn, TableInOrder
<1>8. \A e \in S : e \in Events /\ e \in staged
  BY DEF Available, Inv, TableSound
<1>9. SessionInOrder(r)'
  BY <1>2, <1>3, <1>4, <1>6, <1>8 DEF InTurn, SessionInOrder, Turn
<1>10. \A f \in late' : f \notin NoStream /\ Turn(f)
  BY <1>2 DEF InTurn, ServerInOrder
<1> QED
  BY <1>2, <1>7, <1>9, <1>10, StreamUntouched

(* The event it publishes next has no waiting event before it.             *)
LEMMA PublishInTurn ==
    ASSUME Inv, InTurn, NEW r \in Relays, \A s \in Relays : s = r, Publish(r)
    PROVE  InTurn'
<1>1. PICK f \in todo[r] : /\ \A e \in todo[r] \ {f} : Before(work[r], f, e)
                           /\ cur' = [cur EXCEPT ![r] = f]
  BY DEF Publish
<1>2. UNCHANGED <<now, staged, rows, todo, work, late, stream>>
  BY DEF Publish, server
<1>3. f \in Events /\ f \in staged /\ cur'[r] = f
  BY <1>1 DEF Inv, TypeOK, SessionSound
<1>4. Waiting' = Waiting /\ Waiting \subseteq Events /\ Delivered' = Delivered
  BY <1>2 DEF Waiting, Delivered, Inv, TypeOK
<1>5. ASSUME f \notin NoStream PROVE Turn(f)
  <2>1. CASE f \in Delivered
    BY <2>1 DEF InTurn, ServerInOrder
  <2>2. CASE f \notin Delivered
    <3>1. f \in Waiting
      BY <1>3, <1>5, <2>2 DEF Waiting
    <3> SUFFICES ASSUME NEW e \in Events \ NoStream, e < f, e \notin Delivered
                 PROVE  FALSE
      BY DEF Turn
    <3>2. e \in Waiting
      BY <1>3 DEF Waiting, InTurn, TableInOrder
    <3>3. e \in todo[r]
      BY <3>1, <3>2 DEF InTurn, SessionInOrder
    <3>4. e \in Nat /\ f \in Nat /\ e # f
      BY <1>3, EventsAssumption
    <3>5. /\ work[r][e] = rows[e] /\ work[r][f] = rows[f]
          /\ rows[e] \in Row /\ rows[f] \in Row
      BY <1>3, <1>4, <3>1, <3>2, <3>3
         DEF InTurn, SessionInOrder, Inv, TypeOK, SessionSound
    <3>6. rows[e].scheduled_at <= rows[f].scheduled_at
      BY <3>1, <3>2 DEF InTurn, TableInOrder
    <3>7. Before(work[r], f, e)
      BY <1>1, <3>3, <3>4
    <3>8. rows[e].scheduled_at \in Nat /\ rows[f].scheduled_at \in Nat
      BY <3>5 DEF Row
    <3> QED
      BY <3>4, <3>5, <3>6, <3>7, <3>8 DEF Before
  <2> QED
    BY <2>1, <2>2
<1>6. TableInOrder'
  BY <1>2, <1>4 DEF InTurn, TableInOrder
<1>7. SessionInOrder(r)'
  BY <1>2, <1>3, <1>4, <1>5 DEF InTurn, SessionInOrder, Turn
<1>8. \A e \in late' : e \notin NoStream /\ Turn(e)
  BY <1>2 DEF InTurn, ServerInOrder
<1> QED
  BY <1>2, <1>6, <1>7, <1>8, StreamUntouched

LEMMA RelayInTurn ==
    ASSUME OneAtATime, Inv, InTurn, NEW r \in Relays,
           RelayStep(r) \/ Disconnect(r) \/ Abort(r) \/ Start(r)
    PROVE  InTurn'
<1>1. \A s \in Relays : s = r
  BY DEF OneAtATime
<1>2. now \in Nat /\ \A f \in late : f \notin NoStream /\ Turn(f)
  BY DEF Inv, TypeOK, InTurn, ServerInOrder
<1>3. CASE Store(r)
  <2>1. cur[r] \in Events /\ cur[r] \in staged /\ cur[r] \notin NoStream
    BY <1>3, CurrentRow DEF Store, Inv, SessionSound
  <2>2. Turn(cur[r])
    BY <2>1 DEF InTurn, SessionInOrder
  <2> QED
    BY <1>3, <2>1, <2>2, AcceptInTurn DEF Store
<1>4. CASE PublishOk(r)
  <2>1. cur[r] # NoEvent /\ cur[r] \notin Waiting
    BY <1>4 DEF PublishOk, Inv, SessionSound, Waiting
  <2>2. UNCHANGED <<now, staged, rows, late, stream>>
    BY <1>4 DEF PublishOk, server
  <2> QED
    BY <1>1, <1>2, <1>4, <2>1, <2>2, ProcessedInTurn, FailureInTurn DEF PublishOk
<1>5. CASE PublishErr(r)
  <2>1. /\ cur[r] # NoEvent /\ cur[r] \notin Waiting
        /\ RecordFailure(r, work[r][cur[r]])
        /\ UNCHANGED <<now, staged, rows, stream>>
    BY <1>5 DEF PublishErr, OneAtATime, Waiting
  <2>2. \A f \in late' : f \notin NoStream /\ Turn(f)
    BY <1>5, LateInTurn DEF PublishErr
  <2> QED
    BY <1>1, <2>1, <2>2, FailureInTurn
<1>6. CASE Commit(r)
  <2>1. /\ rows' = [e \in Events |-> IF e \in held[r] THEN work[r][e] ELSE rows[e]]
        /\ EndSession(r, "idle") /\ UNCHANGED <<now, staged, late, stream>>
    BY <1>6 DEF Commit, server
  <2>2. ASSUME NEW e \in Waiting PROVE rows'[e] = rows[e]
    <3>1. e \in Events
      BY DEF Waiting, Inv, TypeOK
    <3>2. e \in held[r] => work[r][e] # NoRow
      BY DEF Inv, SessionSound
    <3>3. work[r][e] # NoRow => work[r][e] = rows[e]
      BY <3>1 DEF InTurn, SessionInOrder
    <3> QED
      BY <2>1, <3>1, <3>2, <3>3
  <2> QED
    BY <1>1, <1>2, <2>1, <2>2, EndSessionInTurn
<1>7. CASE Rollback(r)
  BY <1>1, <1>2, <1>7, EndSessionInTurn DEF Rollback, server
<1>8. CASE Abort(r)
  BY <1>1, <1>8, LateInTurn, EndSessionInTurn DEF Abort
<1>9. CASE UpdatePendingGauge(r) \/ Disconnect(r) \/ Start(r)
  <2>1. UNCHANGED <<now, staged, rows, work, todo, cur, late, stream>>
    BY <1>9 DEF UpdatePendingGauge, Disconnect, Start, server
  <2> QED
    BY <1>2, <2>1, ElsewhereInTurn
<1> QED
  BY <1>1, <1>3, <1>4, <1>5, <1>6, <1>7, <1>8, <1>9, FetchInTurn, PublishInTurn
     DEF RelayStep

LEMMA OthersInTurn ==
    ASSUME Inv, InTurn,
           \/ \E e \in Events : StoreLate(e) \/ LoseLate(e)
           \/ RunCleanup \/ Requeue \/ AdvanceTime \/ UNCHANGED vars
    PROVE  InTurn'
<1>1. \A e \in Waiting : e \in Events /\ rows[e].status = "pending"
  BY DEF Waiting, Inv, TypeOK, InTurn, TableInOrder
<1>2. ASSUME NEW f \in Events, StoreLate(f) PROVE InTurn'
  BY <1>2, AcceptInTurn
     DEF StoreLate, session, Inv, ServerSound, InTurn, ServerInOrder
<1>3. ASSUME \/ \E e \in Events : LoseLate(e)
             \/ RunCleanup \/ Requeue \/ AdvanceTime \/ UNCHANGED vars
      PROVE  InTurn'
  <2>1. /\ now \in Nat /\ now' \in Nat /\ now' >= now /\ late' \subseteq late
        /\ UNCHANGED <<staged, work, todo, cur, stream>>
    BY <1>3 DEF Inv, TypeOK, LoseLate, RunCleanup, Requeue, AdvanceTime, vars,
                session, server
  <2>2. ASSUME NEW e \in Waiting PROVE rows'[e] = rows[e]
    BY <1>1, <1>3 DEF LoseLate, RunCleanup, Expired, IsExpired, Requeue, Failed,
                      AdvanceTime, vars
  <2> QED
    BY <2>1, <2>2, ElsewhereInTurn
<1> QED
  BY <1>2, <1>3

(* One relay whose publishes never time out delivers the first copies in   *)
(* the order of the row ids, through crashes, lost connections, rollbacks, *)
(* dead-letters and requeues of events no stream takes.                    *)
THEOREM OrderedDelivery ==
    ASSUME OneAtATime
    PROVE  Spec => []FirstCopiesInOrder
<1>1. Init => InTurn
  BY InitInTurn
<1>2. Inv /\ InTurn /\ [Next]_vars => InTurn'
  BY RelayInTurn, OthersInTurn, StageInTurn DEF Next, EmptyTick
<1>3. InTurn => FirstCopiesInOrder
  BY DEF InTurn
<1> QED
  BY <1>1, <1>2, <1>3, Invariance, PTL DEF Spec

-----------------------------------------------------------------------------
(* How often an event is published: the proof of PublishBudget.  Calls are *)
(* counted against the row (Paid), the lock holder (CallOpen) and the      *)
(* faults; the first lemmas count the relays that are adrift, the others   *)
(* balance one step each.                                                  *)

LEMMA FewerOrAsMany ==
    ASSUME NEW S, IsFiniteSet(S), NEW T, T \subseteq S
    PROVE  /\ IsFiniteSet(T) /\ Cardinality(T) <= Cardinality(S)
           /\ Cardinality(T) \in Nat /\ Cardinality(S) \in Nat
BY FS_Subset, FS_CardinalityType

LEMMA OneMore ==
    ASSUME NEW S, IsFiniteSet(S), NEW x, NEW T, T \subseteq S \union {x}
    PROVE  /\ IsFiniteSet(T) /\ Cardinality(T) <= Cardinality(S) + 1
           /\ Cardinality(T) \in Nat /\ Cardinality(S) \in Nat
<1>1. /\ IsFiniteSet(S \union {x})
      /\ Cardinality(S \union {x}) <= Cardinality(S) + 1
      /\ Cardinality(S) \in Nat
  BY FS_AddElement, FS_CardinalityType
<1>2. /\ IsFiniteSet(T) /\ Cardinality(T) <= Cardinality(S \union {x})
      /\ Cardinality(T) \in Nat /\ Cardinality(S \union {x}) \in Nat
  BY <1>1, FewerOrAsMany
<1> QED
  BY <1>1, <1>2

LEMMA OneFewer ==
    ASSUME NEW S, IsFiniteSet(S), NEW x \in S, NEW T, T \subseteq S \ {x}
    PROVE  /\ IsFiniteSet(T) /\ Cardinality(T) + 1 <= Cardinality(S)
           /\ Cardinality(T) \in Nat /\ Cardinality(S) \in Nat
<1>1. /\ IsFiniteSet(S \ {x})
      /\ Cardinality(S \ {x}) = Cardinality(S) - 1
      /\ Cardinality(S) \in Nat
  BY FS_RemoveElement, FS_CardinalityType
<1>2. /\ IsFiniteSet(T) /\ Cardinality(T) <= Cardinality(S \ {x})
      /\ Cardinality(T) \in Nat
  BY <1>1, FewerOrAsMany
<1> QED
  BY <1>1, <1>2

(* A row accounts for at most max_retries calls, and for fewer while a     *)
(* relay can still add one.                                                *)
LEMMA PaidWithinBudget ==
    ASSUME Inv, NEW e \in Events
    PROVE  /\ Paid(e) \in Nat /\ Paid(e) <= MaxRetries
           /\ CallOpen(e) => Paid(e) < MaxRetries
<1>1. rows[e] # NoRow => /\ rows[e] \in Row /\ e \in staged
                         /\ WithinBudget(rows[e])
  BY DEF Inv, TypeOK, TableSound, RowSound
<1>2. CallOpen(e) => rows[e] # NoRow /\ rows[e].status = "pending"
  BY DEF CallOpen, HasOpenCall, Inv, LocksExclusive
<1> QED
  BY <1>1, <1>2, SettingsAssumption DEF Paid, WithinBudget, Row

(* The relays adrift with an event, when only relay r moved.               *)
LEMMA AdriftStep ==
    ASSUME NEW r \in Relays, NEW e \in Events, IsFiniteSet(Adrift(e)),
           \A s \in Relays \ {r} : IsAdrift(s, e)' => IsAdrift(s, e)
    PROVE  /\ IsFiniteSet(Adrift(e)')
           /\ Cardinality(Adrift(e)) \in Nat /\ Cardinality(Adrift(e)') \in Nat
           /\ Cardinality(Adrift(e)') <= Cardinality(Adrift(e)) + 1
           /\ (IsAdrift(r, e)' => IsAdrift(r, e)) =>
                 Cardinality(Adrift(e)') <= Cardinality(Adrift(e))
           /\ ~IsAdrift(r, e)' /\ IsAdrift(r, e) =>
                 Cardinality(Adrift(e)') + 1 <= Cardinality(Adrift(e))
<1> DEFINE S == Adrift(e) T == Adrift(e)'
<1>1. T \subseteq S \union {r}
  BY DEF Adrift
<1>2. (IsAdrift(r, e)' => IsAdrift(r, e)) => T \subseteq S
  BY DEF Adrift
<1>3. ~IsAdrift(r, e)' /\ IsAdrift(r, e) => r \in S /\ T \subseteq S \ {r}
  BY DEF Adrift
<1> HIDE DEF S, T
<1>4. IsFiniteSet(S)
  BY DEF S
<1>5. /\ IsFiniteSet(T) /\ Cardinality(T) <= Cardinality(S) + 1
      /\ Cardinality(T) \in Nat /\ Cardinality(S) \in Nat
  BY <1>1, <1>4, OneMore
<1>6. T \subseteq S => Cardinality(T) <= Cardinality(S)
  BY <1>4, FewerOrAsMany
<1>7. r \in S /\ T \subseteq S \ {r} => Cardinality(T) + 1 <= Cardinality(S)
  BY <1>4, OneFewer
<1> QED
  BY <1>2, <1>3, <1>5, <1>6, <1>7 DEF S, T

(* The balance in numbers: what a step adds on the left it adds on the     *)
(* right, or it is a requeue.                                              *)
LEMMA Account ==
    ASSUME Inv, Inv', BudgetTypeOK, NEW e \in Events, Balanced(e),
           IsFiniteSet(Adrift(e)'), calls'[e] \in Nat, requeues'[e] = requeues[e],
           Debit(e)' + Credit(e) <= Debit(e) + Credit(e)'
    PROVE  Balanced(e)'
<1>1. Credit(e) \in Nat /\ Credit(e)' \in Nat
  <2>1. Paid(e) \in Nat /\ faults \in Nat
    BY PaidWithinBudget DEF Inv, TypeOK
  <2>2. Paid(e)' \in Nat /\ faults' \in Nat
    <3>1. rows'[e] \in Row \union {NoRow} /\ faults' \in Nat
      BY DEF Inv, TypeOK
    <3> QED
      BY <3>1, SettingsAssumption DEF Paid, Row
  <2> QED
    BY <2>1, <2>2 DEF Credit
<1>2. Debit(e) \in Nat /\ Debit(e)' \in Nat
  BY FS_CardinalityType DEF Balanced, BudgetTypeOK, Debit
<1>3. MaxRetries * requeues[e] \in Nat
  BY SettingsAssumption DEF BudgetTypeOK
<1> DEFINE m == MaxRetries * requeues[e]
<1>4. m \in Nat /\ Debit(e) <= m + Credit(e)
  BY <1>3 DEF Balanced
<1>5. MaxRetries * requeues'[e] = m
  OBVIOUS
<1> HIDE DEF m
<1>6. Debit(e)' <= m + Credit(e)'
  BY <1>1, <1>2, <1>4
<1> QED
  BY <1>5, <1>6 DEF Balanced

(* Steps of one relay that leave the table alone: the row pays for nothing *)
(* new, so the step must cost nothing, or pay with a fault for one call it *)
(* lost sight of or one it let adrift, or settle or open a call it makes.  *)
LEMMA OneRelayMoves ==
    ASSUME Inv, Inv', BudgetTypeOK, BudgetNext, NEW r \in Relays, NEW e \in Events,
           Balanced(e), staged' = staged, rows'[e] = rows[e],
           \A s \in Relays \ {r} : /\ held'[s] = held[s] /\ phase'[s] = phase[s]
                                   /\ todo'[s] = todo[s] /\ cur'[s] = cur[s],
           \/ /\ cur'[r] = e => cur[r] = e
              /\ faults' \in {faults, faults + 1}
              /\ IsAdrift(r, e)' => IsAdrift(r, e)
              /\ HasOpenCall(r, e) => HasOpenCall(r, e)'
           \/ /\ cur'[r] = e => cur[r] = e
              /\ faults' = faults + 1
              /\ \/ IsAdrift(r, e)' => IsAdrift(r, e)
                 \/ HasOpenCall(r, e) => HasOpenCall(r, e)'
           \/ /\ faults' = faults
              /\ IsAdrift(r, e) /\ ~IsAdrift(r, e)'
              /\ HasOpenCall(r, e) => HasOpenCall(r, e)'
           \/ /\ faults' = faults
              /\ IsAdrift(r, e)' => IsAdrift(r, e)
              /\ ~CallOpen(e) /\ HasOpenCall(r, e)'
    PROVE  Balanced(e)'
<1> DEFINE called == cur[r] # e /\ cur'[r] = e
<1>1. \A s \in Relays \ {r} : /\ IsAdrift(s, e)' <=> IsAdrift(s, e)
                              /\ HasOpenCall(s, e)' <=> HasOpenCall(s, e)
  BY DEF IsAdrift, HasOpenCall
<1>2. /\ calls[e] \in Nat
      /\ calls'[e] = IF called THEN calls[e] + 1 ELSE calls[e]
      /\ requeues'[e] = requeues[e]
  <2>1. CallsPublish(e) <=> called
    BY DEF CallsPublish
  <2>2. ~Revives(e)
    BY DEF Revives
  <2> QED
    BY <2>1, <2>2 DEF BudgetTypeOK, BudgetNext
<1>3. Paid(e)' = Paid(e) /\ Paid(e) \in Nat
  BY PaidWithinBudget DEF Paid
<1>4. faults \in Nat /\ faults' \in Nat
  BY DEF Inv, TypeOK
<1> DEFINE n == Cardinality(Adrift(e)) m == Cardinality(Adrift(e)')
           o == IF CallOpen(e) THEN 1 ELSE 0 p == (IF CallOpen(e) THEN 1 ELSE 0)'
<1>5. /\ IsFiniteSet(Adrift(e)') /\ n \in Nat /\ m \in Nat
      /\ m <= n + 1
      /\ (IsAdrift(r, e)' => IsAdrift(r, e)) => m <= n
      /\ ~IsAdrift(r, e)' /\ IsAdrift(r, e) => m + 1 <= n
  BY <1>1, AdriftStep DEF Balanced
<1>6. /\ o \in {0, 1} /\ p \in {0, 1}
      /\ (HasOpenCall(r, e) => HasOpenCall(r, e)') => o <= p
      /\ ~CallOpen(e) /\ HasOpenCall(r, e)' => o = 0 /\ p = 1
  BY <1>1 DEF CallOpen
<1>7. calls'[e] + m + o + faults <= calls[e] + n + p + faults'
  <2> HIDE DEF m, n, o, p
  <2> QED
    BY <1>2, <1>4, <1>5, <1>6
<1>8. Debit(e)' + Credit(e) <= Debit(e) + Credit(e)'
  <2>1. /\ Debit(e)' = calls'[e] + m /\ Debit(e) = calls[e] + n
        /\ Credit(e) = Paid(e) + o + faults /\ Credit(e)' = Paid(e) + p + faults'
    BY <1>3 DEF Debit, Credit
  <2>2. calls'[e] \in Nat
    BY <1>2
  <2> HIDE DEF m, n, o, p
  <2> QED
    BY <1>2, <1>3, <1>4, <1>5, <1>6, <1>7, <2>1, <2>2
<1>9. calls'[e] \in Nat
  BY <1>2
<1> QED
  BY <1>2, <1>5, <1>8, <1>9, Account

LEMMA PublishBalanced ==
    ASSUME Inv, Inv', BudgetTypeOK, BudgetNext, NEW r \in Relays, NEW e \in Events,
           Balanced(e), Publish(r)
    PROVE  Balanced(e)'
<1>1. /\ phase[r] = "tick" /\ cur[r] = NoEvent
      /\ UNCHANGED <<staged, rows, held, phase, todo, faults>>
  BY DEF Publish
<1>2. PICK f \in todo[r] : cur' = [cur EXCEPT ![r] = f]
  BY DEF Publish
<1>3. cur'[r] = f /\ \A s \in Relays \ {r} : cur'[s] = cur[s]
  BY <1>2 DEF Inv, TypeOK
<1>4. e # NoEvent
  BY RelayAssumption
<1>5. CASE f # e
  <2>1. IsAdrift(r, e)' => IsAdrift(r, e)
    BY <1>1, <1>4 DEF IsAdrift
  <2>2. HasOpenCall(r, e) => HasOpenCall(r, e)'
    BY <1>1, <1>4 DEF HasOpenCall
  <2> QED
    BY <1>1, <1>3, <1>5, <2>1, <2>2, OneRelayMoves DEF Inv, TypeOK
<1>6. CASE f = e /\ e \in held[r]
  <2>1. ~CallOpen(e)
    BY <1>1, <1>2, <1>4, <1>6 DEF CallOpen, HasOpenCall, Inv, LocksExclusive
  <2>2. HasOpenCall(r, e)' /\ ~IsAdrift(r, e)'
    BY <1>1, <1>3, <1>6 DEF HasOpenCall, IsAdrift
  <2> QED
    BY <1>1, <1>3, <2>1, <2>2, OneRelayMoves
<1>7. CASE f = e /\ e \notin held[r]
  <2>1. IsAdrift(r, e) /\ ~IsAdrift(r, e)'
    BY <1>1, <1>3, <1>4, <1>7 DEF IsAdrift
  <2>2. ~HasOpenCall(r, e)
    BY <1>7 DEF HasOpenCall
  <2> QED
    BY <1>1, <1>3, <2>1, <2>2, OneRelayMoves
<1> QED
  BY <1>5, <1>6, <1>7

LEMMA FetchBalanced ==
    ASSUME Inv, Inv', BudgetTypeOK, BudgetNext, NEW r \in Relays, NEW e \in Events,
           Balanced(e), Fetch(r)
    PROVE  Balanced(e)'
<1>1. /\ phase[r] = "idle" /\ held[r] = {} /\ faults' = faults
      /\ UNCHANGED <<staged, rows, cur>>
  BY DEF Fetch, Inv, SessionSound
<1>2. PICK S : /\ held' = [held EXCEPT ![r] = S]
               /\ todo' = [todo EXCEPT ![r] = S]
               /\ phase' = [phase EXCEPT ![r] = "tick"]
  BY DEF Fetch
<1>3. held'[r] = S /\ todo'[r] = S
  BY <1>2 DEF Inv, TypeOK
<1>4. \A s \in Relays \ {r} : /\ held'[s] = held[s] /\ phase'[s] = phase[s]
                              /\ todo'[s] = todo[s] /\ cur'[s] = cur[s]
  BY <1>1, <1>2 DEF Inv, TypeOK
<1>5. ~IsAdrift(r, e)' /\ ~HasOpenCall(r, e)
  BY <1>1, <1>3 DEF IsAdrift, HasOpenCall
<1> QED
  BY <1>1, <1>4, <1>5, OneRelayMoves

LEMMA ProcessedBalanced ==
    ASSUME Inv, Inv', BudgetTypeOK, BudgetNext, NEW r \in Relays, NEW e \in Events,
           Balanced(e), NEW row, Processed(r, row), cur[r] # NoEvent,
           UNCHANGED <<staged, rows, faults>>
    PROVE  Balanced(e)'
<1>1. /\ UNCHANGED <<held, phase>> /\ cur'[r] = NoEvent
      /\ todo'[r] = todo[r] \ {cur[r]}
      /\ \A s \in Relays \ {r} : todo'[s] = todo[s] /\ cur'[s] = cur[s]
  BY DEF Processed, Inv, TypeOK
<1>2. e # NoEvent
  BY RelayAssumption
<1>3. IsAdrift(r, e)' => IsAdrift(r, e)
  BY <1>1 DEF IsAdrift
<1>4. HasOpenCall(r, e) => HasOpenCall(r, e)'
  BY <1>1 DEF HasOpenCall
<1>5. faults' \in {faults, faults + 1}
  OBVIOUS
<1> QED
  BY <1>1, <1>2, <1>3, <1>4, <1>5, OneRelayMoves

LEMMA UpdatePendingGaugeBalanced ==
    ASSUME Inv, Inv', BudgetTypeOK, BudgetNext, NEW r \in Relays, NEW e \in Events,
           Balanced(e), UpdatePendingGauge(r)
    PROVE  Balanced(e)'
<1>1. /\ UNCHANGED <<staged, rows, held, todo, cur>>
      /\ \A s \in Relays \ {r} : phase'[s] = phase[s]
  BY DEF UpdatePendingGauge, Inv, TypeOK
<1>2. IsAdrift(r, e)' => IsAdrift(r, e)
  BY <1>1 DEF IsAdrift
<1>3. CASE faults' = faults + 1
  BY <1>1, <1>2, <1>3, OneRelayMoves
<1>4. CASE faults' = faults /\ phase'[r] = "commit"
  <2>1. HasOpenCall(r, e) => HasOpenCall(r, e)'
    BY <1>1, <1>4 DEF HasOpenCall
  <2> QED
    BY <1>1, <1>2, <1>4, <2>1, OneRelayMoves
<1> QED
  BY <1>3, <1>4 DEF UpdatePendingGauge, Inv, TypeOK

LEMMA DisconnectBalanced ==
    ASSUME Inv, Inv', BudgetTypeOK, BudgetNext, NEW r \in Relays, NEW e \in Events,
           Balanced(e), Disconnect(r)
    PROVE  Balanced(e)'
<1>1. /\ faults' = faults + 1 /\ held'[r] = {}
      /\ UNCHANGED <<staged, rows, phase, todo, cur>>
      /\ \A s \in Relays \ {r} : held'[s] = held[s]
  BY DEF Disconnect, Inv, TypeOK
<1>2. \/ IsAdrift(r, e)' => IsAdrift(r, e)
      \/ HasOpenCall(r, e) => HasOpenCall(r, e)'
  BY <1>1 DEF IsAdrift, HasOpenCall
<1> QED
  BY <1>1, <1>2, OneRelayMoves

LEMMA SessionEndsBalanced ==
    ASSUME Inv, Inv', BudgetTypeOK, BudgetNext, NEW r \in Relays, NEW e \in Events,
           Balanced(e), staged' = staged, rows'[e] = rows[e],
           NEW p \in {"idle", "down"}, EndSession(r, p),
           \/ faults' = faults + 1
           \/ faults' = faults /\ ~HasOpenCall(r, e)
    PROVE  Balanced(e)'
<1>1. /\ todo'[r] = {} /\ cur'[r] = NoEvent
      /\ \A s \in Relays \ {r} : /\ held'[s] = held[s] /\ phase'[s] = phase[s]
                                 /\ todo'[s] = todo[s] /\ cur'[s] = cur[s]
  BY DEF EndSession, Inv, TypeOK
<1>2. e # NoEvent
  BY RelayAssumption
<1>3. ~IsAdrift(r, e)'
  BY <1>1 DEF IsAdrift
<1> QED
  BY <1>1, <1>2, <1>3, OneRelayMoves

LEMMA StartBalanced ==
    ASSUME Inv, Inv', BudgetTypeOK, BudgetNext, NEW r \in Relays, NEW e \in Events,
           Balanced(e), Start(r)
    PROVE  Balanced(e)'
<1>1. /\ phase[r] = "down" /\ held[r] = {} /\ faults' = faults
      /\ UNCHANGED <<staged, rows, held, todo, cur>>
      /\ \A s \in Relays \ {r} : phase'[s] = phase[s]
  BY DEF Start, Inv, TypeOK, SessionSound
<1>2. (IsAdrift(r, e)' => IsAdrift(r, e)) /\ ~HasOpenCall(r, e)
  BY <1>1 DEF IsAdrift, HasOpenCall
<1> QED
  BY <1>1, <1>2, OneRelayMoves

(* A commit turns the call a relay made for a row it holds into an attempt *)
(* the row has counted, or into a row that is settled.                     *)
LEMMA CommitBalanced ==
    ASSUME Inv, Inv', TicksSound, BudgetTypeOK, BudgetNext, NEW r \in Relays,
           NEW e \in Events, Balanced(e), Commit(r)
    PROVE  Balanced(e)'
<1>1. /\ rows' = [f \in Events |-> IF f \in held[r] THEN work[r][f] ELSE rows[f]]
      /\ EndSession(r, "idle") /\ UNCHANGED <<staged, faults>>
      /\ phase[r] = "commit" /\ todo[r] = {}
  BY DEF Commit, TicksSound, TickSound
<1>2. CASE e \notin held[r]
  <2>1. rows'[e] = rows[e] /\ ~HasOpenCall(r, e)
    BY <1>1, <1>2 DEF HasOpenCall
  <2> QED
    BY <1>1, <2>1, SessionEndsBalanced
<1>3. CASE e \in held[r]
  <2>1. /\ todo'[r] = {} /\ held'[r] = {} /\ cur'[r] = NoEvent
        /\ \A s \in Relays \ {r} : /\ held'[s] = held[s] /\ phase'[s] = phase[s]
                                   /\ todo'[s] = todo[s] /\ cur'[s] = cur[s]
    BY <1>1 DEF EndSession, Inv, TypeOK
  <2>2. ~CallsPublish(e)
    BY <2>1, RelayAssumption DEF CallsPublish
  <2>3. /\ rows[e] # NoRow /\ rows[e].status = "pending" /\ rows[e] \in Row
        /\ e \in staged /\ WithinBudget(rows[e])
    BY <1>3 DEF Inv, LocksExclusive, TypeOK, TableSound, RowSound
  <2>4. /\ rows'[e] = work[r][e] /\ rows'[e] # NoRow /\ work[r][e] \in Row
        /\ Forward(rows[e], work[r][e])
    BY <1>1, <1>3 DEF TicksSound, TickSound, Inv, TypeOK, SessionSound
  <2>5. Paid(e) + 1 <= Paid(e)' /\ Paid(e) \in Nat /\ Paid(e)' \in Nat
    <3>1. Paid(e) = rows[e].retry_count /\ rows[e].retry_count < MaxRetries
      BY <2>3 DEF Paid, WithinBudget
    <3>2. Paid(e)' = IF work[r][e].status = "pending"
                     THEN work[r][e].retry_count ELSE MaxRetries
      BY <1>1, <2>3, <2>4 DEF Paid
    <3>3. rows[e].retry_count \in Nat /\ work[r][e].retry_count \in Nat
      BY <2>3, <2>4 DEF Row
    <3> QED
      BY <2>4, <3>1, <3>2, <3>3, SettingsAssumption DEF Forward
  <2>6. /\ IsFiniteSet(Adrift(e)')
        /\ Cardinality(Adrift(e)) \in Nat /\ Cardinality(Adrift(e)') \in Nat
        /\ Cardinality(Adrift(e)') <= Cardinality(Adrift(e))
    <3>1. ~IsAdrift(r, e)' /\ \A s \in Relays \ {r} : IsAdrift(s, e)' => IsAdrift(s, e)
      BY <2>1 DEF IsAdrift
    <3> QED
      BY <3>1, AdriftStep DEF Balanced
  <2>7. calls'[e] = calls[e] /\ calls[e] \in Nat /\ requeues'[e] = requeues[e]
    <3>1. ~Revives(e)
      BY <2>3 DEF Revives
    <3> QED
      BY <2>2, <3>1 DEF BudgetTypeOK, BudgetNext
  <2>8. Debit(e)' + Credit(e) <= Debit(e) + Credit(e)'
    <3> DEFINE n == Cardinality(Adrift(e)) m == Cardinality(Adrift(e)')
               o == IF CallOpen(e) THEN 1 ELSE 0 p == (IF CallOpen(e) THEN 1 ELSE 0)'
    <3>1. /\ Debit(e)' = calls[e] + m /\ Debit(e) = calls[e] + n
          /\ Credit(e) = Paid(e) + o + faults /\ Credit(e)' = Paid(e)' + p + faults
      BY <1>1, <2>7 DEF Debit, Credit
    <3>2. o \in {0, 1} /\ p \in {0, 1} /\ faults \in Nat
      BY DEF Inv, TypeOK
    <3> HIDE DEF n, m, o, p
    <3>3. n \in Nat /\ m \in Nat /\ m <= n
      BY <2>6 DEF n, m
    <3> QED
      BY <2>5, <2>7, <3>1, <3>2, <3>3
  <2> QED
    BY <2>6, <2>7, <2>8, Account
<1> QED
  BY <1>2, <1>3

LEMMA RollbackBalanced ==
    ASSUME Inv, Inv', BudgetTypeOK, BudgetNext, NEW r \in Relays, NEW e \in Events,
           Balanced(e), Rollback(r)
    PROVE  Balanced(e)'
<1>1. /\ EndSession(r, "idle") /\ UNCHANGED <<staged, rows, faults>>
      /\ phase[r] = "doomed" \/ held[r] = {}
  BY DEF Rollback
<1>2. ~HasOpenCall(r, e)
  BY <1>1 DEF HasOpenCall
<1> QED
  BY <1>1, <1>2, SessionEndsBalanced

(* So every attempt that ends leaves its row behind.                       *)
LEMMA AttemptProcessed ==
    ASSUME MaxRetries <= ExpOverflow, Inv, NEW r \in Relays,
           PublishOk(r) \/ PublishErr(r)
    PROVE  /\ cur[r] # NoEvent
           /\ \E row : Processed(r, row)
           /\ UNCHANGED <<staged, rows, faults>>
<1>1. cur[r] # NoEvent /\ UNCHANGED <<staged, rows, faults>> /\ now \in Nat
  BY DEF PublishOk, PublishErr, Inv, SessionSound, TypeOK
<1>2. /\ work[r][cur[r]] \in Row /\ work[r][cur[r]].retry_count < MaxRetries
  BY <1>1, CurrentRow DEF WithinBudget
<1>3. /\ MarkPublished(work[r][cur[r]], now) \in Row
      /\ MarkPublished(work[r][cur[r]], now).retry_count < MaxRetries
  BY <1>1, <1>2, MarkPublishedProperties
<1>4. /\ FailureOutcomes(work[r][cur[r]], now) # {}
      /\ FailureOutcomes(MarkPublished(work[r][cur[r]], now), now) # {}
  BY <1>1, <1>2, <1>3, FailureHappens
<1> QED
  BY <1>1, <1>4 DEF PublishOk, PublishErr, RecordFailure

LEMMA StoreBalanced ==
    ASSUME Inv, Inv', BudgetTypeOK, BudgetNext, NEW r \in Relays, NEW e \in Events,
           Balanced(e), Store(r)
    PROVE  Balanced(e)'
<1>1. UNCHANGED <<staged, rows, held, phase, todo, cur, faults>>
  BY DEF Store
<1>2. IsAdrift(r, e)' = IsAdrift(r, e) /\ HasOpenCall(r, e)' = HasOpenCall(r, e)
  BY <1>1 DEF IsAdrift, HasOpenCall
<1>3. faults' \in {faults, faults + 1}
  BY <1>1
<1> QED
  BY <1>1, <1>2, <1>3, OneRelayMoves

LEMMA RelayBalanced ==
    ASSUME MaxRetries <= ExpOverflow, Inv, Inv', TicksSound, BudgetTypeOK, BudgetNext,
           NEW r \in Relays, NEW e \in Events, Balanced(e),
           RelayStep(r) \/ Disconnect(r) \/ Abort(r) \/ Start(r)
    PROVE  Balanced(e)'
<1>1. CASE Fetch(r) \/ Publish(r) \/ Store(r)
  BY <1>1, FetchBalanced, PublishBalanced, StoreBalanced
<1>2. CASE PublishOk(r) \/ PublishErr(r)
  BY <1>2, AttemptProcessed, ProcessedBalanced
<1>3. CASE UpdatePendingGauge(r) \/ Commit(r) \/ Rollback(r)
  BY <1>3, UpdatePendingGaugeBalanced, CommitBalanced, RollbackBalanced
<1>4. CASE Disconnect(r) \/ Start(r)
  BY <1>4, DisconnectBalanced, StartBalanced
<1>5. CASE Abort(r)
  BY <1>5, SessionEndsBalanced DEF Abort
<1> QED
  BY <1>1, <1>2, <1>3, <1>4, <1>5 DEF RelayStep

(* Steps that no relay takes part in.                                      *)
LEMMA OthersBalanced ==
    ASSUME Inv, Inv', BudgetTypeOK, BudgetNext, NEW e \in Events, Balanced(e),
           UNCHANGED <<held, phase, todo, cur, faults>>,
           \/ rows'[e] = rows[e] /\ staged' = staged
           \/ ~Revives(e) /\ Paid(e) <= Paid(e)'
           \/ Revives(e) /\ Paid(e) = MaxRetries /\ Paid(e)' = 0
    PROVE  Balanced(e)'
<1>1. Adrift(e)' = Adrift(e) /\ CallOpen(e)' = CallOpen(e)
  BY DEF Adrift, IsAdrift, CallOpen, HasOpenCall
<1>2. ~CallsPublish(e)
  BY DEF CallsPublish
<1>3. /\ calls'[e] = calls[e] /\ calls[e] \in Nat /\ requeues[e] \in Nat
      /\ requeues'[e] = IF Revives(e) THEN requeues[e] + 1 ELSE requeues[e]
  BY <1>2 DEF BudgetTypeOK, BudgetNext
<1>4. Debit(e)' = Debit(e) /\ Debit(e) \in Nat
  BY <1>1, <1>3, FS_CardinalityType DEF Debit, Balanced
<1>5. /\ Paid(e) \in Nat /\ Paid(e)' \in Nat /\ faults \in Nat
  <2>1. rows'[e] \in Row \union {NoRow} /\ faults \in Nat
    BY DEF Inv, TypeOK
  <2> QED
    BY <2>1, PaidWithinBudget, SettingsAssumption DEF Paid, Row
<1> DEFINE o == IF CallOpen(e) THEN 1 ELSE 0
<1>6. /\ Credit(e) = Paid(e) + o + faults /\ Credit(e)' = Paid(e)' + o + faults
      /\ o \in {0, 1}
  BY <1>1 DEF Credit
<1> HIDE DEF o
<1>7. CASE ~Revives(e) /\ Paid(e) <= Paid(e)'
  <2>1. Debit(e)' + Credit(e) <= Debit(e) + Credit(e)'
    BY <1>4, <1>5, <1>6, <1>7
  <2>2. IsFiniteSet(Adrift(e)') /\ calls'[e] \in Nat /\ requeues'[e] = requeues[e]
    BY <1>1, <1>3, <1>7 DEF Balanced
  <2> QED
    BY <2>1, <2>2, Account
<1>8. CASE Revives(e) /\ Paid(e) = MaxRetries /\ Paid(e)' = 0
  <2>1. MaxRetries * requeues'[e] = MaxRetries * requeues[e] + MaxRetries
        /\ MaxRetries * requeues[e] \in Nat
    BY <1>3, <1>8, SettingsAssumption
  <2>2. Debit(e) <= MaxRetries * requeues[e] + Credit(e)
    BY DEF Balanced
  <2> DEFINE x == MaxRetries * requeues[e] y == MaxRetries * requeues'[e]
  <2>3. x \in Nat /\ y = x + MaxRetries /\ Debit(e) <= x + Credit(e)
    BY <2>1, <2>2
  <2> HIDE DEF x, y
  <2>4. Debit(e)' <= y + Credit(e)'
    BY <1>4, <1>5, <1>6, <1>8, <2>3, SettingsAssumption
  <2> QED
    BY <1>1, <2>4 DEF Balanced, y
<1>9. CASE rows'[e] = rows[e] /\ staged' = staged
  <2>1. ~Revives(e)
    BY <1>9 DEF Revives
  <2>2. Paid(e)' = Paid(e)
    BY <1>9 DEF Paid
  <2> QED
    BY <1>5, <1>7, <2>1, <2>2
<1> QED
  BY <1>7, <1>8, <1>9

LEMMA RequeueBalanced ==
    ASSUME Inv, Inv', BudgetTypeOK, BudgetNext, NEW e \in Events, Balanced(e), Requeue
    PROVE  Balanced(e)'
<1>1. PICK S \in {Failed} \union {{f} : f \in Failed} :
         rows' = [f \in Events |-> IF f \in S THEN Requeued(rows[f], now)
                                              ELSE rows[f]]
  BY DEF Requeue
<1>2. UNCHANGED <<now, staged, held, phase, todo, cur, faults>>
  BY DEF Requeue, session
<1>3. CASE e \in S
  <2>1. rows[e] \in Row /\ rows[e] # NoRow /\ rows[e].status = "failed" /\ e \in staged
    BY <1>1, <1>3 DEF Failed, Inv, TypeOK, TableSound
  <2>2. /\ rows'[e] # NoRow /\ rows'[e].status = "pending" /\ rows'[e].retry_count = 0
    <3>1. Requeued(rows[e], now) \in Row /\ Requeued(rows[e], now).status = "pending"
      BY <2>1, RequeuedProperties DEF Inv, TypeOK
    <3>2. Requeued(rows[e], now).retry_count = 0
      BY <2>1 DEF Requeued, Row
    <3> QED
      BY <1>1, <1>3, <3>1, <3>2, NullAssumption
  <2>3. Revives(e) /\ Paid(e) = MaxRetries /\ Paid(e)' = 0
    BY <1>2, <2>1, <2>2 DEF Revives, Paid
  <2> QED
    BY <1>2, <2>3, OthersBalanced
<1>4. CASE e \notin S
  BY <1>1, <1>2, <1>4, OthersBalanced
<1> QED
  BY <1>3, <1>4

LEMMA RunCleanupBalanced ==
    ASSUME Inv, Inv', BudgetTypeOK, BudgetNext, NEW e \in Events, Balanced(e), RunCleanup
    PROVE  Balanced(e)'
<1>1. /\ rows' = [f \in Events |-> IF f \in Expired THEN NoRow ELSE rows[f]]
      /\ UNCHANGED <<staged, held, phase, todo, cur, faults>>
  BY DEF RunCleanup, session
<1>2. CASE e \in Expired
  <2>1. /\ rows[e] # NoRow /\ rows[e].status = "published" /\ e \in staged
        /\ rows'[e] = NoRow
    BY <1>1, <1>2 DEF Expired, IsExpired, Inv, TableSound
  <2>2. ~Revives(e) /\ Paid(e) = MaxRetries /\ Paid(e)' = MaxRetries
    BY <1>1, <2>1 DEF Revives, Paid
  <2>3. Paid(e) <= Paid(e)'
    BY <2>2, SettingsAssumption
  <2> QED
    BY <1>1, <2>2, <2>3, OthersBalanced
<1>3. CASE e \notin Expired
  BY <1>1, <1>3, OthersBalanced
<1> QED
  BY <1>2, <1>3

LEMMA StageBalanced ==
    ASSUME Inv, Inv', BudgetTypeOK, BudgetNext, NEW e \in Events, Balanced(e),
           NEW f \in Events, Stage(f)
    PROVE  Balanced(e)'
<1>1. /\ staged' = staged \union {f}
      /\ UNCHANGED <<held, phase, todo, cur, faults>>
  BY DEF Stage, session
<1>2. f \notin staged /\ rows[f] = NoRow
  BY DEF Stage, Inv, TableSound
<1>3. CASE e = f
  <2>1. ~Revives(e) /\ Paid(e) = 0
    BY <1>2, <1>3 DEF Revives, Paid
  <2>2. Paid(e)' \in Nat
    <3>1. rows'[e] \in Row \union {NoRow}
      BY DEF Inv, TypeOK
    <3> QED
      BY <3>1, SettingsAssumption DEF Paid, Row
  <2>3. Paid(e) <= Paid(e)'
    BY <2>1, <2>2
  <2> QED
    BY <1>1, <2>1, <2>3, OthersBalanced
<1>4. CASE e # f
  <2>1. rows'[e] = rows[e] /\ (e \in staged' <=> e \in staged)
    BY <1>1, <1>4 DEF Stage, Inv, TypeOK
  <2>2. ~Revives(e) /\ Paid(e)' = Paid(e) /\ Paid(e) \in Nat
    BY <2>1, PaidWithinBudget DEF Revives, Paid
  <2>3. Paid(e) <= Paid(e)'
    BY <2>2
  <2> QED
    BY <1>1, <2>2, <2>3, OthersBalanced
<1> QED
  BY <1>3, <1>4

LEMMA IdleBalanced ==
    ASSUME Inv, Inv', BudgetTypeOK, BudgetNext, NEW e \in Events, Balanced(e),
           UNCHANGED <<staged, rows, held, phase, todo, cur, faults>>
    PROVE  Balanced(e)'
BY OthersBalanced

LEMMA NextBalanced ==
    ASSUME MaxRetries <= ExpOverflow, Inv, Inv', TicksSound, BudgetTypeOK, BudgetNext,
           NEW e \in Events, Balanced(e)
    PROVE  Balanced(e)'
<1>1. ASSUME NEW f \in Events, Stage(f)
      PROVE  Balanced(e)'
  BY <1>1, StageBalanced
<1>2. ASSUME NEW f \in Events, StoreLate(f) \/ LoseLate(f)
      PROVE  Balanced(e)'
  BY <1>2, IdleBalanced DEF StoreLate, LoseLate, session
<1>3. ASSUME NEW r \in Relays, RelayStep(r) \/ Disconnect(r) \/ Abort(r) \/ Start(r)
      PROVE  Balanced(e)'
  BY <1>3, RelayBalanced
<1>4. ASSUME NEW r \in Relays, EmptyTick(r)
      PROVE  Balanced(e)'
  BY <1>4, IdleBalanced DEF EmptyTick, vars, session
<1>5. CASE RunCleanup \/ Requeue
  BY <1>5, RunCleanupBalanced, RequeueBalanced
<1>6. CASE AdvanceTime
  BY <1>6, IdleBalanced DEF AdvanceTime, session
<1>7. Next
  BY DEF BudgetNext
<1> QED
  BY <1>1, <1>2, <1>3, <1>4, <1>5, <1>6, <1>7 DEF Next

(* Nothing is spent before anything is staged.                             *)
LEMMA InitBalanced == BudgetInit => BudgetInv
<1> SUFFICES ASSUME BudgetInit PROVE BudgetInv
  OBVIOUS
<1>1. BudgetTypeOK
  BY DEF BudgetInit, BudgetTypeOK
<1>2. ASSUME NEW e \in Events PROVE Balanced(e)
  <2>1. Adrift(e) = {}
    BY <1>2 DEF BudgetInit, Init, Adrift, IsAdrift
  <2>2. IsFiniteSet(Adrift(e)) /\ Cardinality(Adrift(e)) = 0
    BY <2>1, FS_EmptySet
  <2>3. Debit(e) = 0
    BY <2>2 DEF Debit, BudgetInit
  <2>4. Credit(e) = 0
    BY DEF Credit, Paid, CallOpen, HasOpenCall, BudgetInit, Init
  <2>5. MaxRetries * requeues[e] = 0
    BY SettingsAssumption DEF BudgetInit
  <2> QED
    BY <2>2, <2>3, <2>4, <2>5 DEF Balanced
<1> QED
  BY <1>1, <1>2 DEF BudgetInv

LEMMA NextKeepsBudget ==
    ASSUME MaxRetries <= ExpOverflow, Inv, Inv', TicksSound, BudgetInv,
           [BudgetNext]_budgetVars
    PROVE  BudgetInv'
<1>1. CASE BudgetNext
  <2>1. BudgetTypeOK'
    BY <1>1 DEF BudgetInv, BudgetTypeOK, BudgetNext
  <2>2. \A e \in Events : Balanced(e)'
    BY <1>1, NextBalanced DEF BudgetInv
  <2> QED
    BY <2>1, <2>2 DEF BudgetInv
<1>2. CASE UNCHANGED budgetVars
  BY <1>2 DEF budgetVars, vars, session, BudgetInv, BudgetTypeOK, Balanced, Debit,
              Credit, Paid, CallOpen, HasOpenCall, Adrift, IsAdrift
<1> QED
  BY <1>1, <1>2

(* The balance bounds the calls: a row never accounts for more than        *)
(* max_retries of them, and for fewer while another is open.               *)
LEMMA BalanceBounds == Inv /\ BudgetInv => PublishesBounded
<1> SUFFICES ASSUME Inv, BudgetInv, NEW e \in Events
             PROVE  calls[e] <= MaxRetries * (requeues[e] + 1) + faults
  BY DEF PublishesBounded
<1>1. /\ calls[e] \in Nat /\ requeues[e] \in Nat /\ faults \in Nat
      /\ Cardinality(Adrift(e)) \in Nat
  BY FS_CardinalityType DEF BudgetInv, BudgetTypeOK, Balanced, Inv, TypeOK
<1>2. MaxRetries * (requeues[e] + 1) = MaxRetries * requeues[e] + MaxRetries
      /\ MaxRetries * requeues[e] \in Nat
  BY <1>1, SettingsAssumption
<1>3. Paid(e) + (IF CallOpen(e) THEN 1 ELSE 0) <= MaxRetries
  BY PaidWithinBudget, SettingsAssumption
<1> DEFINE x == MaxRetries * requeues[e] y == MaxRetries * (requeues[e] + 1)
           o == IF CallOpen(e) THEN 1 ELSE 0 n == Cardinality(Adrift(e))
<1>4. /\ calls[e] + n <= x + (Paid(e) + o + faults)
      /\ Paid(e) \in Nat /\ o \in {0, 1}
  BY PaidWithinBudget DEF BudgetInv, Balanced, Debit, Credit
<1>5. x \in Nat /\ y = x + MaxRetries /\ Paid(e) + o <= MaxRetries
  BY <1>2, <1>3
<1>6. n \in Nat
  BY <1>1
<1> HIDE DEF x, y, o, n
<1>7. calls[e] <= y + faults
  BY <1>1, <1>4, <1>5, <1>6, SettingsAssumption
<1> QED
  BY <1>7 DEF y

(* The account of every event balances in every reachable state.           *)
(* max_retries must be one _backoff can count to: past that, an exception  *)
(* rolls the batch back and its calls are counted nowhere (RelayOverflow). *)
THEOREM BudgetKept ==
    ASSUME MaxRetries <= ExpOverflow
    PROVE  BudgetSpec => []BudgetInv
<1>1. BudgetInit => Init /\ BudgetInv
  BY InitBalanced DEF BudgetInit
<1>2. [BudgetNext]_budgetVars => [Next]_vars
  BY DEF BudgetNext, budgetVars
<1>3. BudgetSpec => []Inv /\ []TicksSound
  BY <1>1, <1>2, InitInv, NextKeepsInv, InitTicksSound, NextTicksSound, PTL DEF BudgetSpec
<1>4. Inv /\ Inv' /\ TicksSound /\ BudgetInv /\ [BudgetNext]_budgetVars => BudgetInv'
  BY NextKeepsBudget
<1> QED
  BY <1>1, <1>3, <1>4, PTL DEF BudgetSpec

(* No event is published more often than its lives and the faults account  *)
(* for: max_retries attempts each life and one extra per fault, however    *)
(* many relays there are, with or without metrics, and however NATS fails. *)
THEOREM BoundedPublishes ==
    ASSUME MaxRetries <= ExpOverflow
    PROVE  BudgetSpec => []PublishesBounded
<1>1. [BudgetNext]_budgetVars => [Next]_vars
  BY DEF BudgetNext, budgetVars
<1>2. BudgetSpec => []Inv
  BY <1>1, InitInv, NextKeepsInv, PTL DEF BudgetSpec, BudgetInit
<1> QED
  BY <1>2, BudgetKept, BalanceBounds, PTL

=============================================================================
