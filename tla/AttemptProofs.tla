---------------------------- MODULE AttemptProofs ----------------------------
(***************************************************************************)
(* What Attempts guarantees for any number of tasks, dispatches and        *)
(* attempts.                                                               *)
(***************************************************************************)
EXTENDS Attempts, FiniteSetTheorems, TLAPS

Attempt == [id : Ids, status : Outcomes, stamped : BOOLEAN]
Entity == [open : BOOLEAN, attempts : Seq(Attempt), text : BOOLEAN]
TaskRow == [open : BOOLEAN, text : BOOLEAN]
Call == [pc : {"idle", "asking", "executing"}, task : Tasks \cup {0}, n : Nat]

\* A table of attempts.
Table(rows) ==
  /\ DOMAIN rows \subseteq Ids
  /\ rows \in [DOMAIN rows -> [task : Tasks, status : Outcomes]]

\* TypeOK, with the view of the transaction, and as functions.
Typed ==
  /\ task \in [Tasks -> Entity]
  /\ saved \in [Tasks -> TaskRow]
  /\ Table(attempts)
  /\ kept \subseteq Tasks \X Ids
  /\ call \in [Runners -> Call]
  /\ tx # NoTx => /\ tx.at \in Nat
                  /\ tx.saved \in [Tasks -> TaskRow]
                  /\ Table(tx.attempts)
                  /\ tx.kept \subseteq Tasks \X Ids

\* A task is dispatched by one runner at a time, which has room for its attempt, has
\* made it, and found no success.
Dispatched ==
  \A r \in Runners : call[r].pc # "idle" =>
    LET t == call[r].task IN
    /\ t \in Tasks
    /\ \A q \in Runners \ {r} : call[q].task # t
    /\ ~Succeeded(t)
    /\ call[r].pc = "asking" => Len(task[t].attempts) < MaxAttempts
    /\ call[r].pc = "executing" => call[r].n \in DOMAIN task[t].attempts

Sound == Typed /\ Dispatched

-----------------------------------------------------------------------------
(* What the operations do to the entities and to the tables.                *)

LEMMA IdsOfAttempts ==
  ASSUME NEW t, NEW i
  PROVE  i \in MergedIds(t) <=> \E n \in DOMAIN task[t].attempts : task[t].attempts[n].id = i
BY DEF MergedIds, ToSet

LEMMA AppendedSequence ==
  ASSUME NEW S, NEW s \in Seq(S), NEW e \in S
  PROVE  /\ Append(s, e) \in Seq(S)
         /\ DOMAIN Append(s, e) = DOMAIN s \cup {Len(s) + 1}
         /\ \A n \in DOMAIN s : Append(s, e)[n] = s[n]
         /\ Append(s, e)[Len(s) + 1] = e
OBVIOUS

\* create_attempt: one more attempt, n, the others as they were.
MakesAttempt(t, n) ==
  /\ task' \in [Tasks -> Entity]
  /\ \A u \in Tasks : u # t => task'[u] = task[u]
  /\ task'[t].text = task[t].text
  /\ DOMAIN task'[t].attempts = DOMAIN task[t].attempts \cup {n}
  /\ \A m \in DOMAIN task[t].attempts : task'[t].attempts[m] = task[t].attempts[m]
  /\ task'[t].attempts[n].stamped \in Stamps
  /\ task'[t].attempts[n].status = "pending"

LEMMA AcceptedFacts ==
  ASSUME Sound, NEW r \in Runners, Accepted(r), NEW t, t = call[r].task,
         NEW n, n = Len(task[t].attempts) + 1
  PROVE  t \in Tasks /\ MakesAttempt(t, n)
<1>1. /\ call[r].pc = "asking" /\ t \in Tasks /\ task \in [Tasks -> Entity]
      /\ Len(task[t].attempts) < MaxAttempts
  BY DEF Accepted, Sound, Dispatched, Typed
<1>2. task[t] \in Entity /\ task[t].attempts \in Seq(Attempt)
  BY <1>1 DEF Entity
<1>3. PICK stamped \in Stamps :
        task' = [task EXCEPT ![t].attempts =
                   Append(@, [id |-> NextId(t), status |-> "pending", stamped |-> stamped])]
  BY DEF Accepted
<1> DEFINE a == [id |-> NextId(t), status |-> "pending", stamped |-> stamped]
           as == Append(task[t].attempts, a)
<1>4. a \in Attempt
  BY <1>1, <1>2, <1>3, BoundsAssumption, ChoicesAssumption DEF Attempt, NextId, Ids, Outcomes
<1>5. a.stamped \in Stamps /\ a.status = "pending"
  BY <1>3
<1> HIDE DEF a
<1>6. /\ as \in Seq(Attempt)
      /\ DOMAIN as = DOMAIN task[t].attempts \cup {n}
      /\ \A m \in DOMAIN task[t].attempts : as[m] = task[t].attempts[m]
      /\ as[n] = a
  BY SMTT(30), <1>2, <1>4, AppendedSequence
<1>7. task' = [task EXCEPT ![t] = [task[t] EXCEPT !.attempts = as]]
  BY <1>1, <1>3 DEF a
<1> HIDE DEF as
<1>8. /\ [task[t] EXCEPT !.attempts = as] \in Entity
      /\ [task[t] EXCEPT !.attempts = as].text = task[t].text
      /\ [task[t] EXCEPT !.attempts = as].attempts = as
  BY <1>2, <1>6 DEF Entity
<1> DEFINE e == [task[t] EXCEPT !.attempts = as]
<1> HIDE DEF e
<1>9. task' \in [Tasks -> Entity] /\ task'[t] = e /\ \A u \in Tasks : u # t => task'[u] = task[u]
  BY <1>1, <1>7, <1>8 DEF e
<1> QED BY ZenonT(30), <1>1, <1>5, <1>6, <1>8, <1>9 DEF e, MakesAttempt

\* execute_task: the status of one attempt and the text of its task.
LEMMA RecordFacts ==
  ASSUME Sound, NEW r \in Runners, NEW s \in Outcomes, NEW x \in BOOLEAN, Record(r, s, x),
         NEW t, t = call[r].task, NEW n, n = call[r].n
  PROVE  /\ t \in Tasks /\ n \in DOMAIN task[t].attempts /\ task' \in [Tasks -> Entity]
         /\ \A u \in Tasks : u # t => task'[u] = task[u]
         /\ task'[t].text = x
         /\ DOMAIN task'[t].attempts = DOMAIN task[t].attempts
         /\ \A m \in DOMAIN task[t].attempts :
              IF m = n THEN /\ task'[t].attempts[m].id = task[t].attempts[m].id
                            /\ task'[t].attempts[m].stamped = task[t].attempts[m].stamped
                            /\ task'[t].attempts[m].status = s
              ELSE task'[t].attempts[m] = task[t].attempts[m]
<1>1. /\ call[r].pc = "executing" /\ t \in Tasks /\ task \in [Tasks -> Entity]
      /\ n \in DOMAIN task[t].attempts
  BY DEF Record, Sound, Dispatched, Typed
<1>2. task[t] \in Entity /\ task[t].attempts \in Seq(Attempt)
  BY <1>1 DEF Entity
<1> DEFINE as == [task[t].attempts EXCEPT ![n].status = s]
           e == [task[t] EXCEPT !.attempts = as, !.text = x]
<1>3. task[t].attempts[n] \in Attempt
  BY <1>1, <1>2
<1>4. [task[t].attempts[n] EXCEPT !.status = s] \in Attempt
  BY <1>3 DEF Attempt
<1>5. as \in Seq(Attempt) /\ DOMAIN as = DOMAIN task[t].attempts
  BY <1>1, <1>2, <1>4
<1>6. \A m \in DOMAIN task[t].attempts :
        IF m = n THEN /\ as[m].id = task[t].attempts[m].id
                      /\ as[m].stamped = task[t].attempts[m].stamped
                      /\ as[m].status = s
        ELSE as[m] = task[t].attempts[m]
  BY <1>1, <1>2, <1>3 DEF Attempt
<1>7. task' = [task EXCEPT ![t] = e]
  BY <1>1, <1>2 DEF Record, Entity
<1> HIDE DEF as
<1>8. e \in Entity /\ e.attempts = as /\ e.text = x
  BY <1>2, <1>5 DEF Entity
<1> HIDE DEF e
<1>9. task' \in [Tasks -> Entity] /\ task'[t] = e /\ \A u \in Tasks : u # t => task'[u] = task[u]
  BY <1>1, <1>7, <1>8
<1> QED BY <1>1, <1>5, <1>6, <1>8, <1>9

\* A merge gives the rows of the task's attempts to the task, drops its other rows
\* and leaves those of other tasks that share no id with it.
LEMMA MergedRows ==
  ASSUME Typed, NEW rows, Table(rows), NEW t \in Tasks
  PROVE  /\ Table(Merged(rows, t))
         /\ \A i \in MergedIds(t) :
              /\ i \in DOMAIN Merged(rows, t) /\ Merged(rows, t)[i].task = t
              /\ \E n \in DOMAIN task[t].attempts :
                   /\ task[t].attempts[n].id = i
                   /\ Merged(rows, t)[i].status = task[t].attempts[n].status
         /\ \A i : i \notin MergedIds(t) =>
              /\ i \in DOMAIN Merged(rows, t) <=> i \in DOMAIN rows /\ rows[i].task # t
              /\ i \in DOMAIN Merged(rows, t) => Merged(rows, t)[i] = rows[i]
<1> DEFINE m == Merged(rows, t)
           status(i) == LET n == CHOOSE n \in DOMAIN task[t].attempts : task[t].attempts[n].id = i
                        IN  task[t].attempts[n].status
<1>1. task[t].attempts \in Seq(Attempt)
  BY DEF Typed, Entity
<1>2. \A n \in DOMAIN task[t].attempts : task[t].attempts[n] \in Attempt
  BY <1>1
<1>3. MergedIds(t) \subseteq Ids
  BY <1>2, IdsOfAttempts DEF Attempt
<1>4. DOMAIN m = (DOMAIN rows \ ({i \in DOMAIN rows : rows[i].task = t} \ MergedIds(t))) \cup MergedIds(t)
  BY DEF Merged
<1>5. \A i \in MergedIds(t) : m[i] = [task |-> t, status |-> status(i)]
  BY <1>4 DEF Merged
<1>6. \A i \in DOMAIN m : i \notin MergedIds(t) => m[i] = rows[i]
  BY <1>4 DEF Merged
<1>7. \A i \in MergedIds(t) : /\ \E n \in DOMAIN task[t].attempts :
                                   task[t].attempts[n].id = i /\ status(i) = task[t].attempts[n].status
                              /\ status(i) \in Outcomes
  BY ZenonT(30), <1>2, IdsOfAttempts DEF Attempt
<1>8. m = [i \in DOMAIN m |-> m[i]]
  BY DEF Merged
<1> HIDE DEF m, status
<1>9. \A i \in DOMAIN m : m[i] \in [task : Tasks, status : Outcomes]
  <2> SUFFICES ASSUME NEW i \in DOMAIN m PROVE m[i] \in [task : Tasks, status : Outcomes]
    OBVIOUS
  <2>1. CASE i \in MergedIds(t)
    <3>1. PICK x : x = status(i)
      OBVIOUS
    <3>2. m[i] = [task |-> t, status |-> x] /\ x \in Outcomes
      BY <1>5, <1>7, <2>1, <3>1
    <3> QED BY <3>2
  <2>2. CASE i \notin MergedIds(t)
    BY <1>4, <1>6, <2>2 DEF Table
  <2> QED BY <2>1, <2>2
<1>10. Table(m)
  <2>1. DOMAIN m \subseteq Ids
    BY <1>3, <1>4 DEF Table
  <2>2. m \in [DOMAIN m -> [task : Tasks, status : Outcomes]]
    BY <1>8, <1>9
  <2> QED BY <2>1, <2>2 DEF Table
<1>11. ASSUME NEW i \in MergedIds(t)
       PROVE  /\ i \in DOMAIN m /\ m[i].task = t
              /\ \E n \in DOMAIN task[t].attempts :
                   task[t].attempts[n].id = i /\ m[i].status = task[t].attempts[n].status
  BY <1>4, <1>5, <1>7
<1>12. ASSUME NEW i, i \notin MergedIds(t)
       PROVE  /\ i \in DOMAIN m <=> i \in DOMAIN rows /\ rows[i].task # t
              /\ i \in DOMAIN m => m[i] = rows[i]
  BY <1>4, <1>6, <1>12
<1> QED BY <1>10, <1>11, <1>12 DEF m

\* The order in which the rows of a task are read has each of them.
LEMMA OrderOfRows ==
  ASSUME Table(attempts), NEW t \in Tasks, NEW s \in SetToSeqs(RowsOf(t))
  PROVE  /\ s \in Seq(RowsOf(t))
         /\ \A i \in RowsOf(t) : \E n \in DOMAIN s : s[n] = i
<1> DEFINE R == RowsOf(t)
           n == Cardinality(R)
<1>1. IsFiniteSet(R)
  <2>1. R \in SUBSET Ids
    BY DEF RowsOf, Table
  <2>2. IsFiniteSet(Ids)
    BY FS_Interval, BoundsAssumption DEF Ids
  <2> QED BY <2>1, <2>2, FS_Subset
<1>2. n \in Nat
  BY <1>1, FS_CardinalityType
<1>3. s \in [1..n -> R] /\ \A i, j \in 1..n : i # j => s[i] # s[j]
  BY DEF SetToSeqs
<1>4. Cardinality(1..n) = n
  BY <1>2, FS_Interval
<1> HIDE DEF n
<1>5. s \in Injection(1..n, R)
  BY <1>3 DEF Injection, IsInjective
<1>6. s \in Surjection(1..n, R)
  BY <1>1, <1>4, <1>5, FS_Injection DEF n
<1>7. \A i \in R : \E k \in 1..n : s[k] = i
  BY <1>6 DEF Surjection
<1> QED BY <1>2, <1>3, <1>7

\* What a restart reads.
LEMMA LoadedFacts ==
  ASSUME Typed, NEW t \in Tasks, NEW s \in SetToSeqs(RowsOf(t))
  PROVE  /\ Loaded(t, s) \in Entity
         /\ Loaded(t, s).open = saved[t].open /\ Loaded(t, s).text = saved[t].text
         /\ \A n \in DOMAIN Loaded(t, s).attempts :
              LET a == Loaded(t, s).attempts[n] IN
              /\ a.id \in RowsOf(t) /\ a.stamped /\ a.status = attempts[a.id].status
         /\ \A i \in RowsOf(t) :
              \E n \in DOMAIN Loaded(t, s).attempts : Loaded(t, s).attempts[n].id = i
<1>1. /\ s \in Seq(RowsOf(t))
      /\ \A i \in RowsOf(t) : \E n \in DOMAIN s : s[n] = i
  BY OrderOfRows DEF Typed
<1> DEFINE as == [n \in DOMAIN s |-> [id |-> s[n], stamped |-> TRUE, status |-> attempts[s[n]].status]]
<1>2. \A n \in DOMAIN s : s[n] \in RowsOf(t)
  BY <1>1
<1>3. \A i \in RowsOf(t) : i \in Ids /\ attempts[i].status \in Outcomes
  BY DEF RowsOf, Typed, Table
<1>4. /\ DOMAIN as = DOMAIN s
      /\ \A n \in DOMAIN s : /\ as[n].id = s[n] /\ as[n].stamped = TRUE
                            /\ as[n].status = attempts[s[n]].status
  OBVIOUS
<1>5. \A n \in DOMAIN s : as[n] \in Attempt
  BY <1>2, <1>3 DEF Attempt
<1>6. as \in Seq(Attempt)
  BY <1>1, <1>4, <1>5
<1>a. Loaded(t, s) = [open |-> saved[t].open, text |-> saved[t].text, attempts |-> as]
  BY DEF Loaded
<1> HIDE DEF as
<1>7. saved[t].open \in BOOLEAN /\ saved[t].text \in BOOLEAN
  BY DEF Typed, TaskRow
<1>8. Loaded(t, s) \in Entity
  <2>1. ASSUME NEW o \in BOOLEAN, NEW x \in BOOLEAN, NEW q \in Seq(Attempt)
        PROVE  [open |-> o, text |-> x, attempts |-> q] \in Entity
    BY DEF Entity
  <2> QED BY <1>a, <1>6, <1>7, <2>1
<1>9. Loaded(t, s).attempts = as
  BY <1>a
<1>10. ASSUME NEW n \in DOMAIN as
       PROVE  as[n].id \in RowsOf(t) /\ as[n].stamped /\ as[n].status = attempts[as[n].id].status
  BY <1>2, <1>4
<1>11. ASSUME NEW i \in RowsOf(t)
       PROVE  \E n \in DOMAIN as : as[n].id = i
  <2>1. PICK n \in DOMAIN s : s[n] = i
    BY <1>1
  <2> QED BY <1>4, <2>1
<1>12. Loaded(t, s).open = saved[t].open /\ Loaded(t, s).text = saved[t].text
  BY <1>a
<1> QED BY <1>8, <1>9, <1>10, <1>11, <1>12


-----------------------------------------------------------------------------
(* Types and exclusive dispatches.                                          *)

\* Whatever ends execute_task with a record: a success comes with its text.
LEMMA Recording ==
  ASSUME Sound, NEW r \in Runners, Answered(r) \/ Failed(r) \/ TimedOut(r)
  PROVE  \E s \in Outcomes, x \in BOOLEAN : Record(r, s, x) /\ (s = "success" => x)
<1>1. CASE Answered(r)
  BY <1>1 DEF Answered
<1>2. CASE Failed(r) \/ TimedOut(r)
  <2>1. call[r].task \in Tasks
    BY <1>2 DEF Failed, TimedOut, Record, Sound, Dispatched
  <2>2. task[call[r].task].text \in BOOLEAN
    BY <2>1 DEF Sound, Typed, Entity
  <2> QED BY <1>2, <2>2 DEF Failed, TimedOut, Outcomes
<1> QED BY <1>1, <1>2

\* The calls of the others as a runner's call begins, goes on or ends.
LEMMA CallStep ==
  ASSUME Sound, NEW r \in Runners
  PROVE  /\ Accepted(r) => call' = [call EXCEPT ![r] =
                              [pc |-> "executing", task |-> call[r].task, n |-> Len(task[call[r].task].attempts) + 1]]
         /\ \A s, x : Record(r, s, x) => call' = [call EXCEPT ![r] = Idle]
BY DEF Accepted, Record, NextId

LEMMA TypedStep ==
  ASSUME Sound, [Next]_vars
  PROVE  Typed'
<1> USE DEF Sound
<1>a. /\ task \in [Tasks -> Entity] /\ saved \in [Tasks -> TaskRow] /\ Table(attempts)
      /\ kept \subseteq Tasks \X Ids /\ call \in [Runners -> Call]
  BY DEF Typed
<1>b. Idle \in Call
  BY DEF Idle, Call
<1>1. ASSUME NEW r \in Runners, NEW t \in Tasks, Ask(r, t) PROVE Typed'
  <2>1. [pc |-> "asking", task |-> t, n |-> 0] \in Call
    BY DEF Call
  <2> QED BY <1>a, <1>1, <2>1 DEF Ask, Typed
<1>2. ASSUME NEW r \in Runners, Refused(r) \/ Cancelled(r) PROVE Typed'
  BY <1>a, <1>b, <1>2 DEF Refused, Cancelled, Typed
<1>3. ASSUME NEW r \in Runners, Accepted(r) PROVE Typed'
  <2>1. PICK t : t = call[r].task
    OBVIOUS
  <2>2. t \in Tasks /\ task' \in [Tasks -> Entity]
    BY <1>3, <2>1, AcceptedFacts DEF MakesAttempt
  <2>3. task[t].attempts \in Seq(Attempt)
    BY <1>a, <2>2 DEF Entity
  <2>4. [pc |-> "executing", task |-> t, n |-> Len(task[t].attempts) + 1] \in Call
    BY <2>2, <2>3 DEF Call
  <2>5. call' \in [Runners -> Call]
    BY <1>a, <1>3, <2>1, <2>4, CallStep
  <2> QED BY <1>3, <2>2, <2>5 DEF Accepted, Typed
<1>4. ASSUME NEW r \in Runners, NEW s \in Outcomes, NEW x \in BOOLEAN, Record(r, s, x) PROVE Typed'
  <2>1. task' \in [Tasks -> Entity]
    BY <1>4, RecordFacts
  <2>2. call' \in [Runners -> Call]
    BY <1>a, <1>b, <1>4, CallStep
  <2> QED BY <1>4, <2>1, <2>2 DEF Record, Typed
<1>5. CASE Begin
  <2>1. tx'.at \in Nat /\ tx'.saved = saved /\ tx'.attempts = attempts /\ tx'.kept = kept
    BY <1>5 DEF Begin
  <2> QED BY <1>a, <1>5, <2>1 DEF Begin, Typed
<1>6. CASE Merge
  <2>1. PICK t \in NextOpen(tx.at) :
          /\ tx # NoTx
          /\ task' = [task EXCEPT ![t].open = FALSE]
          /\ \/ tx' = NoTx
             \/ tx' = [at |-> t + 1, saved |-> [tx.saved EXCEPT ![t] = RowOf(t)],
                       attempts |-> Merged(tx.attempts, t),
                       kept |-> tx.kept \cup ({t} \X MergedIds(t))]
    BY <1>6 DEF Merge
  <2>2. /\ t \in Tasks /\ t + 1 \in Nat
        /\ tx.saved \in [Tasks -> TaskRow] /\ Table(tx.attempts) /\ tx.kept \subseteq Tasks \X Ids
    BY <2>1 DEF NextOpen, Tasks, Typed
  <2>3. task[t] \in Entity
    BY <1>a, <2>2
  <2>4. [task[t] EXCEPT !.open = FALSE] \in Entity
    BY <2>3 DEF Entity
  <2>5. task' \in [Tasks -> Entity]
    BY <1>a, <2>1, <2>2, <2>4
  <2>6. [tx.saved EXCEPT ![t] = RowOf(t)] \in [Tasks -> TaskRow]
    <3>1. RowOf(t) \in TaskRow
      BY <2>3 DEF RowOf, TaskRow, Entity
    <3> QED BY <2>2, <3>1
  <2>7. Table(Merged(tx.attempts, t))
    BY <2>2, MergedRows
  <2>8. {t} \X MergedIds(t) \subseteq Tasks \X Ids
    <3>1. \A n \in DOMAIN task[t].attempts : task[t].attempts[n] \in Attempt
      BY <2>3 DEF Entity
    <3>2. MergedIds(t) \subseteq Ids
      BY <3>1, IdsOfAttempts DEF Attempt
    <3> QED BY <2>2, <3>2
  <2>9. tx' # NoTx => /\ tx'.at \in Nat /\ tx'.saved \in [Tasks -> TaskRow]
                      /\ Table(tx'.attempts) /\ tx'.kept \subseteq Tasks \X Ids
    <3>1. tx' # NoTx => /\ tx'.at = t + 1 /\ tx'.saved = [tx.saved EXCEPT ![t] = RowOf(t)]
                        /\ tx'.attempts = Merged(tx.attempts, t)
                        /\ tx'.kept = tx.kept \cup ({t} \X MergedIds(t))
      BY <2>1
    <3>2. tx.kept \cup ({t} \X MergedIds(t)) \subseteq Tasks \X Ids
      BY <2>2, <2>8
    <3> QED BY <2>2, <2>6, <2>7, <3>1, <3>2
  <2> QED BY <1>a, <1>6, <2>5, <2>9 DEF Merge, Typed
<1>7. CASE Commit
  BY <1>a, <1>7 DEF Commit, Typed
<1>8. CASE Rollback
  BY <1>a, <1>8 DEF Rollback, Typed
<1>9. CASE Restart
  <2>1. PICK order : /\ \A t \in Tasks : order[t] \in SetToSeqs(RowsOf(t))
                     /\ task' = [t \in Tasks |-> Loaded(t, order[t])]
    BY <1>9 DEF Restart
  <2>2. \A t \in Tasks : Loaded(t, order[t]) \in Entity
    BY <2>1, LoadedFacts
  <2>3. task' \in [Tasks -> Entity]
    BY <2>1, <2>2
  <2> QED BY <1>a, <1>b, <1>9, <2>3 DEF Restart, Typed
<1>10. CASE UNCHANGED vars
  BY <1>10 DEF vars, Typed, Table
<1>11. ASSUME NEW r \in Runners, Runner(r) PROVE Typed'
  BY <1>1, <1>2, <1>3, <1>4, <1>11, Recording DEF Runner
<1> QED BY <1>5, <1>6, <1>7, <1>8, <1>9, <1>10, <1>11 DEF Next


\* Calls that have not changed stay as they are when the attempts of their tasks do.
LEMMA DispatchedFrame ==
  ASSUME Sound, call' = call,
         \A t \in Tasks : task'[t].attempts = task[t].attempts
  PROVE  Dispatched'
<1>1. \A t \in Tasks : Succeeded(t)' <=> Succeeded(t)
  BY DEF Succeeded
<1> QED BY <1>1 DEF Sound, Dispatched

\* One runner's call has changed, and at most its own task with it.
LEMMA DispatchedOthers ==
  ASSUME Sound, NEW r \in Runners, NEW c, call' = [call EXCEPT ![r] = c],
         \A q \in Runners \ {r} : call[q].task \in Tasks =>
           task'[call[q].task].attempts = task[call[q].task].attempts,
         \/ c = Idle
         \/ /\ c.task \in Tasks /\ \A q \in Runners \ {r} : call[q].task # c.task
            /\ ~Succeeded(c.task)'
            /\ c.pc = "asking" => Len(task'[c.task].attempts) < MaxAttempts
            /\ c.pc = "executing" => c.n \in DOMAIN task'[c.task].attempts
  PROVE  Dispatched'
<1>1. /\ call \in [Runners -> Call] /\ call'[r] = c
      /\ \A q \in Runners \ {r} : call'[q] = call[q]
  BY DEF Sound, Typed
<1>2. 0 \notin Tasks
  BY DEF Tasks
<1>3. c = Idle => c.pc = "idle" /\ c.task = 0
  BY DEF Idle
<1>4. ASSUME NEW q \in Runners \ {r}, call[q].pc # "idle", NEW t, t = call[q].task
      PROVE  /\ t \in Tasks
             /\ \A p \in Runners \ {q} : call'[p].task # t
             /\ ~Succeeded(t)'
             /\ call'[q].pc = "asking" => Len(task'[t].attempts) < MaxAttempts
             /\ call'[q].pc = "executing" => call'[q].n \in DOMAIN task'[t].attempts
  <2>1. t = call[q].task
    BY <1>4
  <2>2. /\ t \in Tasks /\ \A p \in Runners \ {q} : call[p].task # t
        /\ ~Succeeded(t)
        /\ call[q].pc = "asking" => Len(task[t].attempts) < MaxAttempts
        /\ call[q].pc = "executing" => call[q].n \in DOMAIN task[t].attempts
    BY <1>4, <2>1 DEF Sound, Dispatched
  <2>3. task'[t].attempts = task[t].attempts
    BY <2>1, <2>2
  <2>4. ~Succeeded(t)'
    BY <2>2, <2>3 DEF Succeeded
  <2>5. \A p \in Runners \ {q} : call'[p].task # t
    <3> SUFFICES ASSUME NEW p \in Runners \ {q} PROVE call'[p].task # t
      OBVIOUS
    <3>1. CASE p # r
      BY <1>1, <2>2, <3>1
    <3>2. CASE p = r
      <4>1. c = Idle \/ c.task # t
        BY <1>4, <2>1, <2>2
      <4> QED BY <1>1, <1>2, <1>3, <2>2, <3>2, <4>1
    <3> QED BY <3>1, <3>2
  <2> QED BY <1>1, <2>1, <2>2, <2>3, <2>4, <2>5
<1>5. CASE c = Idle
  BY <1>1, <1>3, <1>4, <1>5 DEF Dispatched, Succeeded
<1>6. CASE /\ c.task \in Tasks /\ \A q \in Runners \ {r} : call[q].task # c.task
           /\ ~Succeeded(c.task)'
           /\ c.pc = "asking" => Len(task'[c.task].attempts) < MaxAttempts
           /\ c.pc = "executing" => c.n \in DOMAIN task'[c.task].attempts
  <2>1. \A q \in Runners \ {r} : call'[q].task # c.task
    BY <1>1, <1>6
  <2> QED BY <1>1, <1>4, <1>6, <2>1 DEF Dispatched, Succeeded
<1> QED BY <1>5, <1>6

LEMMA DispatchedStep ==
  ASSUME Sound, [Next]_vars
  PROVE  Dispatched'
<1>a. task \in [Tasks -> Entity] /\ call \in [Runners -> Call]
  BY DEF Sound, Typed
<1>1. ASSUME NEW r \in Runners, NEW t \in Tasks, Ask(r, t) PROVE Dispatched'
  <2>1. PICK c : c = [pc |-> "asking", task |-> t, n |-> 0]
    OBVIOUS
  <2>2. /\ call' = [call EXCEPT ![r] = c] /\ task' = task
        /\ c.task = t /\ c.pc = "asking"
        /\ ~Succeeded(t) /\ Len(task[t].attempts) < MaxAttempts
        /\ \A q \in Runners : call[q].task # t
    BY <1>1, <2>1 DEF Ask
  <2>3. ~Succeeded(t)'
    BY <2>2 DEF Succeeded
  <2> QED BY <2>2, <2>3, DispatchedOthers
<1>2. ASSUME NEW r \in Runners, Refused(r) \/ Cancelled(r) PROVE Dispatched'
  BY <1>2, DispatchedOthers DEF Refused, Cancelled
<1>3. ASSUME NEW r \in Runners, Accepted(r) PROVE Dispatched'
  <2>1. PICK t : t = call[r].task
    OBVIOUS
  <2>2. PICK n : n = Len(task[t].attempts) + 1
    OBVIOUS
  <2>3. PICK c : c = [pc |-> "executing", task |-> t, n |-> n]
    OBVIOUS
  <2>4. call' = [call EXCEPT ![r] = c]
    BY <1>3, <2>1, <2>2, <2>3, CallStep
  <2>5. /\ t \in Tasks /\ \A u \in Tasks : u # t => task'[u] = task[u]
        /\ DOMAIN task'[t].attempts = DOMAIN task[t].attempts \cup {n}
        /\ \A m \in DOMAIN task[t].attempts : task'[t].attempts[m] = task[t].attempts[m]
        /\ task'[t].attempts[n].status = "pending"
    <3>1. t \in Tasks /\ MakesAttempt(t, n)
      BY <1>3, <2>1, <2>2, AcceptedFacts
    <3> QED BY <3>1 DEF MakesAttempt
  <2>6. ~Succeeded(t) /\ \A q \in Runners \ {r} : call[q].task # t
    BY <1>3, <2>1 DEF Accepted, Sound, Dispatched
  <2>7. ~Succeeded(t)'
    BY <2>5, <2>6 DEF Succeeded
  <2> QED BY <2>3, <2>4, <2>5, <2>6, <2>7, DispatchedOthers
<1>4. ASSUME NEW r \in Runners, NEW s \in Outcomes, NEW x \in BOOLEAN, Record(r, s, x)
      PROVE  Dispatched'
  <2>1. PICK t : t = call[r].task
    OBVIOUS
  <2>2. call' = [call EXCEPT ![r] = Idle] /\ \A u \in Tasks : u # t => task'[u] = task[u]
    BY <1>4, <2>1, CallStep, RecordFacts
  <2>3. \A q \in Runners \ {r} : call[q].task # t
    BY <1>4, <2>1 DEF Record, Sound, Dispatched
  <2> QED BY <2>2, <2>3, DispatchedOthers
<1>5. CASE Begin \/ Commit \/ Rollback \/ UNCHANGED vars
  BY <1>5, DispatchedFrame DEF Begin, Commit, Rollback, vars
<1>6. CASE Merge
  <2>1. PICK t : task' = [task EXCEPT ![t].open = FALSE]
    BY <1>6 DEF Merge
  <2>2. \A u \in Tasks : task'[u].attempts = task[u].attempts
    BY <1>a, <2>1 DEF Entity
  <2> QED BY <1>6, <2>2, DispatchedFrame DEF Merge
<1>7. CASE Restart
  BY <1>7 DEF Restart, Dispatched, Idle
<1>8. ASSUME NEW r \in Runners, Runner(r) PROVE Dispatched'
  BY <1>1, <1>2, <1>3, <1>4, <1>8, Recording DEF Runner
<1> QED BY <1>5, <1>6, <1>7, <1>8 DEF Next

LEMMA AlwaysSound == Spec => []Sound
<1>1. Init => Sound
  <2> SUFFICES ASSUME Init PROVE Sound
    OBVIOUS
  <2>1. call \in [Runners -> Call] /\ \A r \in Runners : call[r].pc = "idle"
    BY DEF Init, Idle, Call
  <2>2. task \in [Tasks -> Entity]
    <3>1. << >> \in Seq(Attempt)
      OBVIOUS
    <3>2. [open |-> TRUE, attempts |-> << >>, text |-> FALSE] \in Entity
      BY <3>1 DEF Entity
    <3> QED BY <3>2 DEF Init
  <2>3. saved \in [Tasks -> TaskRow] /\ Table(attempts) /\ kept \subseteq Tasks \X Ids /\ tx = NoTx
    BY DEF Init, TaskRow, Table
  <2> QED BY <2>1, <2>2, <2>3 DEF Sound, Typed, Dispatched
<1>2. Sound /\ [Next]_vars => Sound'
  BY TypedStep, DispatchedStep DEF Sound
<1> QED BY <1>1, <1>2, PTL DEF Spec

\* Every variable keeps its type: ids stay below the bound whatever attempts a restart
\* finds, and a call that executes has its attempt in the task.
THEOREM AttemptsTyped == Spec => []TypeOK
<1>1. Sound => TypeOK
  <2> SUFFICES ASSUME Sound PROVE TypeOK
    OBVIOUS
  <2>1. \A t \in Tasks : task[t] \in Entity
    BY DEF Sound, Typed
  <2>4. \A t \in Tasks : \A n \in DOMAIN task[t].attempts : task[t].attempts[n] \in Attempt
    BY <2>1 DEF Entity
  <2>2. ASSUME NEW t \in Tasks
        PROVE  /\ task[t].open \in BOOLEAN /\ task[t].text \in BOOLEAN
               /\ \A n \in DOMAIN task[t].attempts :
                    task[t].attempts[n] \in [id : Ids, status : Outcomes, stamped : BOOLEAN]
    BY <2>1, <2>4 DEF Entity, Attempt
  <2>3. \A r \in Runners : call[r].pc \in {"idle", "asking", "executing"}
    BY DEF Sound, Typed, Call
  <2> QED BY <2>2, <2>3 DEF TypeOK, Sound, Typed, Dispatched, Table, TaskRow
<1> QED BY <1>1, AlwaysSound, PTL


-----------------------------------------------------------------------------
(* No success loses its text.                                               *)

\* The texts of a pair of tables agree with its attempts.
Texts(rows, sv) == \A i \in DOMAIN rows : rows[i].status = "success" => sv[rows[i].task].text

\* SuccessHasText, for what the transaction is about to commit as well.
Truthful ==
  /\ \A t \in Tasks : Succeeded(t) => task[t].text
  /\ Texts(attempts, saved)
  /\ tx # NoTx => Texts(tx.attempts, tx.saved)

LEMMA TruthfulStep ==
  ASSUME Sound, Truthful, [Next]_vars
  PROVE  Truthful'
<1>a. /\ task \in [Tasks -> Entity] /\ saved \in [Tasks -> TaskRow] /\ Table(attempts)
      /\ \A t \in Tasks : Succeeded(t) => task[t].text
      /\ Texts(attempts, saved)
      /\ tx # NoTx => Texts(tx.attempts, tx.saved)
  BY DEF Sound, Typed, Truthful
<1>b. ASSUME UNCHANGED task PROVE \A t \in Tasks : Succeeded(t)' => task'[t].text
  BY <1>a, <1>b DEF Succeeded
<1>1. ASSUME NEW r \in Runners, \/ \E t \in Tasks : Ask(r, t)
                                \/ Refused(r) \/ Cancelled(r)
      PROVE  Truthful'
  BY <1>a, <1>b, <1>1 DEF Ask, Refused, Cancelled, Truthful
<1>2. ASSUME NEW r \in Runners, Accepted(r) PROVE Truthful'
  <2>1. PICK t : t = call[r].task
    OBVIOUS
  <2>2. PICK n : n = Len(task[t].attempts) + 1
    OBVIOUS
  <2>6. MakesAttempt(t, n)
    BY <1>2, <2>1, <2>2, AcceptedFacts
  <2>3. ~Succeeded(t)'
    <3>1. ~Succeeded(t)
      BY <1>2, <2>1 DEF Accepted, Sound, Dispatched
    <3> QED BY <2>6, <3>1 DEF MakesAttempt, Succeeded
  <2>4. \A u \in Tasks : u # t => task'[u] = task[u]
    BY <2>6 DEF MakesAttempt
  <2>5. \A u \in Tasks : Succeeded(u)' => task'[u].text
    BY <1>a, <2>3, <2>4 DEF Succeeded
  <2> QED BY <1>a, <1>2, <2>5 DEF Accepted, Truthful
<1>3. ASSUME NEW r \in Runners, NEW s \in Outcomes, NEW x \in BOOLEAN, Record(r, s, x),
             s = "success" => x
      PROVE  Truthful'
  <2>1. PICK t : t = call[r].task
    OBVIOUS
  <2>2. PICK n : n = call[r].n
    OBVIOUS
  <2>3. Succeeded(t)' => task'[t].text
    <3>1. task'[t].text = x /\ DOMAIN task'[t].attempts = DOMAIN task[t].attempts
      BY <1>3, <2>1, <2>2, RecordFacts
    <3>2. \A m \in DOMAIN task[t].attempts :
            IF m = n THEN task'[t].attempts[m].status = s
            ELSE task'[t].attempts[m] = task[t].attempts[m]
      BY <1>3, <2>1, <2>2, RecordFacts
    <3>3. ~Succeeded(t)
      BY <1>3, <2>1 DEF Record, Sound, Dispatched
    <3>4. Succeeded(t)' => s = "success"
      BY <3>1, <3>2, <3>3 DEF Succeeded
    <3> QED BY <1>3, <3>1, <3>4
  <2>4. \A u \in Tasks : u # t => task'[u] = task[u]
    BY <1>3, <2>1, <2>2, RecordFacts
  <2>5. \A u \in Tasks : Succeeded(u)' => task'[u].text
    BY <1>a, <2>3, <2>4 DEF Succeeded
  <2> QED BY <1>a, <1>3, <2>5 DEF Record, Truthful
<1>4. CASE Begin
  <2>1. tx'.saved = saved /\ tx'.attempts = attempts
    BY <1>4 DEF Begin
  <2> QED BY <1>a, <1>b, <1>4, <2>1 DEF Begin, Truthful
<1>5. CASE Merge
  <2>1. PICK t \in NextOpen(tx.at) :
          /\ tx # NoTx
          /\ task' = [task EXCEPT ![t].open = FALSE]
          /\ \/ tx' = NoTx
             \/ tx' = [at |-> t + 1, saved |-> [tx.saved EXCEPT ![t] = RowOf(t)],
                       attempts |-> Merged(tx.attempts, t),
                       kept |-> tx.kept \cup ({t} \X MergedIds(t))]
    BY <1>5 DEF Merge
  <2>2. t \in Tasks /\ tx.saved \in [Tasks -> TaskRow] /\ Table(tx.attempts)
    BY <2>1 DEF NextOpen, Sound, Typed
  <2>3. \A u \in Tasks : Succeeded(u)' => task'[u].text
    <3>1. \A u \in Tasks : task'[u].attempts = task[u].attempts /\ task'[u].text = task[u].text
      BY <1>a, <2>1 DEF Entity
    <3> QED BY <1>a, <3>1 DEF Succeeded
  <2>4. PICK m : m = Merged(tx.attempts, t)
    OBVIOUS
  <2>5. PICK sv : sv = [tx.saved EXCEPT ![t] = RowOf(t)]
    OBVIOUS
  <2>6. sv[t].text = task[t].text /\ \A u \in Tasks : u # t => sv[u] = tx.saved[u]
    BY <2>2, <2>5 DEF RowOf
  <2>7. ASSUME NEW i \in DOMAIN m, m[i].status = "success"
        PROVE  sv[m[i].task].text
    <3>1. CASE i \in MergedIds(t)
      <4>1. /\ m[i].task = t
            /\ \E n \in DOMAIN task[t].attempts : m[i].status = task[t].attempts[n].status
        BY <2>2, <2>4, <3>1, MergedRows DEF Sound
      <4>2. task[t].text
        BY <1>a, <2>2, <2>7, <4>1 DEF Succeeded
      <4> QED BY <2>6, <4>1, <4>2
    <3>2. CASE i \notin MergedIds(t)
      <4>1. i \in DOMAIN tx.attempts /\ tx.attempts[i].task # t /\ m[i] = tx.attempts[i]
        BY <2>2, <2>4, <3>2, MergedRows DEF Sound
      <4>2. tx.attempts[i].task \in Tasks
        BY <2>2, <4>1 DEF Table
      <4>3. tx.saved[tx.attempts[i].task].text
        BY <1>a, <2>1, <2>7, <4>1 DEF Texts
      <4> QED BY <2>6, <4>1, <4>2, <4>3
    <3> QED BY <3>1, <3>2
  <2>8. Texts(m, sv)
    BY <2>7 DEF Texts
  <2>9. tx' # NoTx => tx'.attempts = m /\ tx'.saved = sv
    BY <2>1, <2>4, <2>5
  <2> QED BY <1>a, <1>5, <2>3, <2>8, <2>9 DEF Merge, Truthful
<1>6. CASE Commit
  BY <1>a, <1>b, <1>6 DEF Commit, Truthful
<1>7. CASE Rollback
  BY <1>a, <1>b, <1>7 DEF Rollback, Truthful
<1>8. CASE Restart
  <2>1. PICK order : /\ \A t \in Tasks : order[t] \in SetToSeqs(RowsOf(t))
                     /\ task' = [t \in Tasks |-> Loaded(t, order[t])]
    BY <1>8 DEF Restart
  <2>2. ASSUME NEW t \in Tasks, NEW n \in DOMAIN task'[t].attempts,
               task'[t].attempts[n].status = "success"
        PROVE  task'[t].text
    <3>1. PICK a : a = task'[t].attempts[n]
      OBVIOUS
    <3>2. /\ a.id \in RowsOf(t) /\ a.status = attempts[a.id].status
          /\ task'[t].text = saved[t].text
      BY <2>1, <3>1, LoadedFacts DEF Sound
    <3>3. a.id \in DOMAIN attempts /\ attempts[a.id].task = t
      BY <3>2 DEF RowsOf
    <3> QED BY <1>a, <2>2, <3>1, <3>2, <3>3 DEF Texts
  <2>3. \A t \in Tasks : Succeeded(t)' => task'[t].text
    BY <2>2 DEF Succeeded
  <2> QED BY <1>a, <1>8, <2>3 DEF Restart, Truthful
<1>9. CASE UNCHANGED vars
  BY <1>a, <1>b, <1>9 DEF vars, Truthful
<1>10. ASSUME NEW r \in Runners, Runner(r) PROVE Truthful'
  BY <1>1, <1>2, <1>3, <1>10, Recording DEF Runner
<1> QED BY <1>4, <1>5, <1>6, <1>7, <1>8, <1>9, <1>10 DEF Next

\* Whatever is answered, merged, rolled back and read again: a task with an attempt
\* that succeeded has its text in memory, and its row has it in the database.
THEOREM TextsStay == Spec => []SuccessHasText
<1>1. Init => Truthful
  BY DEF Init, Truthful, Texts, Succeeded
<1>2. Sound /\ Truthful /\ [Next]_vars => Truthful'
  BY TruthfulStep
<1>3. Truthful => SuccessHasText
  BY DEF Truthful, Texts, SuccessHasText
<1> QED BY <1>1, <1>2, <1>3, AlwaysSound, PTL DEF Spec


-----------------------------------------------------------------------------
(* No committed attempt is lost.                                            *)

\* The entity of a task has every attempt of the task that a table has.
Known(rows) ==
  \A i \in DOMAIN rows : \E n \in DOMAIN task[rows[i].task].attempts :
    task[rows[i].task].attempts[n].id = i

\* An attempt that has its started_at was read from the table: its row is its task's.
Backed(rows) ==
  \A t \in Tasks : \A n \in DOMAIN task[t].attempts :
    task[t].attempts[n].stamped =>
      LET i == task[t].attempts[n].id IN i \in DOMAIN rows /\ rows[i].task = t

\* What was ever committed, a set of task and id each, is there.
Keeps(rows, ks) == \A k \in ks : k[2] \in DOMAIN rows /\ rows[k[2]].task = k[1]

Surviving ==
  /\ Known(attempts) /\ Backed(attempts) /\ Keeps(attempts, kept)
  /\ tx # NoTx => Known(tx.attempts) /\ Backed(tx.attempts) /\ Keeps(tx.attempts, tx.kept)

\* A merge that the table accepts takes no row from another task and drops none.
LEMMA OwnersStay ==
  ASSUME Typed, NEW rows, Table(rows), Known(rows), Backed(rows),
         NEW t \in Tasks, ~Rejected(rows, t), NEW i \in DOMAIN rows
  PROVE  i \in DOMAIN Merged(rows, t) /\ Merged(rows, t)[i].task = rows[i].task
<1>1. CASE i \in MergedIds(t)
  <2>1. PICK n \in DOMAIN task[t].attempts : task[t].attempts[n].id = i
    BY <1>1, IdsOfAttempts
  <2>2. task[t].attempts[n].stamped
    <3>1. task[t].attempts[n] \in ToSet(task[t].attempts)
      BY <2>1 DEF ToSet
    <3> QED BY <2>1, <3>1 DEF Rejected
  <2>3. rows[i].task = t
    BY <2>1, <2>2 DEF Backed
  <2> QED BY <1>1, <2>3, MergedRows
<1>2. CASE i \notin MergedIds(t)
  <2>1. rows[i].task # t
    BY <1>2, IdsOfAttempts DEF Known
  <2> QED BY <1>2, <2>1, MergedRows
<1> QED BY <1>1, <1>2

\* After it all three hold of the merged rows.
LEMMA MergedTable ==
  ASSUME Typed, NEW rows, Table(rows), Known(rows), Backed(rows), NEW ks, Keeps(rows, ks),
         NEW t \in Tasks, ~Rejected(rows, t)
  PROVE  /\ Known(Merged(rows, t)) /\ Backed(Merged(rows, t))
         /\ Keeps(Merged(rows, t), ks \cup ({t} \X MergedIds(t)))
<1>1. PICK m : m = Merged(rows, t)
  OBVIOUS
<1>2. \A i \in DOMAIN rows : i \in DOMAIN m /\ m[i].task = rows[i].task
  BY <1>1, OwnersStay
<1>3. \A i \in MergedIds(t) : i \in DOMAIN m /\ m[i].task = t
  BY <1>1, MergedRows
<1>4. Known(m)
  <2> SUFFICES ASSUME NEW i \in DOMAIN m
               PROVE  \E n \in DOMAIN task[m[i].task].attempts : task[m[i].task].attempts[n].id = i
    BY DEF Known
  <2>1. CASE i \in MergedIds(t)
    BY <1>3, <2>1, IdsOfAttempts
  <2>2. CASE i \notin MergedIds(t)
    <3>1. i \in DOMAIN rows /\ m[i] = rows[i]
      BY <1>1, <2>2, MergedRows
    <3> QED BY <3>1 DEF Known
  <2> QED BY <2>1, <2>2
<1>5. Backed(m)
  BY <1>2 DEF Backed
<1>6. Keeps(m, ks \cup ({t} \X MergedIds(t)))
  BY <1>2, <1>3 DEF Keeps
<1> QED BY <1>1, <1>4, <1>5, <1>6

\* What the entities may do meanwhile: make attempts without started_at and change
\* statuses.
Extends ==
  \A t \in Tasks :
    /\ \A n \in DOMAIN task[t].attempts :
         n \in DOMAIN task'[t].attempts /\ task'[t].attempts[n].id = task[t].attempts[n].id
    /\ \A n \in DOMAIN task'[t].attempts : task'[t].attempts[n].stamped =>
         n \in DOMAIN task[t].attempts /\ task[t].attempts[n].stamped

LEMMA TableFrame ==
  ASSUME Extends, NEW rows, Table(rows), Known(rows), Backed(rows)
  PROVE  Known(rows)' /\ Backed(rows)'
<1>1. \A i \in DOMAIN rows : rows[i].task \in Tasks
  BY DEF Table
<1>2. Known(rows)'
  <2> SUFFICES ASSUME NEW i \in DOMAIN rows
               PROVE  \E n \in DOMAIN task'[rows[i].task].attempts :
                        task'[rows[i].task].attempts[n].id = i
    BY DEF Known
  <2>1. PICK n \in DOMAIN task[rows[i].task].attempts : task[rows[i].task].attempts[n].id = i
    BY DEF Known
  <2> QED BY <1>1, <2>1 DEF Extends
<1>3. Backed(rows)'
  BY DEF Backed, Extends
<1> QED BY <1>2, <1>3

LEMMA SurvivingFrame ==
  ASSUME Sound, Surviving, Extends, attempts' = attempts, kept' = kept, tx' \in {tx, NoTx}
  PROVE  Surviving'
<1>1. Known(attempts)' /\ Backed(attempts)'
  <2>1. PICK rows : rows = attempts
    OBVIOUS
  <2>2. Known(rows)' /\ Backed(rows)'
    BY <2>1, TableFrame DEF Sound, Typed, Surviving
  <2> QED BY <2>1, <2>2 DEF Known, Backed
<1>2. ASSUME tx' # NoTx PROVE Known(tx.attempts)' /\ Backed(tx.attempts)'
  <2>1. PICK rows : rows = tx.attempts
    OBVIOUS
  <2>2. Known(rows)' /\ Backed(rows)'
    BY <1>2, <2>1, TableFrame DEF Sound, Typed, Surviving
  <2>3. tx'.attempts = rows
    BY <1>2, <2>1
  <2> QED BY <2>2, <2>3 DEF Known, Backed
<1> QED BY <1>1, <1>2 DEF Surviving

LEMMA SurvivingStep ==
  ASSUME TRUE \notin Stamps, Sound, Surviving, [Next]_vars
  PROVE  Surviving'
<1>a. task \in [Tasks -> Entity] /\ Table(attempts)
  BY DEF Sound, Typed
<1>b. UNCHANGED task => Extends
  BY DEF Extends
<1>1. ASSUME NEW r \in Runners, \/ \E t \in Tasks : Ask(r, t)
                                \/ Refused(r) \/ Cancelled(r)
      PROVE  Surviving'
  BY <1>b, <1>1, SurvivingFrame DEF Ask, Refused, Cancelled
<1>2. ASSUME NEW r \in Runners, Accepted(r) PROVE Surviving'
  <2>1. PICK t : t = call[r].task
    OBVIOUS
  <2>2. PICK n : n = Len(task[t].attempts) + 1
    OBVIOUS
  <2>3. MakesAttempt(t, n)
    BY <1>2, <2>1, <2>2, AcceptedFacts
  <2>4. task'[t].attempts[n].stamped = FALSE
    BY <2>3, ChoicesAssumption DEF MakesAttempt
  <2>5. Extends
    BY <2>3, <2>4 DEF MakesAttempt, Extends
  <2> QED BY <1>2, <2>5, SurvivingFrame DEF Accepted
<1>3. ASSUME NEW r \in Runners, NEW s \in Outcomes, NEW x \in BOOLEAN, Record(r, s, x)
      PROVE  Surviving'
  <2>1. PICK t : t = call[r].task
    OBVIOUS
  <2>2. PICK n : n = call[r].n
    OBVIOUS
  <2>3. DOMAIN task'[t].attempts = DOMAIN task[t].attempts
    BY <1>3, <2>1, <2>2, RecordFacts
  <2>4. \A m \in DOMAIN task[t].attempts :
          IF m = n THEN /\ task'[t].attempts[m].id = task[t].attempts[m].id
                        /\ task'[t].attempts[m].stamped = task[t].attempts[m].stamped
          ELSE task'[t].attempts[m] = task[t].attempts[m]
    BY <1>3, <2>1, <2>2, RecordFacts
  <2>5. \A u \in Tasks : u # t => task'[u] = task[u]
    BY <1>3, <2>1, <2>2, RecordFacts
  <2>6. Extends
    BY <2>3, <2>4, <2>5 DEF Extends
  <2> QED BY <1>3, <2>6, SurvivingFrame DEF Record
<1>4. CASE Begin
  <2>1. tx'.attempts = attempts /\ tx'.kept = kept
    BY <1>4 DEF Begin
  <2> QED BY <1>4, <2>1 DEF Begin, Surviving, Known, Backed, Keeps
<1>5. CASE Merge
  <2>1. PICK t \in NextOpen(tx.at) :
          /\ tx # NoTx
          /\ task' = [task EXCEPT ![t].open = FALSE]
          /\ tx' = IF Rejected(tx.attempts, t) THEN NoTx
                   ELSE [at |-> t + 1, saved |-> [tx.saved EXCEPT ![t] = RowOf(t)],
                         attempts |-> Merged(tx.attempts, t),
                         kept |-> tx.kept \cup ({t} \X MergedIds(t))]
    BY <1>5 DEF Merge
  <2>2. t \in Tasks /\ Table(tx.attempts) /\ Typed
    BY <2>1 DEF NextOpen, Sound, Typed
  <2>3. \A u \in Tasks : task'[u].attempts = task[u].attempts
    BY <1>a, <2>1 DEF Entity
  <2>4. Extends
    BY <2>3 DEF Extends
  <2>5. CASE Rejected(tx.attempts, t)
    BY <1>5, <2>1, <2>4, <2>5, SurvivingFrame DEF Merge
  <2>6. CASE ~Rejected(tx.attempts, t)
    <3>1. PICK rows : rows = Merged(tx.attempts, t)
      OBVIOUS
    <3>2. PICK ks : ks = tx.kept \cup ({t} \X MergedIds(t))
      OBVIOUS
    <3>3. Known(rows) /\ Backed(rows) /\ Keeps(rows, ks)
      BY <2>1, <2>2, <2>6, <3>1, <3>2, MergedTable DEF Surviving
    <3>4. Table(rows)
      BY <2>2, <3>1, MergedRows
    <3>5. Known(rows)' /\ Backed(rows)'
      BY <2>4, <3>3, <3>4, TableFrame
    <3>6. tx'.attempts = rows /\ tx'.kept = ks
      BY <2>1, <2>6, <3>1, <3>2
    <3>7. Known(attempts)' /\ Backed(attempts)'
      <4>1. PICK as : as = attempts
        OBVIOUS
      <4>2. Known(as)' /\ Backed(as)'
        BY <1>a, <2>4, <4>1, TableFrame DEF Surviving
      <4> QED BY <1>5, <4>1, <4>2 DEF Merge, Known, Backed
    <3>8. UNCHANGED <<attempts, kept>>
      BY <1>5 DEF Merge
    <3>9. Known(tx.attempts)' /\ Backed(tx.attempts)'
      BY <3>5, <3>6 DEF Known, Backed
    <3>10. Keeps(attempts, kept)' /\ Keeps(tx.attempts, tx.kept)'
      BY <3>3, <3>6, <3>8 DEF Surviving, Keeps
    <3> QED BY <3>7, <3>9, <3>10 DEF Surviving
  <2> QED BY <2>5, <2>6
<1>6. CASE Commit
  BY <1>6 DEF Commit, Surviving, Known, Backed, Keeps
<1>7. CASE Rollback \/ UNCHANGED vars
  BY <1>b, <1>7, SurvivingFrame DEF Rollback, vars
<1>8. CASE Restart
  <2>1. PICK order : /\ \A t \in Tasks : order[t] \in SetToSeqs(RowsOf(t))
                     /\ task' = [t \in Tasks |-> Loaded(t, order[t])]
    BY <1>8 DEF Restart
  <2>2. attempts' = attempts /\ kept' = kept /\ tx' = NoTx
    BY <1>8 DEF Restart
  <2>3. Known(attempts)'
    <3> SUFFICES ASSUME NEW i \in DOMAIN attempts, NEW t, t = attempts[i].task
                 PROVE  \E n \in DOMAIN task'[t].attempts : task'[t].attempts[n].id = i
      BY <2>2 DEF Known
    <3>1. t \in Tasks /\ i \in RowsOf(t)
      BY <1>a DEF Table, RowsOf
    <3> QED BY ZenonT(30), <2>1, <3>1, LoadedFacts DEF Sound
  <2>4. Backed(attempts)'
    <3> SUFFICES ASSUME NEW t \in Tasks, NEW n \in DOMAIN task'[t].attempts, NEW i,
                        i = task'[t].attempts[n].id
                 PROVE  i \in DOMAIN attempts /\ attempts[i].task = t
      BY <2>2 DEF Backed
    <3>1. i \in RowsOf(t)
      BY <2>1, LoadedFacts DEF Sound
    <3> QED BY <3>1 DEF RowsOf
  <2> QED BY <2>2, <2>3, <2>4 DEF Surviving, Keeps
<1>9. ASSUME NEW r \in Runners, Runner(r) PROVE Surviving'
  BY <1>1, <1>2, <1>3, <1>9, Recording DEF Runner
<1> QED BY <1>4, <1>5, <1>6, <1>7, <1>8, <1>9 DEF Next

\* With attempts as create_attempt makes them, without started_at: although the ids of
\* all tasks share one key, no merge takes over or drops an attempt once committed.
THEOREM AttemptsLast ==
  ASSUME TRUE \notin Stamps
  PROVE  Spec => []AttemptsSurvive
<1>1. Init => Surviving
  BY DEF Init, Surviving, Known, Backed, Keeps, NoTx
<1>2. Sound /\ Surviving /\ [Next]_vars => Surviving'
  BY SurvivingStep
<1>3. Surviving => AttemptsSurvive
  BY DEF Surviving, Keeps, AttemptsSurvive
<1> QED BY <1>1, <1>2, <1>3, AlwaysSound, PTL DEF Spec
=============================================================================
