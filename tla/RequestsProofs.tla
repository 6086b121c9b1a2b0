--------------------------- MODULE RequestsProofs ---------------------------
(***************************************************************************)
(* Proofs about the process and its clients: for every file, environment,  *)
(* certificate, body and number of calls that the assumptions allow.       *)
(***************************************************************************)
EXTENDS Requests, FiniteSetTheorems, SequenceTheorems, NaturalsInduction,
        WellFoundedInduction, TLAPS

(* A leaf goes to Zenon unless it names SMT or starts with ONLY.           *)
USE Zenon

-----------------------------------------------------------------------------
(* Answers.                                                                *)

\* The statuses a listener may answer with.
LEMMA StatusType ==
  ASSUME NEW c, NEW ready, NEW listener, NEW route, NEW certs
  PROVE  Status(c, ready, listener, route, certs) \in {0, 200, 403, 404, 501, 503}
BY SMT DEF Status

\* A UI route is mounted, so only the handshake and the role can refuse it.
LEMMA UiStatus ==
  ASSUME NEW c, NEW ready, NEW route, NEW certs, route # "/readyz"
  PROVE  Status(c, ready, "ui", route, certs) \in {0, 200, 403}
<1>1. Mounted(c, "ui", route)
  BY DEF Mounted
<1> QED
  BY SMT, <1>1 DEF Status

LEMMA RefusalType ==
  ASSUME NEW c, NEW body, NEW certs
  PROVE  refusal(c, body, certs) \in {Nil, 0, 400, 403, 503}
<1>1. Status(c, phase = "ready", "ui", "/api/jobs", certs) \in {0, 200, 403}
  BY SMT, UiStatus
<1> QED
  BY SMT, <1>1 DEF refusal

-----------------------------------------------------------------------------
(* Jobs.                                                                   *)

\* Calls whose outcome the client was not told.
Untold == {Nil, 500, Lost}

\* What is true of a call that was made, with these rows in the table.
CallOK(call, rows) ==
  /\ call.status \in Untold \cup {0, 201, 400, 403, 503}
  /\ call.sent => call.id = Nil /\ call.status \in Untold
  /\ call.id # Nil =>
       /\ call.status \in Untold \cup {201}
       /\ call.id \in DOMAIN rows
       /\ rows[call.id] = jobRow(call.body)
  /\ call.status = 201 => call.id # Nil

CallInv == \A k \in Calls : calls[k] # Nil => CallOK(calls[k], jobs)

\* Every row is one call's, and no two calls have the same.
OwnInv ==
  /\ \A k, l \in Calls :
       /\ calls[k] # Nil /\ calls[l] # Nil /\ k # l
       /\ calls[k].id # Nil
       => calls[k].id # calls[l].id
  /\ \A i \in DOMAIN jobs : \E k \in Calls : calls[k] # Nil /\ calls[k].id = i
  /\ IsFiniteSet({k \in Calls : calls[k] # Nil})

JobInv ==
  /\ calls \in [Calls -> Call \cup {Nil}]
  /\ jobs \in Seq({jobRow(body) : body \in Bodies})
  /\ CallInv
  /\ OwnInv

LEMMA JobInit == Init => JobInv
<1> SUFFICES ASSUME Init PROVE JobInv
  OBVIOUS
<1>1. calls = [k \in Calls |-> Nil] /\ jobs = << >>
  BY DEF Init
<1>2. {k \in Calls : calls[k] # Nil} = {}
  BY <1>1
<1>3. IsFiniteSet({k \in Calls : calls[k] # Nil})
  BY <1>2, FS_EmptySet
<1>4. DOMAIN jobs = {} /\ jobs \in Seq({jobRow(body) : body \in Bodies})
  BY SMT, <1>1
<1> QED
  BY <1>1, <1>3, <1>4 DEF JobInv, CallInv, OwnInv

\* The rows keep their calls if no call changes hands.
LEMMA OwnKept ==
  ASSUME OwnInv, jobs' = jobs,
         \A l \in Calls : /\ calls'[l] # Nil <=> calls[l] # Nil
                          /\ calls[l] # Nil => calls'[l].id = calls[l].id
  PROVE  OwnInv'
<1>1. /\ \A k, l \in Calls :
           calls[k] # Nil /\ calls[l] # Nil /\ k # l /\ calls[k].id # Nil
             => calls[k].id # calls[l].id
      /\ \A i \in DOMAIN jobs : \E k \in Calls : calls[k] # Nil /\ calls[k].id = i
      /\ IsFiniteSet({k \in Calls : calls[k] # Nil})
  BY DEF OwnInv
<1>2. {l \in Calls : calls'[l] # Nil} = {l \in Calls : calls[l] # Nil}
  OBVIOUS
<1>3. IsFiniteSet({l \in Calls : calls'[l] # Nil})
  BY <1>1, <1>2
<1>4. \A i \in DOMAIN jobs : \E l \in Calls : calls'[l] # Nil /\ calls'[l].id = i
  BY <1>1
<1>5. ASSUME NEW j \in Calls, NEW l \in Calls,
             calls'[j] # Nil, calls'[l] # Nil, j # l, calls'[j].id # Nil
      PROVE  calls'[j].id # calls'[l].id
  BY <1>1, <1>5
<1> QED
  BY <1>3, <1>4, <1>5 DEF OwnInv

\* One call changes and keeps its row; the table does not change.
LEMMA CallMoves ==
  ASSUME JobInv, jobs' = jobs, NEW k \in Calls, calls[k] # Nil, NEW new \in Call,
         calls' = [calls EXCEPT ![k] = new],
         new.id = calls[k].id, CallOK(new, jobs)
  PROVE  JobInv'
<1>1. calls \in [Calls -> Call \cup {Nil}] /\ new # Nil
  BY RequestsAssumption DEF JobInv
<1>2. calls' \in [Calls -> Call \cup {Nil}]
  BY <1>1
<1>3. calls'[k] = new /\ \A l \in Calls \ {k} : calls'[l] = calls[l]
  BY <1>1
<1>4. CallInv'
  <2> SUFFICES ASSUME NEW l \in Calls, calls'[l] # Nil PROVE CallOK(calls'[l], jobs)
    BY DEF CallInv
  <2>1. CASE l # k
    BY <1>3, <2>1 DEF JobInv, CallInv
  <2>2. CASE l = k
    <3>1. calls'[l] = new
      BY <1>3, <2>2
    <3> QED
      BY <3>1
  <2> QED
    BY <2>1, <2>2
<1>5. \A l \in Calls : /\ calls'[l] # Nil <=> calls[l] # Nil
                       /\ calls[l] # Nil => calls'[l].id = calls[l].id
  BY <1>1, <1>3
<1>6. OwnInv'
  BY <1>5, OwnKept DEF JobInv
<1> QED
  BY <1>2, <1>4, <1>6 DEF JobInv

\* The end of the process tells nobody more than was told.
LEMMA ExitKeepsJobs ==
  ASSUME JobInv, Exit
  PROVE  JobInv'
<1> DEFINE lost(call) == [call EXCEPT !.status = Lost]
<1>1. /\ calls \in [Calls -> Call \cup {Nil}] /\ Nil \notin Call /\ Lost \in Int
      /\ CallInv /\ OwnInv
      /\ jobs' = jobs
      /\ calls' = [k \in Calls |->
           IF calls[k] = Nil THEN Nil
           ELSE IF calls[k].status = Nil THEN lost(calls[k]) ELSE calls[k]]
  BY SMT, RequestsAssumption DEF JobInv, Exit, Lost
<1>2. ASSUME NEW call \in Call, CallOK(call, jobs), call.status = Nil
      PROVE  /\ lost(call) \in Call /\ lost(call).id = call.id
             /\ CallOK(lost(call), jobs)
  <2>1. /\ lost(call) \in Call /\ lost(call).id = call.id /\ lost(call).status = Lost
        /\ lost(call).sent = call.sent /\ lost(call).body = call.body
    BY <1>1 DEF Call
  <2> HIDE DEF lost
  <2> QED
    BY SMT, <1>2, <2>1, RequestsAssumption DEF CallOK, Untold, Lost
<1> HIDE DEF lost
<1>3. \A k \in Calls : /\ calls[k] \in Call \cup {Nil}
                       /\ calls'[k] = IF calls[k] = Nil THEN Nil
                                      ELSE IF calls[k].status = Nil
                                        THEN lost(calls[k]) ELSE calls[k]
  BY <1>1
<1>4. ASSUME NEW k \in Calls
      PROVE  /\ calls'[k] \in Call \cup {Nil}
             /\ calls'[k] # Nil <=> calls[k] # Nil
             /\ calls[k] # Nil => calls'[k].id = calls[k].id /\ CallOK(calls'[k], jobs)
  <2>1. CASE calls[k] = Nil
    BY <1>3, <2>1
  <2>2. CASE calls[k] # Nil
    <3>1. calls[k] \in Call /\ CallOK(calls[k], jobs)
      BY <1>1, <1>3, <2>2 DEF CallInv
    <3>2. CASE calls[k].status = Nil
      <4>1. calls'[k] = lost(calls[k])
        BY <1>3, <2>2, <3>2
      <4> QED
        BY <1>1, <1>2, <2>2, <3>1, <3>2, <4>1
    <3>3. CASE calls[k].status # Nil
      <4>1. calls'[k] = calls[k]
        BY <1>3, <2>2, <3>3
      <4> QED
        BY <2>2, <3>1, <4>1
    <3> QED
      BY <3>2, <3>3
  <2> QED
    BY <2>1, <2>2
<1>5. calls' \in [Calls -> Call \cup {Nil}]
  BY <1>1, <1>4
<1>6. CallInv'
  BY <1>1, <1>4 DEF CallInv
<1>7. OwnInv'
  BY <1>1, <1>4, OwnKept
<1> QED
  BY <1>1, <1>5, <1>6, <1>7 DEF JobInv

\* createJob: a new call without a row.
LEMMA createJobKeepsJobs ==
  ASSUME JobInv, NEW k \in Calls, createJob(k)
  PROVE  JobInv'
<1>1. PICK c \in cfg, body \in Bodies, certs \in Certs[client] :
        calls' = [calls EXCEPT ![k] =
          [body |-> body, sent |-> refusal(c, body, certs) = Nil, id |-> Nil,
           status |-> refusal(c, body, certs)]]
  BY DEF createJob
<1> DEFINE status == refusal(c, body, certs)
           new == [body |-> body, sent |-> status = Nil, id |-> Nil, status |-> status]
<1>2. /\ calls \in [Calls -> Call \cup {Nil}] /\ Nil \notin Call
      /\ CallInv /\ OwnInv
      /\ jobs' = jobs /\ calls[k] = Nil
  BY RequestsAssumption DEF JobInv, createJob
<1>3. status \in {Nil, 0, 400, 403, 503}
  BY SMT, RefusalType
<1> HIDE DEF status
<1>4. /\ new \in Call /\ new.id = Nil /\ new.status = status
      /\ new.sent <=> status = Nil
  <2>1. status \in Int \cup {Nil} /\ (status = Nil) \in BOOLEAN
    BY SMT, <1>3
  <2>2. new \in Call
    BY <2>1 DEF Call
  <2>3. /\ new.id = Nil /\ new.status = status
        /\ new.sent = (status = Nil)
    OBVIOUS
  <2> HIDE DEF new
  <2> QED
    BY <2>2, <2>3
<1>6. calls' = [calls EXCEPT ![k] = new]
  BY <1>1 DEF status
<1> HIDE DEF new
<1>5. CallOK(new, jobs)
  <2>1. status # 201
    <3>1. Nil # 201
      BY SMT, RequestsAssumption
    <3> QED
      BY SMT, <1>3, <3>1
  <2> QED
    BY ONLY <1>3, <1>4, <2>1 DEF CallOK, Untold
<1>7. /\ calls' \in [Calls -> Call \cup {Nil}]
      /\ calls'[k] = new /\ \A l \in Calls \ {k} : calls'[l] = calls[l]
  BY <1>2, <1>4, <1>6
<1>8. CallInv'
  <2> SUFFICES ASSUME NEW l \in Calls, calls'[l] # Nil PROVE CallOK(calls'[l], jobs)
    BY <1>2 DEF CallInv
  <2>1. CASE l = k
    BY <1>5, <1>7, <2>1
  <2>2. CASE l # k
    BY <1>2, <1>7, <2>2 DEF CallInv
  <2> QED
    BY <2>1, <2>2
<1>9. OwnInv'
  <2>1. /\ \A j, l \in Calls :
             calls[j] # Nil /\ calls[l] # Nil /\ j # l /\ calls[j].id # Nil
               => calls[j].id # calls[l].id
        /\ \A i \in DOMAIN jobs : \E j \in Calls : calls[j] # Nil /\ calls[j].id = i
        /\ IsFiniteSet({j \in Calls : calls[j] # Nil})
    BY <1>2 DEF OwnInv
  <2>2. {j \in Calls : calls'[j] # Nil} = {j \in Calls : calls[j] # Nil} \cup {k}
    BY <1>2, <1>4, <1>7
  <2>3. IsFiniteSet({j \in Calls : calls'[j] # Nil})
    <3> DEFINE made == {j \in Calls : calls[j] # Nil}
    <3>1. IsFiniteSet(made)
      BY <2>1
    <3> HIDE DEF made
    <3>2. IsFiniteSet(made \cup {k})
      BY <3>1, FS_AddElement
    <3> QED
      BY <2>2, <3>2 DEF made
  <2>4. \A i \in DOMAIN jobs : \E l \in Calls : calls'[l] # Nil /\ calls'[l].id = i
    BY <1>2, <1>7, <2>1
  <2>5. ASSUME NEW j \in Calls, NEW l \in Calls,
               calls'[j] # Nil, calls'[l] # Nil, j # l, calls'[j].id # Nil
        PROVE  calls'[j].id # calls'[l].id
    BY SMT, <1>4, <1>7, <2>1, <2>5
  <2> QED
    BY <1>2, <2>3, <2>4, <2>5 DEF OwnInv
<1> QED
  BY <1>2, <1>7, <1>8, <1>9 DEF JobInv

\* CreateJob's commit: the call gets the row that is appended for it.
LEMMA CreateJobKeepsJobs ==
  ASSUME JobInv, NEW k \in Calls, CreateJob(k)
  PROVE  JobInv'
<1> DEFINE Row == {jobRow(body) : body \in Bodies}
           n   == Len(jobs) + 1
           new == [calls[k] EXCEPT !.sent = FALSE, !.id = n]
<1>1. /\ calls \in [Calls -> Call \cup {Nil}] /\ jobs \in Seq(Row) /\ Nil \notin Call
      /\ CallInv /\ OwnInv
      /\ calls[k] # Nil /\ calls[k].sent
  BY RequestsAssumption DEF JobInv, CreateJob
<1>2. calls[k] \in Call /\ CallOK(calls[k], jobs)
  BY <1>1 DEF CallInv
<1>3. calls[k].id = Nil /\ calls[k].status \in Untold /\ calls[k].body \in Bodies
  BY <1>1, <1>2 DEF CallOK, Call
<1>4. jobs' = Append(jobs, jobRow(calls[k].body)) /\ jobRow(calls[k].body) \in Row
  BY <1>3 DEF CreateJob
<1> HIDE DEF Row
<1>5. /\ Len(jobs) \in Nat /\ n \in Nat /\ DOMAIN jobs = 1 .. Len(jobs)
      /\ jobs' \in Seq(Row) /\ Len(jobs') = n /\ DOMAIN jobs' = 1 .. n
      /\ jobs'[n] = jobRow(calls[k].body)
      /\ \A i \in 1 .. Len(jobs) : jobs'[i] = jobs[i]
  BY SMT, <1>1, <1>4, AppendProperties, LenProperties
<1>6. n \notin DOMAIN jobs /\ DOMAIN jobs' = DOMAIN jobs \cup {n}
  BY ONLY <1>5
<1>7. calls' = [calls EXCEPT ![k] = new]
  BY <1>1, <1>5 DEF CreateJob
<1>8. /\ new \in Call /\ new.id = n /\ ~new.sent /\ new.status = calls[k].status
      /\ new.body = calls[k].body
  BY <1>2, <1>5 DEF Call
<1> HIDE DEF new, n
<1>9. /\ calls' \in [Calls -> Call \cup {Nil}]
      /\ calls'[k] = new /\ \A l \in Calls \ {k} : calls'[l] = calls[l]
  BY <1>1, <1>7, <1>8
<1>10. CallInv'
  <2> SUFFICES ASSUME NEW l \in Calls, calls'[l] # Nil PROVE CallOK(calls'[l], jobs')
    BY DEF CallInv
  <2>1. CASE l = k
    <3>1. n \in DOMAIN jobs'
      BY <1>6
    <3>2. new.status # 201
      <4>1. Nil # 201
        BY SMT, RequestsAssumption
      <4> QED
        BY SMT, <1>3, <1>8, <4>1 DEF Untold, Lost
    <3>3. CallOK(new, jobs')
      BY ONLY <1>3, <1>5, <1>8, <3>1, <3>2 DEF CallOK
    <3> QED
      BY <1>9, <2>1, <3>3
  <2>2. CASE l # k
    <3>1. calls'[l] = calls[l] /\ CallOK(calls[l], jobs)
      BY <1>1, <1>9, <2>2 DEF CallInv
    <3>2. ASSUME calls[l].id \in DOMAIN jobs
          PROVE  calls[l].id \in DOMAIN jobs' /\ jobs'[calls[l].id] = jobs[calls[l].id]
      BY <1>5, <1>6, <3>2
    <3>3. CallOK(calls[l], jobs')
      BY ONLY <3>1, <3>2 DEF CallOK
    <3> QED
      BY <3>1, <3>3
  <2> QED
    BY <2>1, <2>2
<1>11. OwnInv'
  <2>1. /\ \A j, l \in Calls :
             calls[j] # Nil /\ calls[l] # Nil /\ j # l /\ calls[j].id # Nil
               => calls[j].id # calls[l].id
        /\ \A i \in DOMAIN jobs : \E j \in Calls : calls[j] # Nil /\ calls[j].id = i
        /\ IsFiniteSet({j \in Calls : calls[j] # Nil})
    BY <1>1 DEF OwnInv
  <2>2. new # Nil
    BY <1>1, <1>8
  <2>3. {j \in Calls : calls'[j] # Nil} = {j \in Calls : calls[j] # Nil}
    BY <1>1, <1>9, <2>2
  <2>4. IsFiniteSet({j \in Calls : calls'[j] # Nil})
    BY <2>1, <2>3
  <2>5. ASSUME NEW i \in DOMAIN jobs'
        PROVE  \E l \in Calls : calls'[l] # Nil /\ calls'[l].id = i
    <3>1. CASE i = n
      BY <1>8, <1>9, <2>2, <3>1
    <3>2. CASE i \in DOMAIN jobs
      <4>1. PICK j \in Calls : calls[j] # Nil /\ calls[j].id = i
        BY <2>1, <3>2
      <4>2. j # k
        <5>1. i # Nil
          BY SMT, <1>5, <3>2, RequestsAssumption
        <5> QED
          BY <1>3, <4>1, <5>1
      <4> QED
        BY <1>9, <4>1, <4>2
    <3> QED
      BY <1>6, <3>1, <3>2
  <2>6. ASSUME NEW l \in Calls, l # k, calls[l] # Nil
        PROVE  calls[l].id # n
    <3>1. CallOK(calls[l], jobs)
      BY <1>1, <2>6 DEF CallInv
    <3>2. n # Nil
      BY SMT, <1>5, RequestsAssumption
    <3> QED
      BY SMT, <1>6, <3>1, <3>2 DEF CallOK
  <2>7. ASSUME NEW j \in Calls, NEW l \in Calls,
               calls'[j] # Nil, calls'[l] # Nil, j # l, calls'[j].id # Nil
        PROVE  calls'[j].id # calls'[l].id
    <3>1. CASE j = k
      <4>1. calls'[l] = calls[l] /\ calls'[j].id = n
        BY <1>8, <1>9, <2>7, <3>1
      <4> QED
        BY <2>6, <2>7, <3>1, <4>1
    <3>2. CASE l = k
      <4>1. calls'[j] = calls[j] /\ calls'[l].id = n
        BY <1>8, <1>9, <2>7, <3>2
      <4> QED
        BY <2>6, <2>7, <3>2, <4>1
    <3>3. CASE j # k /\ l # k
      BY ONLY <1>9, <2>1, <2>7, <3>3
    <3> QED
      BY <3>1, <3>2, <3>3
  <2> QED
    BY <2>4, <2>5, <2>7 DEF OwnInv
<1> QED
  BY <1>5, <1>9, <1>10, <1>11 DEF JobInv, Row

\* CreateJobFails and jobCreated tell the client a status.
LEMMA TellKeepsJobs ==
  ASSUME JobInv, NEW k \in Calls, CreateJobFails(k) \/ jobCreated(k)
  PROVE  JobInv'
<1>1. /\ calls \in [Calls -> Call \cup {Nil}] /\ Nil \notin Call
      /\ CallInv
      /\ jobs' = jobs /\ calls[k] # Nil /\ calls[k].status = Nil
  BY RequestsAssumption DEF JobInv, CreateJobFails, jobCreated
<1>2. calls[k] \in Call /\ CallOK(calls[k], jobs)
  BY <1>1 DEF CallInv
<1>3. CASE CreateJobFails(k)
  <2> DEFINE told == 500
  <2>1. PICK sent \in {FALSE, calls[k].sent} :
          calls' = [calls EXCEPT ![k].sent = sent, ![k].status = told]
    BY <1>3 DEF CreateJobFails
  <2> DEFINE new == [calls[k] EXCEPT !.sent = sent, !.status = told]
  <2>2. told \in Int
    BY SMT
  <2> HIDE DEF told
  <2>3. calls' = [calls EXCEPT ![k] = new]
    BY <1>1, <2>1
  <2>4. sent \in BOOLEAN /\ (sent => calls[k].sent)
    <3>1. calls[k].sent \in BOOLEAN
      BY <1>2 DEF Call
    <3>2. CASE sent = FALSE
      BY <3>2
    <3>3. CASE sent = calls[k].sent
      BY <3>1, <3>3
    <3> QED
      BY <3>2, <3>3
  <2>5. new.sent = sent /\ new.status = told
    BY <1>2 DEF Call
  <2>6. new \in Call
    BY <1>2, <2>2, <2>4 DEF Call
  <2>7. new.body = calls[k].body /\ new.id = calls[k].id
    BY <1>2 DEF Call
  <2> HIDE DEF new
  <2>8. CallOK(new, jobs)
    BY ONLY <1>1, <1>2, <2>4, <2>5, <2>7 DEF CallOK, Untold, told
  <2> QED
    BY <1>1, <2>3, <2>6, <2>7, <2>8, CallMoves
<1>4. CASE jobCreated(k)
  <2> DEFINE told == 201
             new == [calls[k] EXCEPT !.status = told]
  <2>1. told \in Int
    BY SMT
  <2>2. calls' = [calls EXCEPT ![k].status = told] /\ calls[k].id # Nil
    BY <1>4 DEF jobCreated
  <2> HIDE DEF told
  <2>3. calls' = [calls EXCEPT ![k] = new]
    BY <1>1, <2>2
  <2>4. new \in Call
    BY <1>2, <2>1 DEF Call
  <2>5. /\ new.body = calls[k].body /\ new.id = calls[k].id
        /\ new.sent = calls[k].sent /\ new.status = told
    BY <1>2 DEF Call
  <2> HIDE DEF new
  <2>6. CallOK(new, jobs)
    BY ONLY <1>2, <2>2, <2>5 DEF CallOK, Untold, told
  <2> QED
    BY <1>1, <2>3, <2>4, <2>5, <2>6, CallMoves
<1> QED
  BY <1>3, <1>4

LEMMA JobNext == JobInv /\ [Next]_vars => JobInv'
<1> SUFFICES ASSUME JobInv, [Next]_vars PROVE JobInv'
  OBVIOUS
<1>1. CASE UNCHANGED <<calls, jobs>>
  BY SMT, <1>1 DEF JobInv, CallInv, CallOK, OwnInv
<1>2. ASSUME NEW k \in Calls,
             createJob(k) \/ CreateJob(k) \/ CreateJobFails(k) \/ jobCreated(k)
      PROVE  JobInv'
  BY <1>2, createJobKeepsJobs, CreateJobKeepsJobs, TellKeepsJobs
<1>3. CASE Exit
  BY <1>3, ExitKeepsJobs
<1>4. Start \/ Started \/ BeginDraining \/ Ask => UNCHANGED <<calls, jobs>>
  BY DEF Start, Started, BeginDraining, Ask
<1>5. Open \/ Sort \/ Turn \/ EditChip \/ RemoveChip \/ AddMatch \/ Submit
        => UNCHANGED <<calls, jobs>>
  BY DEF Open, Sort, Turn, EditChip, RemoveChip, AddMatch, Submit
<1>6. UNCHANGED vars => UNCHANGED <<calls, jobs>>
  BY DEF vars
<1> QED
  BY <1>1, <1>2, <1>3, <1>4, <1>5, <1>6 DEF Next

\* The rows of one kind are no more than the calls that may have made them.
LEMMA RowsHaveCalls ==
  ASSUME JobInv, NEW r, NEW A, NEW B,
         A = {k \in Calls : calls[k] # Nil /\ calls[k].status = 201
                            /\ jobRow(calls[k].body) = r},
         B = {k \in Calls : calls[k] # Nil /\ calls[k].status \in Untold
                            /\ jobRow(calls[k].body) = r}
  PROVE  Cardinality({i \in DOMAIN jobs : jobs[i] = r})
           <= Cardinality(A) + Cardinality(B)
<1> DEFINE S == {i \in DOMAIN jobs : jobs[i] = r}
           made == {k \in Calls : calls[k] # Nil}
           of(i) == CHOOSE k \in Calls : calls[k] # Nil /\ calls[k].id = i
           f == [i \in S |-> of(i)]
<1>1. IsFiniteSet(made) /\ A \in SUBSET made /\ B \in SUBSET made
  BY DEF JobInv, OwnInv
<1>2. IsFiniteSet(A) /\ IsFiniteSet(B)
  <2> HIDE DEF made
  <2> QED
    BY ONLY <1>1, FS_Subset
<1>3. ASSUME NEW i \in S
      PROVE  of(i) \in A \cup B /\ calls[of(i)].id = i
  <2>1. \E k \in Calls : calls[k] # Nil /\ calls[k].id = i
    BY DEF JobInv, OwnInv
  <2>2. of(i) \in Calls /\ calls[of(i)] # Nil /\ calls[of(i)].id = i
    BY <2>1
  <2> HIDE DEF of
  <2>3. CallOK(calls[of(i)], jobs) /\ i # Nil
    <3>1. DOMAIN jobs = 1 .. Len(jobs) /\ Len(jobs) \in Nat
      BY LenProperties DEF JobInv
    <3>2. i # Nil
      BY SMT, <3>1, RequestsAssumption
    <3> QED
      BY <2>2, <3>2 DEF JobInv, CallInv
  <2>4. jobRow(calls[of(i)].body) = r /\ calls[of(i)].status \in Untold \cup {201}
    <3>1. /\ calls[of(i)].status \in Untold \cup {201}
          /\ jobs[i] = jobRow(calls[of(i)].body)
      BY ONLY <2>2, <2>3 DEF CallOK
    <3> QED
      BY <3>1
  <2> QED
    BY <2>2, <2>4
<1> HIDE DEF of
<1>4. f \in Injection(S, A \cup B)
  <2>1. f \in [S -> A \cup B]
    BY <1>3
  <2>2. ASSUME NEW i \in S, NEW j \in S, f[i] = f[j] PROVE i = j
    <3>1. of(i) = of(j)
      BY <2>2
    <3> QED
      BY <1>3, <3>1
  <2> QED
    BY <2>1, <2>2 DEF Injection, IsInjective
<1> HIDE DEF f, S
<1>5. /\ IsFiniteSet(A \cup B) /\ IsFiniteSet(A \cap B)
      /\ Cardinality(A \cup B) = Cardinality(A) + Cardinality(B) - Cardinality(A \cap B)
  BY ONLY <1>2, FS_Union, FS_Intersection
<1>6. IsFiniteSet(S) /\ Cardinality(S) <= Cardinality(A \cup B)
  BY <1>4, <1>5, FS_Injection
<1>7. /\ Cardinality(A) \in Nat /\ Cardinality(B) \in Nat /\ Cardinality(S) \in Nat
      /\ Cardinality(A \cap B) \in Nat
  BY <1>2, <1>5, <1>6, FS_CardinalityType
<1>8. Cardinality(S) <= Cardinality(A) + Cardinality(B)
  BY ONLY <1>5, <1>6, <1>7
<1> QED
  BY <1>8 DEF S

\* createJob, CreateJob and the answers: every 201 names a row of its own, and
\* no row is beyond the calls that were told 201 or were told nothing, however
\* many calls there are and whenever the process ends.
THEOREM JobsMatch == Spec => []JobsMatchAnswers
<1>1. JobInv => JobsMatchAnswers
  <2> SUFFICES ASSUME JobInv PROVE JobsMatchAnswers
    OBVIOUS
  <2> DEFINE created == {k \in Calls : calls[k] # Nil /\ calls[k].status = 201}
             unsure  == {k \in Calls : calls[k] # Nil
                                       /\ calls[k].status \in {Nil, 500, Lost}}
  <2>1. ASSUME NEW k \in created
        PROVE  calls[k].id \in DOMAIN jobs /\ jobs[calls[k].id] = jobRow(calls[k].body)
    <3>1. CallOK(calls[k], jobs) /\ calls[k].status = 201
      BY DEF JobInv, CallInv
    <3> QED
      BY ONLY <3>1 DEF CallOK
  <2>2. ASSUME NEW k \in created, NEW l \in created, k # l
        PROVE  calls[k].id # calls[l].id
    <3>1. CallOK(calls[k], jobs) /\ calls[k].status = 201
      BY DEF JobInv, CallInv
    <3>2. calls[k].id # Nil
      BY ONLY <3>1 DEF CallOK
    <3>3. \A a, b \in Calls :
            calls[a] # Nil /\ calls[b] # Nil /\ a # b /\ calls[a].id # Nil
              => calls[a].id # calls[b].id
      BY DEF JobInv, OwnInv
    <3> QED
      BY ONLY <2>2, <3>2, <3>3
  <2>3. ASSUME NEW i \in DOMAIN jobs
        PROVE  Cardinality({j \in DOMAIN jobs : jobs[j] = jobs[i]})
                 <= Cardinality({k \in created : jobRow(calls[k].body) = jobs[i]})
                      + Cardinality({k \in unsure : jobRow(calls[k].body) = jobs[i]})
    <3> DEFINE A == {k \in created : jobRow(calls[k].body) = jobs[i]}
               B == {k \in unsure : jobRow(calls[k].body) = jobs[i]}
    <3>1. A = {k \in Calls : calls[k] # Nil /\ calls[k].status = 201
                             /\ jobRow(calls[k].body) = jobs[i]}
      OBVIOUS
    <3>2. B = {k \in Calls : calls[k] # Nil /\ calls[k].status \in Untold
                             /\ jobRow(calls[k].body) = jobs[i]}
      BY DEF Untold
    <3> HIDE DEF A, B
    <3>3. Cardinality({j \in DOMAIN jobs : jobs[j] = jobs[i]})
            <= Cardinality(A) + Cardinality(B)
      BY <3>1, <3>2, RowsHaveCalls
    <3> QED
      BY <3>3 DEF A, B
  <2> QED
    BY <2>1, <2>2, <2>3 DEF JobsMatchAnswers
<1> QED
  BY <1>1, JobInit, JobNext, PTL DEF Spec

-----------------------------------------------------------------------------
(* Probes.                                                                 *)

\* What the telemetry listener tells a caller without a certificate.
LEMMA ProbeStatus ==
  ASSUME NEW c, NEW ready, NEW route \in Probes
  PROVE  Status(c, ready, "telemetry", route, {})
           = IF ~ready /\ route = "/readyz" THEN 503 ELSE 200
<1>1. Handshake(c, "telemetry", {})
  BY DEF Handshake, clientAuth
<1>2. Mounted(c, "telemetry", route) /\ ~Wrapped(c, "telemetry", route)
  BY DEF Mounted, Wrapped
<1> QED
  BY <1>1, <1>2 DEF Status

\* ProbesAnswered, of a request and a phase.
ProbeOK(req, p) ==
  req # Nil /\ req.certs = {} =>
    /\ req.route = <<"telemetry", "/healthz">> => req.status = 200
    /\ req.route = <<"telemetry", "/readyz">> =>
         req.status = 503 \/ (p # "starting" /\ req.status = 200)

\* The probes of Server.New: whatever is configured, a caller without a
\* certificate is answered at any moment, and never told ready too early.
THEOREM ProbesAlwaysAnswered == Spec => []ProbesAnswered
<1> DEFINE Inv == ProbeOK(last, phase)
<1>1. Init => Inv
  BY DEF Init, ProbeOK
<1>2. ASSUME Inv, [Next]_vars PROVE Inv'
  <2>1. CASE Ask
    <3>1. PICK c \in cfg, r \in Route, certs \in Certs[client] :
            /\ last'.route = r /\ last'.certs = certs
            /\ last'.status = Status(c, phase = "ready", r[1], r[2], certs)
            /\ phase' = phase
      BY SMT, <2>1 DEF Ask, process
    <3> DEFINE ready == phase = "ready"
    <3>2. ASSUME NEW route \in Probes, certs = {}, r = <<"telemetry", route>>
          PROVE  last'.status = IF ~ready /\ route = "/readyz" THEN 503 ELSE 200
      <4>1. r[1] = "telemetry" /\ r[2] = route
        BY <3>2
      <4>2. last'.status = Status(c, ready, "telemetry", route, {})
        BY <3>1, <3>2, <4>1
      <4> HIDE DEF ready
      <4>3. Status(c, ready, "telemetry", route, {})
              = IF ~ready /\ route = "/readyz" THEN 503 ELSE 200
        BY ONLY ProbeStatus, <3>2
      <4> QED
        BY <4>2, <4>3
    <3>3. certs = {} /\ r = <<"telemetry", "/healthz">> => last'.status = 200
      BY <3>2 DEF Probes
    <3>4. certs = {} /\ r = <<"telemetry", "/readyz">>
            => last'.status = 503 \/ (phase = "ready" /\ last'.status = 200)
      BY <3>2 DEF Probes
    <3> QED
      BY <3>1, <3>3, <3>4 DEF ProbeOK
  <2>2. CASE Started
    BY <1>2, <2>2 DEF Started, ProbeOK
  <2>3. CASE BeginDraining
    BY <1>2, <2>3 DEF BeginDraining, ProbeOK
  <2>4. CASE Exit
    BY <2>4 DEF Exit, ProbeOK
  <2>5. CASE UNCHANGED <<last, phase>>
    BY <1>2, <2>5 DEF ProbeOK
  <2>6. Start \/ (\E k \in Calls : createJob(k) \/ CreateJob(k) \/ CreateJobFails(k)
                                \/ jobCreated(k))
          => UNCHANGED <<last, phase>>
    BY DEF Start, createJob, CreateJob, CreateJobFails, jobCreated, process
  <2>7. Open \/ Sort \/ Turn \/ EditChip \/ RemoveChip \/ AddMatch \/ Submit
          => UNCHANGED <<last, phase>>
    BY DEF Open, Sort, Turn, EditChip, RemoveChip, AddMatch, Submit, process
  <2>8. UNCHANGED vars => UNCHANGED <<last, phase>>
    BY DEF vars, process
  <2> QED
    BY <1>2, <2>1, <2>2, <2>3, <2>4, <2>5, <2>6, <2>7, <2>8 DEF Next
<1>3. Inv => ProbesAnswered
  BY DEF ProbeOK, ProbesAnswered
<1> QED
  BY <1>1, <1>2, <1>3, PTL DEF Spec

-----------------------------------------------------------------------------
(* The configuration.                                                      *)

LEMMA SettingKinds ==
  /\ \A n \in TextSetting : n \notin NumberSetting \cup {PprofEnabled, RequiredAttributes,
                                                          RoleMapping}
  /\ \A n \in NumberSetting : n \notin {PprofEnabled, RequiredAttributes, RoleMapping}
  /\ PprofEnabled # RequiredAttributes
  /\ RoleMapping \notin envOverrides
BY SMT DEF TextSetting, NumberSetting, PprofEnabled, RequiredAttributes, RoleMapping,
       envOverrides, Listeners, TLSSection

LEMMA DefaultsTyped == \A n \in Setting : Typed(n, defaults[n])
<1>1. ASSUME NEW n \in TextSetting PROVE Typed(n, defaults[n])
  BY ConfigurationAssumption, SettingKinds
     DEF defaults, Setting, envOverrides, Typed
<1>2. ASSUME NEW n \in NumberSetting PROVE Typed(n, defaults[n])
  <2>1. defaultNumber(n) \in Int
    BY SMT DEF defaultNumber
  <2> QED
    BY <2>1, SettingKinds DEF defaults, Setting, envOverrides, Typed
<1>3. Typed(PprofEnabled, defaults[PprofEnabled])
  BY SettingKinds DEF defaults, Setting, envOverrides, Typed
<1>4. Typed(RequiredAttributes, defaults[RequiredAttributes])
  BY SettingKinds DEF defaults, Setting, envOverrides, Typed
<1>5. Typed(RoleMapping, defaults[RoleMapping])
  <2>1. << >> \in Seq([match : STRING, spiffe_id : Seq(STRING), role : STRING])
    BY SMT
  <2> QED
    BY <2>1, SettingKinds DEF defaults, Setting, envOverrides, Typed
<1> QED
  BY <1>1, <1>2, <1>3, <1>4, <1>5 DEF Setting, envOverrides

\* A variable that is a text stores what it is set to.
LEMMA ParsedText ==
  ASSUME NEW n \in TextSetting, NEW raw PROVE Parsed(n, raw) = {raw}
BY DEF Parsed

\* What Load returns: one valid configuration, each setting from the variable,
\* the file or the defaults, in that order.
LEMMA LoadIs ==
  ASSUME NEW file, NEW env, DOMAIN env \subseteq envOverrides,
         NEW c \in Load(file, env)
  PROVE  /\ Load(file, env) = {c}
         /\ DOMAIN c = Setting
         /\ validate(c)
         /\ \A n \in Setting :
              IF n \in DOMAIN env THEN c[n] \in Parsed(n, env[n])
              ELSE c[n] = IF n \in DOMAIN file THEN file[n] ELSE defaults[n]
<1> DEFINE over == [n \in DOMAIN env \cap envOverrides |-> Parsed(n, env[n])]
           made == [n \in Setting |->
                      IF n \in DOMAIN over THEN CHOOSE v \in over[n] : TRUE
                      ELSE IF n \in DOMAIN file THEN file[n]
                      ELSE defaults[n]]
<1>1. \A n \in DOMAIN over : over[n] # {}
  BY DEF Load
<1>2. c = made /\ validate(c) /\ Load(file, env) = {c}
  <2>1. c \in {x \in {made} : validate(x)} /\ Load(file, env) = {x \in {made} : validate(x)}
    BY DEF Load
  <2> HIDE DEF made
  <2> QED
    BY <2>1
<1>3. DOMAIN over = DOMAIN env
  OBVIOUS
<1>4. ASSUME NEW n \in Setting
      PROVE  IF n \in DOMAIN env THEN c[n] \in Parsed(n, env[n])
             ELSE c[n] = IF n \in DOMAIN file THEN file[n] ELSE defaults[n]
  <2>1. CASE n \in DOMAIN env
    <3>1. over[n] = Parsed(n, env[n]) /\ over[n] # {}
      BY <1>1, <1>3, <2>1
    <3>2. c[n] = CHOOSE v \in over[n] : TRUE
      BY <1>2, <1>3, <2>1
    <3> QED
      BY <2>1, <3>1, <3>2
  <2>2. CASE n \notin DOMAIN env
    BY <1>2, <1>3, <2>2
  <2> QED
    BY <2>1, <2>2
<1> QED
  BY <1>2, <1>4

\* Its settings have their types.
LEMMA LoadTyped ==
  ASSUME NEW k \in Client, NEW i \in Inputs[k], NEW c \in Load(i.file, i.env),
         NEW n \in Setting
  PROVE  Typed(n, c[n])
<1>1. /\ \A m \in DOMAIN i.file : Typed(m, i.file[m])
      /\ DOMAIN i.env \subseteq envOverrides
      /\ \A m \in DOMAIN i.env : \A v \in Parsed(m, i.env[m]) : Typed(m, v)
  BY RequestsAssumption
<1>2. IF n \in DOMAIN i.env THEN c[n] \in Parsed(n, i.env[n])
      ELSE c[n] = IF n \in DOMAIN i.file THEN i.file[n] ELSE defaults[n]
  <2>1. \A m \in Setting :
          IF m \in DOMAIN i.env THEN c[m] \in Parsed(m, i.env[m])
          ELSE c[m] = IF m \in DOMAIN i.file THEN i.file[m] ELSE defaults[m]
    BY SMT, <1>1, LoadIs
  <2> QED
    BY <2>1
<1> QED
  BY <1>1, <1>2, DefaultsTyped

\* validate keeps every number in its range.
LEMMA NumbersValid ==
  ASSUME NEW c, validate(c), \A n \in NumberSetting : c[n] \in Int,
         NEW n \in NumberSetting
  PROVE  c[n] \in Nat
<1>1. /\ c[<<"fleet", "heartbeat_interval">>] > 0
      /\ c[<<"fleet", "stale_missed_heartbeats">>] > 0
      /\ c[<<"fleet", "soft_delete_duration">>] > 0
      /\ c[<<"fleet", "shard_count">>] >= 0
      /\ c[<<"metrics", "per_agent_series_limit">>] >= 0
      /\ c[<<"ui", "poll_interval">>] > 0
      /\ c[<<"database", "port">>] > 0
  BY DEF validate
<1>2. \/ n \in {<<"fleet", "heartbeat_interval">>, <<"fleet", "stale_missed_heartbeats">>,
                <<"fleet", "soft_delete_duration">>, <<"fleet", "shard_count">>}
      \/ n \in {<<"metrics", "per_agent_series_limit">>, <<"ui", "poll_interval">>,
                <<"database", "port">>}
  BY DEF NumberSetting
<1>3. c[n] \in Int
  OBVIOUS
<1>4. c[n] >= 0 \/ c[n] > 0
  BY <1>1, <1>2
<1> QED
  BY ONLY <1>3, <1>4

-----------------------------------------------------------------------------
(* The process and its last answer.                                        *)

\* What Ask leaves in last.
Answer(c, ready, r, certs) ==
  [ route  |-> r, certs |-> certs,
    status |-> Status(c, ready, r[1], r[2], certs),
    role   |-> IF Status(c, ready, r[1], r[2], certs) = 200 /\ Wrapped(c, r[1], r[2])
                 THEN Granted(c, PeerCertificates(c, r[1], certs))
               ELSE {} ]

\* The configuration is the one Load made of the input, and the last answer was
\* given under it.
ProcessInv ==
  /\ client \in Client
  /\ phase \in {"starting", "ready", "draining"}
  /\ cfg = {} => input = Nil /\ last = Nil
  /\ cfg # {} => input \in Inputs[client] /\ cfg = Load(input.file, input.env)
  /\ last # Nil =>
       \E c \in cfg, ready \in BOOLEAN, r \in Route, certs \in Certs[client] :
         last = Answer(c, ready, r, certs)

LEMMA ProcessInit == Init => ProcessInv
BY DEF Init, ProcessInv

LEMMA ProcessNext == ProcessInv /\ [Next]_vars => ProcessInv'
<1> SUFFICES ASSUME ProcessInv, [Next]_vars PROVE ProcessInv'
  OBVIOUS
<1>1. CASE Start
  <2>1. PICK i \in Inputs[client] :
          cfg' = Load(i.file, i.env) /\ input' = IF cfg' = {} THEN Nil ELSE i
    BY <1>1 DEF Start
  <2>2. last = Nil /\ UNCHANGED <<client, phase, last>>
    BY <1>1 DEF Start, ProcessInv
  <2> QED
    BY <2>1, <2>2 DEF ProcessInv
<1>2. CASE Started
  BY <1>2 DEF Started, ProcessInv
<1>3. CASE BeginDraining
  BY <1>3 DEF BeginDraining, ProcessInv
<1>4. CASE Exit
  BY <1>4 DEF Exit, ProcessInv
<1>5. CASE Ask
  <2>1. PICK c \in cfg, r \in Route, certs \in Certs[client] :
          last' = Answer(c, phase = "ready", r, certs)
    BY <1>5 DEF Ask, Answer
  <2>2. (phase = "ready") \in BOOLEAN
    OBVIOUS
  <2>3. UNCHANGED <<client, phase, cfg, input>>
    BY <1>5 DEF Ask, process
  <2>4. \E d \in cfg', ready \in BOOLEAN, s \in Route, given \in Certs[client]' :
          last' = Answer(d, ready, s, given)
    BY <2>1, <2>2, <2>3
  <2>5. cfg # {}
    BY <2>1
  <2> QED
    BY <2>3, <2>4, <2>5 DEF ProcessInv
<1>6. CASE UNCHANGED <<process, last>>
  BY <1>6 DEF process, ProcessInv
<1>7. (\E k \in Calls : createJob(k) \/ CreateJob(k) \/ CreateJobFails(k) \/ jobCreated(k))
        => UNCHANGED <<process, last>>
  BY DEF createJob, CreateJob, CreateJobFails, jobCreated
<1>8. Open \/ Sort \/ Turn \/ EditChip \/ RemoveChip \/ AddMatch \/ Submit
        => UNCHANGED <<process, last>>
  BY DEF Open, Sort, Turn, EditChip, RemoveChip, AddMatch, Submit
<1>9. UNCHANGED vars => UNCHANGED <<process, last>>
  BY DEF vars
<1> QED
  BY <1>1, <1>2, <1>3, <1>4, <1>5, <1>6, <1>7, <1>8, <1>9 DEF Next

-----------------------------------------------------------------------------
(* The page.                                                               *)

\* A page and its form, whose selects are of bool fields.
PageInv ==
  page # Nil =>
    \E q, selects, chips, text, via, arg :
      /\ page = [ query |-> q, via |-> via, arg |-> arg,
                  form  |-> [selects |-> selects, chips |-> chips, input |-> text] ]
      /\ DOMAIN selects \subseteq boolFields

LEMMA LoadedPage ==
  ASSUME NEW q, NEW via, NEW arg, page' = Loaded(q, via, arg) PROVE PageInv'
<1> SUFFICES ASSUME page' # Nil PROVE PageInv'
  BY DEF PageInv
<1>1. page' = [query |-> q, form |-> formOf(q), via |-> via, arg |-> arg]
  BY DEF Loaded
<1> DEFINE names == {<<"healthy">>, <<"connected">>, <<"via_gateway">>}
           selects == [n \in names |-> IF Get(q, n) \in {<<"true">>, <<"false">>}
                                         THEN Get(q, n) ELSE << >>]
           chips == {TrimSpace(s) : s \in collectMatches(q)} \ {<< >>}
<1>2. formOf(q) = [selects |-> selects, chips |-> chips, input |-> << >>]
  BY DEF formOf
<1>3. DOMAIN selects = names /\ names \subseteq boolFields
  BY DEF boolFields
<1> HIDE DEF selects, chips, names
<1>4. page' = [ query |-> q, via |-> via, arg |-> arg,
                form |-> [selects |-> selects, chips |-> chips, input |-> << >>] ]
  BY <1>1, <1>2
<1>5. DOMAIN selects \subseteq boolFields
  BY <1>3
<1> QED
  BY <1>4, <1>5 DEF PageInv

LEMMA PageNext == PageInv /\ [Next]_vars => PageInv'
<1> SUFFICES ASSUME PageInv, [Next]_vars PROVE PageInv'
  OBVIOUS
<1>1. CASE Open \/ Sort \/ Turn \/ Submit
  <2>1. \E q, via, arg : page' = Loaded(q, via, arg)
    BY <1>1 DEF Open, Sort, Turn, Submit
  <2> QED
    BY <2>1, LoadedPage
<1>2. CASE EditChip \/ RemoveChip \/ AddMatch
  <2>1. PICK q, selects, chips, text, via, arg :
          /\ page = [ query |-> q, via |-> via, arg |-> arg,
                      form  |-> [selects |-> selects, chips |-> chips, input |-> text] ]
          /\ DOMAIN selects \subseteq boolFields
    BY <1>2 DEF PageInv, EditChip, RemoveChip, AddMatch
  <2> DEFINE form == [selects |-> selects, chips |-> chips, input |-> text]
  <2>2. page.form = form
    BY <2>1
  <2>3. ASSUME NEW cs, NEW t, NEW v, NEW a, 
               page' = [page EXCEPT !.form = [form EXCEPT !.chips = cs, !.input = t],
                                    !.via = v, !.arg = a]
        PROVE  PageInv'
    <3>1. page' = [ query |-> q, via |-> v, arg |-> a,
                    form  |-> [selects |-> selects, chips |-> cs, input |-> t] ]
      BY <2>1, <2>3
    <3> QED
      BY <2>1, <3>1 DEF PageInv
  <2>4. CASE EditChip
    <3>1. PICK chip \in page.form.chips :
            page' = [page EXCEPT !.form = editChip(@, chip), !.via = "edit", !.arg = Nil]
      BY <2>4 DEF EditChip
    <3>2. \E cs, t : editChip(form, chip) = [form EXCEPT !.chips = cs, !.input = t]
      BY DEF editChip
    <3>3. page' = [page EXCEPT !.form = editChip(form, chip), !.via = "edit", !.arg = Nil]
      BY <2>2, <3>1
    <3> QED
      <4>1. PICK cs, t : editChip(form, chip) = [form EXCEPT !.chips = cs, !.input = t]
        BY <3>2
      <4>2. page' = [page EXCEPT !.form = [form EXCEPT !.chips = cs, !.input = t],
                                 !.via = "edit", !.arg = Nil]
        BY <3>3, <4>1
      <4> HIDE DEF form
      <4> QED
        BY <2>3, <4>2
  <2>5. CASE RemoveChip
    <3>1. PICK chip \in page.form.chips :
            page' = [page EXCEPT !.form.chips = @ \ {chip}, !.via = "remove", !.arg = Nil]
      BY <2>5 DEF RemoveChip
    <3>2. page' = [ query |-> q, via |-> "remove", arg |-> Nil,
                    form  |-> [selects |-> selects, chips |-> chips \ {chip}, input |-> text] ]
      BY <2>1, <3>1
    <3> QED
      BY <2>1, <3>2 DEF PageInv
  <2>6. CASE AddMatch
    <3>1. PICK a \in Attributes :
            page' = [page EXCEPT !.form = onAddMatch(@, a.key, a.value),
                                 !.via = "add", !.arg = a]
      BY <2>6 DEF AddMatch
    <3>2. \E cs, t : onAddMatch(form, a.key, a.value) = [form EXCEPT !.chips = cs, !.input = t]
      BY DEF onAddMatch
    <3>3. page' = [page EXCEPT !.form = onAddMatch(form, a.key, a.value),
                               !.via = "add", !.arg = a]
      BY <2>2, <3>1
    <3> QED
      <4>1. PICK cs, t : onAddMatch(form, a.key, a.value)
                            = [form EXCEPT !.chips = cs, !.input = t]
        BY <3>2
      <4>2. page' = [page EXCEPT !.form = [form EXCEPT !.chips = cs, !.input = t],
                                 !.via = "add", !.arg = a]
        BY <3>3, <4>1
      <4> HIDE DEF form
      <4> QED
        BY <2>3, <4>2
  <2> QED
    BY <1>2, <2>4, <2>5, <2>6
<1>3. CASE UNCHANGED page
  BY <1>3 DEF PageInv
<1>4. Start \/ Started \/ BeginDraining \/ Exit \/ Ask => UNCHANGED page
  BY DEF Start, Started, BeginDraining, Exit, Ask
<1>5. (\E k \in Calls : createJob(k) \/ CreateJob(k) \/ CreateJobFails(k) \/ jobCreated(k))
        => UNCHANGED page
  BY DEF createJob, CreateJob, CreateJobFails, jobCreated
<1>6. UNCHANGED vars => UNCHANGED page
  BY DEF vars
<1> QED
  BY <1>1, <1>2, <1>3, <1>4, <1>5, <1>6 DEF Next

-----------------------------------------------------------------------------
\* Types: a process that runs has one configuration with every setting in its
\* type and range, and answers, calls, rows and pages have their shapes.
THEOREM RequestsTypeCorrect == Spec => []TypeOK
<1> DEFINE Inv == ProcessInv /\ JobInv /\ PageInv
<1>1. Init => Inv
  <2>1. Init => PageInv
    BY DEF Init, PageInv
  <2> QED
    BY <2>1, ProcessInit, JobInit
<1>2. Inv /\ [Next]_vars => Inv'
  BY ProcessNext, JobNext, PageNext
<1>3. Inv => TypeOK
  <2> SUFFICES ASSUME Inv PROVE TypeOK
    OBVIOUS
  <2>1. ASSUME NEW c \in cfg
        PROVE  /\ Cardinality(cfg) = 1 /\ DOMAIN c = Setting
               /\ \A n \in TextSetting : c[n] \in STRING
               /\ \A n \in NumberSetting : c[n] \in Nat
               /\ c[PprofEnabled] \in BOOLEAN
    <3>1. /\ client \in Client /\ input \in Inputs[client]
          /\ c \in Load(input.file, input.env) /\ cfg = Load(input.file, input.env)
      BY DEF ProcessInv
    <3>2. DOMAIN input.env \subseteq envOverrides
      BY <3>1, RequestsAssumption
    <3>3. cfg = {c} /\ DOMAIN c = Setting /\ validate(c)
      BY SMT, <3>1, <3>2, LoadIs
    <3>4. \A n \in Setting : Typed(n, c[n])
      BY <3>1, LoadTyped
    <3>5. Cardinality(cfg) = 1
      BY <3>3, FS_Singleton
    <3>6. \A n \in TextSetting : c[n] \in STRING
      BY <3>4 DEF Typed, Setting, envOverrides
    <3>7. \A n \in NumberSetting : c[n] \in Int
      BY <3>4 DEF Typed, Setting, envOverrides
    <3>8. \A n \in NumberSetting : c[n] \in Nat
      BY <3>3, <3>7, NumbersValid
    <3>9. c[PprofEnabled] \in BOOLEAN
      BY <3>4 DEF Typed, Setting, envOverrides
    <3> QED
      BY <3>3, <3>5, <3>6, <3>8, <3>9
  <2>2. client \in Client /\ phase \in {"starting", "ready", "draining"}
    BY DEF ProcessInv
  <2>3. cfg = {} <=> input = Nil
    <3>1. cfg # {} => input # Nil
      BY RequestsAssumption DEF ProcessInv
    <3> QED
      BY <3>1 DEF ProcessInv
  <2>4. last # Nil => last.status \in {0, 200, 403, 404, 501, 503}
    <3> SUFFICES ASSUME last # Nil PROVE last.status \in {0, 200, 403, 404, 501, 503}
      OBVIOUS
    <3>1. PICK c \in cfg, ready \in BOOLEAN, r \in Route, certs \in Certs[client] :
            last = Answer(c, ready, r, certs)
      BY DEF ProcessInv
    <3>2. last.status = Status(c, ready, r[1], r[2], certs)
      BY <3>1 DEF Answer
    <3>3. Status(c, ready, r[1], r[2], certs) \in {0, 200, 403, 404, 501, 503}
      BY ONLY StatusType
    <3> QED
      BY ONLY <3>2, <3>3
  <2>5. ASSUME NEW k \in Calls, calls[k] # Nil
        PROVE  /\ calls[k].body \in Bodies /\ calls[k].sent \in BOOLEAN
               /\ calls[k].id \in DOMAIN jobs \cup {Nil}
               /\ calls[k].status \in {Nil, Lost, 0, 201, 400, 403, 500, 503}
    <3>1. calls[k] \in Call
      BY <2>5 DEF JobInv
    <3>2. calls[k].body \in Bodies /\ calls[k].sent \in BOOLEAN
      BY ONLY <3>1 DEF Call
    <3>3. CallOK(calls[k], jobs)
      BY <2>5 DEF JobInv, CallInv
    <3>4. calls[k].id \in DOMAIN jobs \cup {Nil}
      BY <3>3 DEF CallOK
    <3>5. calls[k].status \in {Nil, Lost, 0, 201, 400, 403, 500, 503}
      BY ONLY <3>3 DEF CallOK, Untold
    <3> QED
      BY <3>2, <3>4, <3>5
  <2>6. ASSUME NEW i \in DOMAIN jobs
        PROVE  jobs[i].status = "planned" /\ jobs[i].target_mode = Nil
    <3>1. jobs[i] \in {jobRow(body) : body \in Bodies}
      BY ElementOfSeq, LenProperties DEF JobInv
    <3>2. PICK body \in Bodies : jobs[i] = jobRow(body)
      BY <3>1
    <3>3. PICK filter, action, config, by :
            jobs[i] = [ filter |-> filter, action |-> action, action_config |-> config,
                        submitted_by |-> by, status |-> "planned", target_mode |-> Nil ]
      BY <3>2 DEF jobRow
    <3> QED
      BY ONLY <3>3
  <2>7. page # Nil => DOMAIN page.form.selects \subseteq boolFields
    <3> SUFFICES ASSUME page # Nil PROVE DOMAIN page.form.selects \subseteq boolFields
      OBVIOUS
    <3>1. PICK q, selects, chips, text, via, arg :
            /\ page = [ query |-> q, via |-> via, arg |-> arg,
                        form  |-> [selects |-> selects, chips |-> chips, input |-> text] ]
            /\ DOMAIN selects \subseteq boolFields
      BY DEF PageInv
    <3>2. page.form.selects = selects
      BY <3>1
    <3> QED
      BY <3>1, <3>2
  <2> QED
    BY <2>1, <2>2, <2>3, <2>4, <2>5, <2>6, <2>7 DEF TypeOK
<1> QED
  BY <1>1, <1>2, <1>3, PTL DEF Spec

-----------------------------------------------------------------------------
(* Roles.                                                                  *)

LEMMA MinOf ==
  ASSUME NEW T \in SUBSET Nat, T # {}
  PROVE  Min(T) \in T /\ \A y \in T : Min(T) <= y
<1> DEFINE below == {ss \in Nat \X Nat : ss[1] < ss[2]}
<1>1. IsWellFoundedOn(below, Nat)
  BY NatLessThanWellFounded DEF OpToRel
<1>2. \A m, n \in Nat : ~(<<m, n>> \in below) => n <= m
  BY SMT
<1> HIDE DEF below
<1>3. T \subseteq Nat
  OBVIOUS
<1>4. PICK x \in T : \A y \in T : ~(<<y, x>> \in below)
  BY <1>1, <1>3, WFMin
<1>5. \A y \in T : x <= y
  BY <1>2, <1>3, <1>4
<1> QED
  BY <1>5 DEF Min

\* The rules that match an identity, and that rule i comes before the others.
Hits(rules, id) ==
  {i \in DOMAIN rules :
     IF rules[i].match = "exact" THEN rules[i].spiffe_id = id
     ELSE HasPrefix(id, rules[i].spiffe_id)}

Beats(rules, hits, i) ==
  \A j \in hits : IF rules[i].match = rules[j].match THEN i <= j
                  ELSE rules[i].match = "exact"

\* The two loops of ResolveRole against the order of the rules: exact before
\* prefix, then the first.
LEMMA ResolveRoleOrder ==
  ASSUME NEW id, NEW default, NEW rules, DOMAIN rules \subseteq Nat,
         \A i \in DOMAIN rules : rules[i].match \in {"exact", "prefix"}
  PROVE  /\ Hits(rules, id) = {} => ResolveRole(id, rules, default) = default
         /\ Hits(rules, id) # {} =>
              \E m \in Hits(rules, id) :
                /\ ResolveRole(id, rules, default) = rules[m].role
                /\ \A i \in Hits(rules, id) : i = m <=> Beats(rules, Hits(rules, id), i)
<1> DEFINE exact  == {i \in DOMAIN rules :
                        rules[i].match = "exact" /\ rules[i].spiffe_id = id}
           prefix == {i \in DOMAIN rules :
                        rules[i].match = "prefix" /\ HasPrefix(id, rules[i].spiffe_id)}
           hits   == Hits(rules, id)
<1>1. hits = exact \cup prefix
  BY DEF Hits
<1>2. /\ exact \in SUBSET Nat /\ prefix \in SUBSET Nat
      /\ \A i \in exact : rules[i].match = "exact"
      /\ \A i \in prefix : rules[i].match = "prefix"
  OBVIOUS
<1>3. ResolveRole(id, rules, default) =
        IF exact # {} THEN rules[Min(exact)].role
        ELSE IF prefix # {} THEN rules[Min(prefix)].role ELSE default
  BY DEF ResolveRole
<1> HIDE DEF exact, prefix, hits
<1>5. ASSUME exact # {}
      PROVE  Min(exact) \in hits /\ \A i \in hits : i = Min(exact) <=> Beats(rules, hits, i)
  <2> DEFINE m == Min(exact)
  <2>1. m \in exact /\ \A y \in exact : m <= y
    BY <1>2, <1>5, MinOf
  <2> HIDE DEF m
  <2>2. m \in hits
    BY <1>1, <2>1
  <2>3. Beats(rules, hits, m)
    BY ONLY <1>1, <1>2, <2>1 DEF Beats
  <2>4. ASSUME NEW i \in hits, Beats(rules, hits, i) PROVE i = m
    <3>1. IF rules[i].match = rules[m].match THEN i <= m ELSE rules[i].match = "exact"
      BY <2>2, <2>4 DEF Beats
    <3>2. i \in exact
      BY ONLY <1>1, <1>2, <2>1, <3>1, <2>4
    <3> QED
      BY ONLY <1>2, <2>1, <3>1, <3>2
  <2> QED
    BY <2>2, <2>3, <2>4 DEF m
<1>6. ASSUME exact = {}, prefix # {}
      PROVE  Min(prefix) \in hits /\ \A i \in hits : i = Min(prefix) <=> Beats(rules, hits, i)
  <2> DEFINE m == Min(prefix)
  <2>1. m \in prefix /\ \A y \in prefix : m <= y
    BY <1>2, <1>6, MinOf
  <2> HIDE DEF m
  <2>2. hits = prefix
    BY <1>1, <1>6
  <2>3. Beats(rules, hits, m)
    BY ONLY <2>2, <1>2, <2>1 DEF Beats
  <2>4. ASSUME NEW i \in hits, Beats(rules, hits, i) PROVE i = m
    <3>1. IF rules[i].match = rules[m].match THEN i <= m ELSE rules[i].match = "exact"
      BY <2>1, <2>2, <2>4 DEF Beats
    <3> QED
      BY ONLY <1>2, <2>1, <2>2, <2>4, <3>1
  <2> QED
    BY <2>1, <2>2, <2>3, <2>4 DEF m
<1>7. exact = {} /\ prefix = {} => hits = {}
  BY <1>1
<1>8. CASE exact # {}
  BY <1>3, <1>5, <1>8 DEF hits
<1>9. CASE exact = {} /\ prefix # {}
  BY <1>3, <1>6, <1>9 DEF hits
<1>10. CASE exact = {} /\ prefix = {}
  BY <1>3, <1>7, <1>10 DEF hits
<1> QED
  BY <1>8, <1>9, <1>10

LEMMA NamedSettings ==
  /\ \A l \in Listeners, f \in {"cert_file", "key_file", "client_ca_file"} :
       <<TLSSection[l], f>> \in TextSetting
  /\ <<"auth", "default_role">> \in TextSetting
BY SMT DEF TextSetting, Listeners

\* Load's texts and rules are what the operator wrote.
LEMMA CfgWritten ==
  ASSUME ProcessInv, NEW c \in cfg
  PROVE  /\ \A n \in TextSetting : c[n] = Written(n)
         /\ c[RoleMapping] = Written(RoleMapping)
         /\ validate(c)
         /\ DOMAIN c[RoleMapping] \subseteq Nat
<1>1. /\ client \in Client /\ input \in Inputs[client]
      /\ c \in Load(input.file, input.env)
  BY DEF ProcessInv
<1>2. DOMAIN input.env \subseteq envOverrides
  BY <1>1, RequestsAssumption
<1>3. /\ validate(c)
      /\ \A n \in Setting :
           IF n \in DOMAIN input.env THEN c[n] \in Parsed(n, input.env[n])
           ELSE c[n] = IF n \in DOMAIN input.file THEN input.file[n] ELSE defaults[n]
  BY SMT, <1>1, <1>2, LoadIs
<1>4. ASSUME NEW n \in TextSetting PROVE c[n] = Written(n)
  <2>1. n \in Setting
    BY DEF Setting, envOverrides
  <2>2. Parsed(n, input.env[n]) = {input.env[n]}
    BY ParsedText
  <2> QED
    BY <1>3, <2>1, <2>2 DEF Written
<1>5. c[RoleMapping] = Written(RoleMapping)
  <2>1. RoleMapping \in Setting /\ RoleMapping \notin DOMAIN input.env
    BY <1>2, SettingKinds DEF Setting
  <2> QED
    BY <1>3, <2>1 DEF Written
<1>6. DOMAIN c[RoleMapping] \subseteq Nat
  <2>1. Typed(RoleMapping, c[RoleMapping])
    BY <1>1, LoadTyped DEF Setting
  <2>2. \E R : c[RoleMapping] \in Seq(R)
    BY <2>1 DEF Typed
  <2> QED
    BY ONLY <2>2, LenProperties
<1> QED
  BY <1>3, <1>4, <1>5, <1>6

\* The role of an identity is the one the operator's rules give it, and no
\* rule gives the empty role.
LEMMA RoleIs ==
  ASSUME ProcessInv, NEW c \in cfg, NEW id
  PROVE  /\ ResolveRole(id, c[RoleMapping], c[<<"auth", "default_role">>]) = RoleOf(id)
         /\ RoleOf(id) # ""
<1> DEFINE rules   == Written(RoleMapping)
           default == Written(<<"auth", "default_role">>)
<1>1. /\ rules = c[RoleMapping] /\ default = c[<<"auth", "default_role">>]
      /\ validAuth(c) /\ DOMAIN rules \subseteq Nat
  BY CfgWritten, NamedSettings DEF validate
<1>2. /\ default \in {"none", "viewer", "admin"}
      /\ \A i \in DOMAIN rules :
           rules[i].match \in {"exact", "prefix"} /\ rules[i].role \in {"viewer", "admin"}
  BY <1>1 DEF validAuth, Range
<1>3. ResolveRole(id, rules, default) = RoleOf(id)
  <2> DEFINE hits == Hits(rules, id)
             best == CHOOSE i \in hits : Beats(rules, hits, i)
  <2>1. RoleOf(id) = IF hits = {} THEN default ELSE rules[best].role
    BY DEF RoleOf, Beats, Hits
  <2>3. \A i \in DOMAIN rules : rules[i].match \in {"exact", "prefix"}
    BY <1>2
  <2> HIDE DEF rules, default
  <2>4. /\ hits = {} => ResolveRole(id, rules, default) = default
        /\ hits # {} =>
             \E m \in hits : /\ ResolveRole(id, rules, default) = rules[m].role
                            /\ \A i \in hits : i = m <=> Beats(rules, hits, i)
    BY ONLY <1>1, <2>3, ResolveRoleOrder
  <2> HIDE DEF hits
  <2>5. ASSUME NEW m \in hits, \A i \in hits : i = m <=> Beats(rules, hits, i)
        PROVE  best = m
    BY <2>5
  <2> HIDE DEF best
  <2>6. CASE hits = {}
    BY <2>1, <2>4, <2>6
  <2>7. CASE hits # {}
    <3>1. PICK m \in hits : /\ ResolveRole(id, rules, default) = rules[m].role
                            /\ \A i \in hits : i = m <=> Beats(rules, hits, i)
      BY <2>4, <2>7
    <3>2. best = m
      BY <2>5, <3>1
    <3> QED
      BY <2>1, <2>7, <3>1, <3>2
  <2> QED
    BY <2>6, <2>7
<1>4. ResolveRole(id, rules, default) \in {"none", "viewer", "admin"}
  <2> HIDE DEF rules, default
  <2> DEFINE exact  == {i \in DOMAIN rules :
                          rules[i].match = "exact" /\ rules[i].spiffe_id = id}
             prefix == {i \in DOMAIN rules :
                          rules[i].match = "prefix" /\ HasPrefix(id, rules[i].spiffe_id)}
  <2>1. ResolveRole(id, rules, default) =
          IF exact # {} THEN rules[Min(exact)].role
          ELSE IF prefix # {} THEN rules[Min(prefix)].role ELSE default
    BY DEF ResolveRole
  <2>2. /\ exact \in SUBSET Nat /\ prefix \in SUBSET Nat
        /\ exact \subseteq DOMAIN rules /\ prefix \subseteq DOMAIN rules
    BY <1>1
  <2> HIDE DEF exact, prefix
  <2>3. /\ exact # {} => Min(exact) \in DOMAIN rules
        /\ prefix # {} => Min(prefix) \in DOMAIN rules
    BY <2>2, MinOf
  <2> QED
    BY <1>2, <2>1, <2>3
<1>5. RoleOf(id) # ""
  BY <1>3, <1>4
<1> QED
  BY <1>1, <1>3, <1>5

\* The identities of a set of certificates: of those with one URI, if that is
\* a SPIFFE ID.
LEMMA Identities ==
  ASSUME NEW certs \in SUBSET Certificate, NEW uris,
         uris = {cert.uris[1] : cert \in {x \in certs : Len(x.uris) = 1}}
  PROVE  UNION {FromCert(cert) : cert \in certs} =
           {<<"spiffe://", u.host>> \o u.path :
              u \in {x \in uris : x.scheme = "spiffe" /\ x.host # "" /\ x.path # << >>}}
<1> DEFINE Named(u) == u.scheme = "spiffe" /\ u.host # "" /\ u.path # << >>
           Id(u)    == <<"spiffe://", u.host>> \o u.path
<1>1. \A cert \in certs :
        FromCert(cert) = {Id(u) : u \in {x \in Range(cert.uris) :
                                           Len(cert.uris) = 1 /\ Named(x)}}
  BY DEF FromCert
<1>2. ASSUME NEW cert \in certs, Len(cert.uris) = 1
      PROVE  Range(cert.uris) = {cert.uris[1]}
  <2>1. \E U : cert.uris \in Seq(U)
    <3>1. cert \in Certificate
      OBVIOUS
    <3> QED
      BY ONLY <3>1 DEF Certificate
  <2>2. DOMAIN cert.uris = {1}
    BY ONLY <1>2, <2>1, LenProperties
  <2> QED
    BY <2>2 DEF Range
<1>3. {<<"spiffe://", u.host>> \o u.path :
         u \in {x \in uris : x.scheme = "spiffe" /\ x.host # "" /\ x.path # << >>}}
        = {Id(u) : u \in {x \in uris : Named(x)}}
  OBVIOUS
<1> HIDE DEF Named, Id
<1>4. ASSUME NEW cert \in certs
      PROVE  FromCert(cert) = {Id(u) : u \in {x \in uris : Len(cert.uris) = 1
                                                          /\ x = cert.uris[1] /\ Named(x)}}
  BY <1>1, <1>2
<1>5. UNION {FromCert(cert) : cert \in certs} = {Id(u) : u \in {x \in uris : Named(x)}}
  <2>1. ASSUME NEW cert \in certs, NEW i \in FromCert(cert)
        PROVE  i \in {Id(u) : u \in {x \in uris : Named(x)}}
    <3>1. i \in {Id(u) : u \in {x \in uris : Len(cert.uris) = 1
                                            /\ x = cert.uris[1] /\ Named(x)}}
      BY <1>4
    <3>2. PICK u \in uris : Named(u) /\ i = Id(u)
      BY <3>1
    <3> QED
      BY <3>2
  <2>2. ASSUME NEW u \in uris, Named(u)
        PROVE  \E cert \in certs : Id(u) \in FromCert(cert)
    <3>1. PICK cert \in certs : Len(cert.uris) = 1 /\ u = cert.uris[1]
      OBVIOUS
    <3>2. Id(u) \in FromCert(cert)
      BY <1>4, <2>2, <3>1
    <3> QED
      BY <3>2
  <2>3. \A i : i \in UNION {FromCert(cert) : cert \in certs}
              => i \in {Id(u) : u \in {x \in uris : Named(x)}}
    BY <2>1
  <2>4. \A i : i \in {Id(u) : u \in {x \in uris : Named(x)}}
              => i \in UNION {FromCert(cert) : cert \in certs}
    <3> SUFFICES ASSUME NEW u \in uris, Named(u)
                 PROVE  Id(u) \in UNION {FromCert(cert) : cert \in certs}
      OBVIOUS
    <3>1. \E cert \in certs : Id(u) \in FromCert(cert)
      BY <2>2
    <3> QED
      BY ONLY <3>1
  <2> DEFINE named == {Id(u) : u \in {x \in uris : Named(x)}}
             found == UNION {FromCert(cert) : cert \in certs}
  <2>5. \A i : i \in named <=> i \in found
    BY <2>3, <2>4
  <2> HIDE DEF named, found
  <2>6. found = named
    BY <2>5
  <2> QED
    BY <2>6 DEF named, found
<1> QED
  BY <1>3, <1>5

\* The roles of a set of certificates, by the operator's rules.
RolesOf(certs) ==
  LET uris == {cert.uris[1] : cert \in {x \in certs : Len(x.uris) = 1}}
  IN  {RoleOf(<<"spiffe://", u.host>> \o u.path) :
         u \in {x \in uris : x.scheme = "spiffe" /\ x.host # "" /\ x.path # << >>}} \ {"none"}

LEMMA GrantedRoles ==
  ASSUME ProcessInv, NEW c \in cfg, NEW certs \in SUBSET Certificate
  PROVE  Granted(c, certs) = RolesOf(certs)
<1> DEFINE uris == {cert.uris[1] : cert \in {x \in certs : Len(x.uris) = 1}}
           named == {x \in uris : x.scheme = "spiffe" /\ x.host # "" /\ x.path # << >>}
           Id(u) == <<"spiffe://", u.host>> \o u.path
           ids == UNION {FromCert(cert) : cert \in certs}
           Role(id) == ResolveRole(id, c[RoleMapping], c[<<"auth", "default_role">>])
<1>1. ids = {Id(u) : u \in named}
  BY Identities
<1>2. \A id : Role(id) = RoleOf(id) /\ RoleOf(id) # ""
  BY RoleIs
<1>3. Granted(c, certs) = {Role(id) : id \in ids} \ {"", "none"}
  BY DEF Granted
<1>4. RolesOf(certs) = {RoleOf(Id(u)) : u \in named} \ {"none"}
  BY DEF RolesOf
<1> HIDE DEF ids, named, Id, Role
<1>5. ASSUME NEW x PROVE x \in Granted(c, certs) <=> x \in RolesOf(certs)
  <2>1. x \in Granted(c, certs) <=> (\E id \in ids : x = RoleOf(id)) /\ x # "none"
    BY <1>2, <1>3
  <2>2. x \in RolesOf(certs) <=> (\E u \in named : x = RoleOf(Id(u))) /\ x # "none"
    BY <1>4
  <2> QED
    BY <1>1, <2>1, <2>2
<1> QED
  BY <1>5

GatedRoutes ==
  {<<"telemetry", "/metrics">>, <<"telemetry", "/metrics/fleet">>,
   <<"ui", "/">>, <<"opamp", "/v1/opamp">>}

\* Listeners and their routes under a valid configuration: the handshake
\* verifies as soon as a client CA is set.
LEMMA GatedStatus ==
  ASSUME NEW c, validate(c), NEW ready, NEW l, NEW path, NEW certs,
         <<l, path>> \in GatedRoutes
  PROVE  /\ l \in Listeners
         /\ Verifies(c, l) <=> ClientCA(c, l) # ""
         /\ Wrapped(c, l, path) <=> ClientCA(c, l) # "" /\ l # "opamp"
         /\ Status(c, ready, l, path, certs) =
              IF ~Handshake(c, l, certs) THEN 0
              ELSE IF Wrapped(c, l, path) /\ Granted(c, PeerCertificates(c, l, certs)) = {}
                THEN 403 ELSE 200
<1>1. /\ l \in {"telemetry", "ui", "opamp"}
      /\ l = "telemetry" => path \in {"/metrics", "/metrics/fleet"}
      /\ l = "ui" => path = "/"
      /\ l = "opamp" => path = "/v1/opamp"
  BY DEF GatedRoutes
<1>2. l \in Listeners
  BY <1>1 DEF Listeners
<1>3. path \notin Probes /\ path # "/readyz"
  BY <1>1 DEF Probes
<1>4. Mounted(c, l, path)
  BY <1>1 DEF Mounted
<1>5. ClientCA(c, l) # "" => ServerCert(c, l) # ""
  <2>1. validTLS(c, TLSSection[l])
    BY <1>2 DEF validate
  <2> QED
    BY <2>1 DEF validTLS, ClientCA, ServerCert
<1>6. Verifies(c, l) <=> ClientCA(c, l) # ""
  BY <1>5 DEF Verifies
<1>7. Wrapped(c, l, path) <=> ClientCA(c, l) # "" /\ l # "opamp"
  BY <1>1, <1>3 DEF Wrapped
<1>8. Status(c, ready, l, path, certs) =
        IF ~Handshake(c, l, certs) THEN 0
        ELSE IF Wrapped(c, l, path) /\ Granted(c, PeerCertificates(c, l, certs)) = {}
          THEN 403 ELSE 200
  BY ONLY <1>3, <1>4 DEF Status
<1> QED
  BY <1>2, <1>6, <1>7, <1>8

\* What AdmittedByRole says of a listener with this client CA and a caller
\* with these verified certificates.
Admits(ca, l, verified, status, role) ==
  /\ ca = "" => status = 200 /\ role = {}
  /\ ca # "" /\ l = "opamp" => (status = 200 <=> verified # {})
  /\ ca # "" /\ l # "opamp" =>
       (status = 200 <=> RolesOf(verified) # {}) /\ role = RolesOf(verified)

LEMMA GatedAnswer ==
  ASSUME ProcessInv, NEW c \in cfg, NEW ready, NEW l, NEW path,
         <<l, path>> \in GatedRoutes,
         NEW certs \in SUBSET Certificate, \A x, y \in certs : x = y
  PROVE  Admits(ClientCA(c, l), l, {cert \in certs : cert.trusted},
                Status(c, ready, l, path, certs),
                IF Status(c, ready, l, path, certs) = 200 /\ Wrapped(c, l, path)
                  THEN Granted(c, PeerCertificates(c, l, certs)) ELSE {})
<1> DEFINE status == Status(c, ready, l, path, certs)
           role == IF status = 200 /\ Wrapped(c, l, path)
                     THEN Granted(c, PeerCertificates(c, l, certs)) ELSE {}
           verified == {cert \in certs : cert.trusted}
<1> SUFFICES Admits(ClientCA(c, l), l, verified, status, role)
  OBVIOUS
<1>1. /\ l \in Listeners
      /\ Verifies(c, l) <=> ClientCA(c, l) # ""
      /\ Wrapped(c, l, path) <=> ClientCA(c, l) # "" /\ l # "opamp"
      /\ status = IF ~Handshake(c, l, certs) THEN 0
                  ELSE IF Wrapped(c, l, path) /\ Granted(c, PeerCertificates(c, l, certs)) = {}
                    THEN 403 ELSE 200
  <2>1. validate(c)
    BY CfgWritten
  <2> QED
    BY <2>1, GatedStatus
<1> HIDE DEF status
<1>2. CASE ClientCA(c, l) = ""
  <2>1. Handshake(c, l, certs) /\ ~Wrapped(c, l, path)
    BY <1>1, <1>2 DEF Handshake
  <2>2. status = IF ~Handshake(c, l, certs) THEN 0
                 ELSE IF Wrapped(c, l, path) /\ Granted(c, PeerCertificates(c, l, certs)) = {}
                   THEN 403 ELSE 200
    BY <1>1
  <2>3. status = 200 /\ role = {}
    BY ONLY <2>1, <2>2
  <2> QED
    BY <1>2, <2>3 DEF Admits
<1>3. CASE ClientCA(c, l) # "" /\ l = "opamp"
  <2>1. Handshake(c, l, certs) <=> (\A cert \in certs : cert.trusted) /\ certs # {}
    BY <1>1, <1>3 DEF Handshake, clientAuth
  <2>2. Handshake(c, l, certs) <=> verified # {}
    BY <2>1
  <2>3. status = IF ~Handshake(c, l, certs) THEN 0 ELSE 200
    BY <1>1, <1>3
  <2>4. status = 200 <=> verified # {}
    BY ONLY <2>2, <2>3
  <2> QED
    BY <1>3, <2>4 DEF Admits
<1>4. CASE ClientCA(c, l) # "" /\ l # "opamp"
  <2>1. Handshake(c, l, certs) <=> \A cert \in certs : cert.trusted
    <3>1. clientAuth(l) # "RequireAndVerifyClientCert"
      BY <1>4 DEF clientAuth
    <3> QED
      BY <1>1, <1>4, <3>1 DEF Handshake
  <2>2. PeerCertificates(c, l, certs) = certs /\ Wrapped(c, l, path)
    BY <1>1, <1>4 DEF PeerCertificates
  <2>3. Granted(c, certs) = RolesOf(certs)
    BY GrantedRoles
  <2>4. CASE Handshake(c, l, certs)
    <3>1. verified = certs
      BY <2>1, <2>4
    <3>2. status = IF RolesOf(verified) = {} THEN 403 ELSE 200
      <4>1. status = IF ~Handshake(c, l, certs) THEN 0
                     ELSE IF Wrapped(c, l, path)
                             /\ Granted(c, PeerCertificates(c, l, certs)) = {}
                       THEN 403 ELSE 200
        BY <1>1
      <4> HIDE DEF verified
      <4> QED
        BY ONLY <4>1, <2>2, <2>3, <2>4, <3>1
    <3>3. role = IF status = 200 THEN RolesOf(verified) ELSE {}
      BY <2>2, <2>3, <3>1
    <3>4. (status = 200 <=> RolesOf(verified) # {}) /\ role = RolesOf(verified)
      <4> HIDE DEF role, verified
      <4> QED
        BY ONLY <3>2, <3>3
    <3> QED
      BY <1>4, <3>4 DEF Admits
  <2>5. CASE ~Handshake(c, l, certs)
    <3>1. verified = {}
      BY <2>1, <2>5
    <3>2. RolesOf(verified) = {}
      BY <3>1 DEF RolesOf
    <3>3. status = 0
      BY <1>1, <2>5
    <3>4. status # 200 /\ role = {}
      BY ONLY <3>3
    <3> QED
      BY <1>4, <3>2, <3>4 DEF Admits
  <2> QED
    BY <2>4, <2>5
<1> QED
  BY <1>2, <1>3, <1>4

\* requireSPIFFERole behind TLS and validate: whatever the operator writes and
\* the caller presents, exactly the callers with a role get past a listener
\* with a client CA, and with that role.
THEOREM AdmissionByRole == Spec => []AdmittedByRole
<1>1. ProcessInv => AdmittedByRole
  <2> SUFFICES ASSUME ProcessInv, last # Nil, last.route \in GatedRoutes
               PROVE  AdmittedByRole
    BY DEF AdmittedByRole, GatedRoutes
  <2>1. PICK c \in cfg, ready \in BOOLEAN, r \in Route, certs \in Certs[client] :
          last = Answer(c, ready, r, certs)
    BY DEF ProcessInv
  <2>2. /\ last.route = r /\ last.certs = certs
        /\ last.status = Status(c, ready, r[1], r[2], certs)
        /\ last.role = IF last.status = 200 /\ Wrapped(c, r[1], r[2])
                         THEN Granted(c, PeerCertificates(c, r[1], certs)) ELSE {}
    BY <2>1 DEF Answer
  <2>3. r = <<r[1], r[2]>>
    BY SMT, <2>2 DEF GatedRoutes
  <2>4. certs \in SUBSET Certificate /\ \A x, y \in certs : x = y
    <3>1. client \in Client
      BY DEF ProcessInv
    <3> QED
      BY <3>1, RequestsAssumption
  <2> DEFINE l == r[1]
             ca == Written(<<TLSSection[l], "client_ca_file">>)
             verified == {cert \in last.certs : cert.trusted}
             roles == RolesOf(verified)
  <2>5. <<l, r[2]>> \in GatedRoutes
    BY <2>2, <2>3
  <2>6. ca = ClientCA(c, l)
    <3>1. l \in Listeners
      BY <2>5 DEF GatedRoutes, Listeners
    <3>2. <<TLSSection[l], "client_ca_file">> \in TextSetting
      BY <3>1, NamedSettings
    <3> QED
      BY <3>2, CfgWritten DEF ClientCA
  <2>7. verified = {cert \in certs : cert.trusted}
    BY <2>2
  <2> HIDE DEF l, verified
  <2>8. /\ ca = "" => last.status = 200 /\ last.role = {}
        /\ ca # "" /\ l = "opamp" => (last.status = 200 <=> verified # {})
        /\ ca # "" /\ l # "opamp" =>
             (last.status = 200 <=> roles # {}) /\ last.role = roles
    <3>1. /\ last.status = Status(c, ready, l, r[2], certs)
          /\ last.role = IF last.status = 200 /\ Wrapped(c, l, r[2])
                           THEN Granted(c, PeerCertificates(c, l, certs)) ELSE {}
      BY <2>2 DEF l
    <3>2. Admits(ClientCA(c, l), l, {cert \in certs : cert.trusted},
                 Status(c, ready, l, r[2], certs),
                 IF Status(c, ready, l, r[2], certs) = 200 /\ Wrapped(c, l, r[2])
                   THEN Granted(c, PeerCertificates(c, l, certs)) ELSE {})
      BY <2>4, <2>5, GatedAnswer
    <3>3. Admits(ca, l, verified, last.status, last.role)
      BY <2>6, <2>7, <3>1, <3>2
    <3> QED
      BY <3>3 DEF Admits
  <2>9. l = last.route[1]
    BY <2>2 DEF l
  <2> QED
    BY <2>8, <2>9 DEF AdmittedByRole, RolesOf, verified
<1> QED
  BY <1>1, ProcessInit, ProcessNext, PTL DEF Spec
=============================================================================
