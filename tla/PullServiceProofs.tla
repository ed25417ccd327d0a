------------------------- MODULE PullServiceProofs -------------------------
(* Theorems about PullService for every value of its constants. *)
EXTENDS PullService, TLAPS

----------------------------------------------------------------------------
(* Lemmas about contexts and rows *)

\* A context belongs to exactly one pity group, and a banner on offer has one.
LEMMA ContextType ==
  /\ \A r \in Releases, h \in Hashes : Offered(r, h) => Context(r, h) \in Contexts
  /\ \A c \in Contexts : GroupFor(c) \in Groups
<1> USE ServiceAssumption
<1>1. \A r \in Releases, h \in Hashes : Offered(r, h) => Context(r, h) \in Contexts
  <2> SUFFICES ASSUME NEW r \in Releases, NEW h \in Hashes, Offered(r, h)
               PROVE  Context(r, h) \in Contexts
    OBVIOUS
  <2>1. <<r, h>> \in {q \in Releases \X Hashes : Offered(q[1], q[2])}
    OBVIOUS
  <2> QED BY <2>1 DEF Contexts
<1>2. ASSUME NEW c \in Contexts PROVE GroupFor(c) \in Groups
  <2>1. PICK q \in Releases \X Hashes : Offered(q[1], q[2]) /\ c = Context(q[1], q[2])
    BY DEF Contexts
  <2> QED BY <2>1 DEF Context, GroupFor, Offered
<1> QED BY <1>1, <1>2

\* Every statement that writes a row leaves a well-typed row.
LEMMA RowType ==
  ASSUME NEW r \in Store!Rows, RowOK(r)
  PROVE
  /\ \A h \in Hashes, w \in Workers, c \in Contexts :
       LET new == Store!Inserted(h, w, c) IN new \in Store!Rows /\ RowOK(new)
  /\ r.status = "processing" => \A w \in Workers, c \in Contexts :
       LET new == Store!Claimed(r, w, c) IN
         new \in Store!Rows /\ RowOK(new) /\ new.ctx \in Contexts
  /\ r.status = "processing" => \A w \in Workers :
       LET new == Store!Reclaimed(r, w) IN new \in Store!Rows /\ RowOK(new)
  /\ r.status # "absent" =>
       LET new == Store!Transitioned(r, "failed", None) IN new \in Store!Rows /\ RowOK(new)
  /\ r.status # "absent" =>
       LET new == Store!Updated(r, "failed", None) IN new \in Store!Rows /\ RowOK(new)
  /\ r.status # "absent" => \A s \in Store!Committed, p \in Responses :
       LET new == Store!Updated(r, s, p) IN new \in Store!Rows /\ RowOK(new)
  /\ LET new == Store!Locked(r) IN new \in Store!Rows /\ RowOK(new)
  /\ LET new == Store!Released(r) IN new \in Store!Rows /\ RowOK(new)
  /\ LET new == [r EXCEPT !.leased = FALSE] IN new \in Store!Rows /\ RowOK(new)
  /\ LET new == [r EXCEPT !.locked = FALSE] IN new \in Store!Rows /\ RowOK(new)
<1> USE DEF Store!Rows, Store!Statuses, Store!Committed, RowOK
<1>1. \A h \in Hashes, w \in Workers, c \in Contexts :
        LET new == Store!Inserted(h, w, c) IN new \in Store!Rows /\ RowOK(new)
  BY DEF Store!Inserted, Store!Absent
<1>2. r.status = "processing" => \A w \in Workers, c \in Contexts :
        LET new == Store!Claimed(r, w, c) IN
          new \in Store!Rows /\ RowOK(new) /\ new.ctx \in Contexts
  BY DEF Store!Claimed
<1>3. r.status = "processing" => \A w \in Workers :
        LET new == Store!Reclaimed(r, w) IN new \in Store!Rows /\ RowOK(new)
  BY DEF Store!Reclaimed
<1>4. r.status # "absent" =>
        LET new == Store!Transitioned(r, "failed", None) IN new \in Store!Rows /\ RowOK(new)
  BY DEF Store!Transitioned
<1>5. r.status # "absent" =>
        LET new == Store!Updated(r, "failed", None) IN new \in Store!Rows /\ RowOK(new)
  BY DEF Store!Transitioned, Store!Updated
<1>6. r.status # "absent" => \A s \in Store!Committed, p \in Responses :
        LET new == Store!Updated(r, s, p) IN new \in Store!Rows /\ RowOK(new)
  BY DEF Store!Transitioned, Store!Updated
<1>7. LET new == Store!Locked(r) IN new \in Store!Rows /\ RowOK(new)
  BY DEF Store!Locked
<1>8. LET new == Store!Released(r) IN new \in Store!Rows /\ RowOK(new)
  BY DEF Store!Released, Store!Recoverable
<1>9. /\ LET new == [r EXCEPT !.leased = FALSE] IN new \in Store!Rows /\ RowOK(new)
      /\ LET new == [r EXCEPT !.locked = FALSE] IN new \in Store!Rows /\ RowOK(new)
  OBVIOUS
<1> QED BY <1>1, <1>2, <1>3, <1>4, <1>5, <1>6, <1>7, <1>8, <1>9

----------------------------------------------------------------------------
(* Lemmas about local control *)

\* What a step that touches one worker must establish of its local variables.
LEMMA LocalFrame ==
  ASSUME LocalOK, NEW w \in Workers,
         NEW l \in Steps, NEW j \in Jobs \cup {NoJob}, NEW t \in 0..MaxAttempts - 1,
         pc' = [pc EXCEPT ![w] = l], job' = [job EXCEPT ![w] = j],
         tries' = [tries EXCEPT ![w] = t], UNCHANGED <<batch, phase>>,
         IF l = "idle" THEN j = NoJob
         ELSE /\ j \in Jobs
              /\ l \in WithContext => j.ctx \in Contexts
              /\ l \in WithResponse => j.resp \in Responses
  PROVE  LocalOK'
<1>1. pc' \in [Workers -> Steps] /\ job' \in [Workers -> Jobs \cup {NoJob}]
  BY DEF LocalOK
<1>2. tries' \in [Workers -> 0..MaxAttempts - 1]
  BY DEF LocalOK
<1>3. ASSUME NEW u \in Workers PROVE JobOK(u)'
  <2>1. CASE u = w
    BY <2>1 DEF LocalOK, JobOK
  <2>2. CASE u # w
    <3>1. pc'[u] = pc[u] /\ job'[u] = job[u]
      BY <2>2 DEF LocalOK
    <3> QED BY <3>1 DEF LocalOK, JobOK
  <2> QED BY <2>1, <2>2
<1> QED BY <1>1, <1>2, <1>3 DEF LocalOK

\* A worker that ends its job leaves idle locals behind.
LEMMA FinishType ==
  ASSUME LocalOK, NEW w \in Workers, Finish(w)
  PROVE  LocalOK'
<1>1. 0 \in 0..MaxAttempts - 1
  BY ServiceAssumption
<1> QED BY <1>1, LocalFrame DEF Finish, Steps

\* A worker that moves on may do so when the next step finds its locals set.
LEMMA GotoType ==
  ASSUME LocalOK, NEW w \in Workers, NEW l \in Steps \ {"idle"}, pc[w] # "idle",
         Goto(w, l),
         l \in WithContext => job[w].ctx \in Contexts,
         l \in WithResponse => job[w].resp \in Responses
  PROVE  LocalOK'
<1>1. job[w] \in Jobs
  BY DEF LocalOK, JobOK
<1>2. job' = [job EXCEPT ![w] = job[w]] /\ tries' = [tries EXCEPT ![w] = tries[w]]
  BY DEF Goto, LocalOK
<1>3. tries[w] \in 0..MaxAttempts - 1
  BY DEF LocalOK
<1>4. pc' = [pc EXCEPT ![w] = l] /\ UNCHANGED <<batch, phase>>
  BY DEF Goto
<1>5. l \in Steps /\ l # "idle" /\ job[w] \in Jobs \cup {NoJob}
  BY <1>1
<1> QED BY <1>1, <1>2, <1>3, <1>4, <1>5, LocalFrame

\* Leaving a job, with or without a recovery lock to release, needs nothing.
LEMMA LeaveType ==
  ASSUME LocalOK, NEW w \in Workers, pc[w] # "idle", Leave(w)
  PROVE  LocalOK'
<1>1. "release" \in Steps \ {"idle"} /\ "release" \notin WithContext \cup WithResponse
  BY DEF Steps, WithContext, WithResponse, Executing
<1> QED BY <1>1, FinishType, GotoType DEF Leave

\* Whatever a handler finds in a row, it answers or goes on well prepared.
LEMMA ExistingType ==
  ASSUME LocalOK, ServicesOK, NEW w \in Workers, pc[w] # "idle",
         NEW r \in Store!Rows, Existing(w, r)
  PROVE  LocalOK' /\ answered' \subseteq Answers
<1>1. job[w] \in Jobs /\ answered \subseteq Answers /\ tries[w] \in 0..MaxAttempts - 1
  BY DEF LocalOK, JobOK, ServicesOK
<1>2. r.resp # None => r.resp \in Responses
  BY DEF Store!Rows
<1>3. CASE Finish(w) /\ UNCHANGED answered
  BY <1>1, <1>3, FinishType
<1>4. CASE r.resp # None /\ Answer(w, r.resp)
  <2>1. LocalOK'
    BY <1>4, FinishType DEF Answer
  <2>2. [key |-> job[w].key, hash |-> job[w].hash, resp |-> r.resp] \in Answers
    BY <1>1, <1>2, <1>4 DEF Answers, Jobs
  <2> QED BY <1>1, <1>4, <2>1, <2>2 DEF Answer
<1>5. ASSUME NEW l \in {"publish", "refund"},
             l = "publish" => r.resp # None,
             Resume(w, l, r)
      PROVE  LocalOK' /\ answered' \subseteq Answers
  <2> DEFINE j == [job[w] EXCEPT !.resp = r.resp]
  <2>1. /\ pc' = [pc EXCEPT ![w] = l] /\ job' = [job EXCEPT ![w] = j]
        /\ UNCHANGED <<batch, phase>>
    BY <1>5 DEF Resume
  <2>2. tries' = [tries EXCEPT ![w] = tries[w]]
    BY <1>5 DEF LocalOK, Resume
  <2>3. j \in Jobs /\ j.resp = r.resp
    BY <1>1, <1>2 DEF Jobs, Store!Rows
  <2>4. l \in Steps /\ l # "idle" /\ l \notin WithContext
        /\ (l \in WithResponse => l = "publish")
    BY DEF Steps, WithContext, WithResponse, Executing
  <2> HIDE DEF j
  <2>5. l \in WithResponse => j.resp \in Responses
    BY <1>2, <1>5, <2>3, <2>4
  <2>6. LocalOK'
    BY <1>1, <2>1, <2>2, <2>3, <2>4, <2>5, LocalFrame
  <2> QED BY <1>1, <1>5, <2>6 DEF Resume
<1> QED
  BY <1>3, <1>4, <1>5 DEF Existing

----------------------------------------------------------------------------
(* Lemmas about the tables *)

\* Putting one well-typed row in the table keeps the tables well typed.
LEMMA WriteType ==
  ASSUME StoreOK, NEW k \in Keys, NEW r \in Store!Rows, RowOK(r),
         row' = [row EXCEPT ![k] = r], UNCHANGED pity
  PROVE  StoreOK'
<1>1. row' \in [Keys -> Store!Rows]
  BY DEF StoreOK
<1>2. ASSUME NEW l \in Keys PROVE RowOK(row'[l])
  <2>1. CASE l = k
    BY <2>1 DEF StoreOK
  <2>2. CASE l # k
    BY <2>2 DEF StoreOK
  <2> QED BY <2>1, <2>2
<1> QED BY <1>1, <1>2 DEF StoreOK

\* The same for an update that the trigger may turn down.
LEMMA WrittenType ==
  ASSUME StoreOK, NEW k \in Keys, NEW r, Written(k, r), UNCHANGED pity,
         row[k].status # "absent" => r \in Store!Rows /\ RowOK(r)
  PROVE  StoreOK'
<1>1. CASE row' = row
  BY <1>1 DEF StoreOK
<1>2. CASE row[k].status # "absent" /\ row' = [row EXCEPT ![k] = r]
  BY <1>2, WriteType
<1> QED BY <1>1, <1>2 DEF Written

\* The key of a job in hand names a row of the table.
LEMMA JobRow ==
  ASSUME StoreOK, LocalOK, NEW w \in Workers, pc[w] # "idle"
  PROVE  /\ job[w] \in Jobs /\ job[w].key \in Keys /\ job[w].hash \in Hashes
         /\ row[job[w].key] \in Store!Rows /\ RowOK(row[job[w].key])
<1>1. job[w] \in Jobs
  BY DEF LocalOK, JobOK
<1> QED BY <1>1 DEF Jobs, StoreOK

\* What a step leaves alone stays well typed.
LEMMA FrameType ==
  ASSUME TypeOK
  PROVE  /\ UNCHANGED db => StoreOK'
         /\ UNCHANGED <<asset, bus, answered>> => ServicesOK'
         /\ UNCHANGED local => LocalOK'
<1>1. UNCHANGED db => StoreOK'
  BY DEF TypeOK, StoreOK, db
<1>2. UNCHANGED <<asset, bus, answered>> => ServicesOK'
  BY DEF TypeOK, ServicesOK, asset, bus
<1>3. UNCHANGED local => LocalOK'
  BY DEF TypeOK, LocalOK, JobOK, local
<1> QED BY <1>1, <1>2, <1>3

----------------------------------------------------------------------------
(* Type correctness, action by action *)

\* The steps of a request handler up to its claim keep the types.
LEMMA ClientStepType ==
  ASSUME TypeOK, NEW c \in Clients, ClientStep(c)
  PROVE  TypeOK'
<1> c \in Workers
  BY DEF Workers
<1> StoreOK /\ ServicesOK /\ LocalOK
  BY DEF TypeOK
<1>1. ASSUME NEW k \in Keys, NEW h \in Hashes, Request(c, k, h) PROVE TypeOK'
  <2>1. PICK r \in Releases :
          /\ pc' = [pc EXCEPT ![c] = IF Offered(r, h) THEN "insert" ELSE "lookup"]
          /\ job' = [job EXCEPT ![c] =
                       [NoJob EXCEPT !.key = k, !.hash = h,
                                     !.ctx = IF Offered(r, h) THEN Context(r, h) ELSE None]]
    BY <1>1 DEF Request
  <2> DEFINE l == IF Offered(r, h) THEN "insert" ELSE "lookup"
             j == [NoJob EXCEPT !.key = k, !.hash = h,
                                !.ctx = IF Offered(r, h) THEN Context(r, h) ELSE None]
  <2>2. /\ j \in Jobs
        /\ l = "insert" => j.ctx \in Contexts
    BY ContextType DEF Jobs, NoJob
  <2>3. l \in Steps /\ l # "idle" /\ l \notin WithResponse /\ (l \in WithContext => l = "insert")
    BY DEF Steps, WithContext, WithResponse, Executing
  <2>4. tries' = [tries EXCEPT ![c] = tries[c]] /\ tries[c] \in 0..MaxAttempts - 1
        /\ UNCHANGED <<batch, phase>>
    BY <1>1 DEF Request, LocalOK
  <2>5. pc' = [pc EXCEPT ![c] = l] /\ job' = [job EXCEPT ![c] = j]
    BY <2>1
  <2> HIDE DEF l, j
  <2>6. LocalOK'
    BY <2>2, <2>3, <2>4, <2>5, LocalFrame
  <2> QED BY <1>1, <2>6, FrameType DEF Request, TypeOK
<1>2. CASE Lookup(c)
  <2> DEFINE r == row[job[c].key]
  <2>1. pc[c] = "lookup" /\ UNCHANGED <<db, asset, bus>>
    BY <1>2 DEF Lookup
  <2>2. job[c] \in Jobs /\ r \in Store!Rows
    BY <2>1, JobRow
  <2>3. CASE Finish(c) /\ UNCHANGED answered
    BY <2>1, <2>3, FinishType, FrameType DEF TypeOK
  <2>4. CASE Existing(c, r)
    <3>1. LocalOK' /\ answered' \subseteq Answers
      BY <2>1, <2>2, <2>4, ExistingType
    <3> QED BY <2>1, <3>1, FrameType DEF TypeOK, ServicesOK, asset, bus
  <2>5. CASE /\ r.ctx # None
             /\ pc' = [pc EXCEPT ![c] = "insert"]
             /\ job' = [job EXCEPT ![c].ctx = r.ctx]
             /\ UNCHANGED <<tries, batch, phase, answered>>
    <3> DEFINE j == [job[c] EXCEPT !.ctx = r.ctx]
    <3>1. j \in Jobs /\ j.ctx \in Contexts
      BY <2>2, <2>5 DEF Jobs, Store!Rows
    <3>2. /\ pc' = [pc EXCEPT ![c] = "insert"] /\ job' = [job EXCEPT ![c] = j]
          /\ tries' = [tries EXCEPT ![c] = tries[c]] /\ tries[c] \in 0..MaxAttempts - 1
          /\ UNCHANGED <<batch, phase>>
      BY <2>5 DEF LocalOK
    <3>3. "insert" \in Steps /\ "insert" # "idle" /\ "insert" \notin WithResponse
      BY DEF Steps, WithResponse
    <3> HIDE DEF j
    <3>4. LocalOK'
      BY <3>1, <3>2, <3>3, LocalFrame
    <3> QED BY <2>1, <2>5, <3>4, FrameType DEF TypeOK
  <2> QED BY <1>2, <2>3, <2>4, <2>5 DEF Lookup
<1>3. ASSUME NEW acked \in Acks, Insert(c, acked) PROVE TypeOK'
  <2> DEFINE k == job[c].key
  <2>1. pc[c] = "insert" /\ UNCHANGED <<pity, asset, bus, answered>>
    BY <1>3 DEF Insert
  <2>2. k \in Keys /\ job[c].hash \in Hashes /\ job[c].ctx \in Contexts
    BY <2>1, JobRow DEF LocalOK, JobOK, WithContext
  <2>3. ServicesOK'
    BY <2>1, FrameType
  <2>4. CASE /\ row' = [row EXCEPT ![k] = Store!Inserted(job[c].hash, c, job[c].ctx)]
             /\ IF acked THEN Goto(c, "spend") ELSE Finish(c)
    <3>1. Store!Absent \in Store!Rows /\ RowOK(Store!Absent)
      BY DEF Store!Absent, Store!Rows, Store!Statuses, Store!Committed, RowOK
    <3>2. LET new == Store!Inserted(job[c].hash, c, job[c].ctx) IN new \in Store!Rows /\ RowOK(new)
      BY <2>2, <3>1, RowType
    <3>3. StoreOK'
      BY <2>1, <2>2, <2>4, <3>2, WriteType
    <3>4. "spend" \in Steps \ {"idle"} /\ "spend" \notin WithResponse
      BY DEF Steps, WithResponse
    <3>5. LocalOK'
      BY <2>1, <2>2, <2>4, <3>4, GotoType, FinishType
    <3> QED BY <2>3, <3>3, <3>5 DEF TypeOK
  <2>5. CASE Goto(c, "claim") /\ UNCHANGED row
    <3>1. "claim" \in Steps \ {"idle"} /\ "claim" \notin WithResponse
      BY DEF Steps, WithResponse
    <3>2. LocalOK'
      BY <2>1, <2>2, <2>5, <3>1, GotoType
    <3> QED BY <2>1, <2>3, <2>5, <3>2, FrameType DEF TypeOK, db
  <2> QED BY <1>3, <2>4, <2>5 DEF Insert
<1>4. ASSUME NEW acked \in Acks, Claim(c, acked) PROVE TypeOK'
  <2> DEFINE k == job[c].key
             claimed == Store!Claimed(row[k], c, job[c].ctx)
  <2>1. pc[c] = "claim" /\ UNCHANGED <<pity, asset, bus, answered>>
    BY <1>4 DEF Claim
  <2>2. /\ job[c] \in Jobs /\ k \in Keys /\ job[c].ctx \in Contexts
        /\ row[k] \in Store!Rows /\ RowOK(row[k])
    BY <2>1, JobRow DEF LocalOK, JobOK, WithContext
  <2>3. ServicesOK'
    BY <2>1, FrameType
  <2>4. CASE /\ Store!Claimable(row[k], job[c].hash)
             /\ row' = [row EXCEPT ![k] = claimed]
             /\ IF acked
                THEN /\ pc' = [pc EXCEPT ![c] = "spend"]
                     /\ job' = [job EXCEPT ![c].ctx = claimed.ctx]
                     /\ UNCHANGED <<tries, batch, phase>>
                ELSE Finish(c)
    <3>1. claimed \in Store!Rows /\ RowOK(claimed) /\ claimed.ctx \in Contexts
      BY <2>2, <2>4, RowType DEF Store!Claimable
    <3>2. StoreOK'
      BY <2>1, <2>2, <2>4, <3>1, WriteType
    <3>3. CASE acked
      <4> DEFINE j == [job[c] EXCEPT !.ctx = claimed.ctx]
      <4>1. j \in Jobs /\ j.ctx \in Contexts
        BY <2>2, <3>1 DEF Jobs
      <4>2. /\ pc' = [pc EXCEPT ![c] = "spend"] /\ job' = [job EXCEPT ![c] = j]
            /\ tries' = [tries EXCEPT ![c] = tries[c]] /\ tries[c] \in 0..MaxAttempts - 1
            /\ UNCHANGED <<batch, phase>>
        BY <2>4, <3>3 DEF LocalOK
      <4>3. "spend" \in Steps /\ "spend" # "idle" /\ "spend" \notin WithResponse
        BY DEF Steps, WithResponse
      <4> HIDE DEF j
      <4>4. LocalOK'
        BY <4>1, <4>2, <4>3, LocalFrame
      <4> QED BY <2>3, <3>2, <4>4 DEF TypeOK
    <3>4. CASE ~acked
      BY <2>3, <2>4, <3>2, <3>4, FinishType DEF TypeOK
    <3> QED BY <3>3, <3>4
  <2>5. CASE Goto(c, "select") /\ UNCHANGED row
    <3>1. "select" \in Steps \ {"idle"} /\ "select" \notin WithResponse \cup WithContext
      BY DEF Steps, WithResponse, WithContext, Executing
    <3>2. LocalOK'
      BY <2>1, <2>2, <2>5, <3>1, GotoType
    <3> QED BY <2>1, <2>3, <2>5, <3>2, FrameType DEF TypeOK, db
  <2> QED BY <1>4, <2>4, <2>5 DEF Claim
<1>5. CASE Select(c)
  <2>1. pc[c] = "select" /\ UNCHANGED <<db, asset, bus>> /\ Existing(c, row[job[c].key])
    BY <1>5 DEF Select
  <2>2. row[job[c].key] \in Store!Rows
    BY <2>1, JobRow
  <2>3. LocalOK' /\ answered' \subseteq Answers
    BY <2>1, <2>2, ExistingType
  <2> QED BY <2>1, <2>3, FrameType DEF TypeOK, ServicesOK, asset, bus
<1>6. ASSUME NEW k \in Keys, Poll(c, k) PROVE TypeOK'
  <2>1. /\ row[k] \in Store!Rows /\ RowOK(row[k]) /\ row[k].status \in Store!Committed
        /\ answered' = answered \cup
                        {[key |-> k, hash |-> row[k].hash, resp |-> row[k].resp]}
        /\ UNCHANGED <<db, asset, bus, local>>
    BY <1>6 DEF Poll, StoreOK
  <2>2. row[k].hash \in Hashes /\ row[k].resp \in Responses
    BY <2>1 DEF RowOK, Store!Committed
  <2>3. ServicesOK'
    BY <2>1, <2>2 DEF ServicesOK, Answers, asset, bus
  <2> QED BY <2>1, <2>3, FrameType DEF TypeOK
<1> QED BY <1>1, <1>2, <1>3, <1>4, <1>5, <1>6 DEF ClientStep

\* A step that only moves worker w on to step l.
LEMMA MoveType ==
  ASSUME TypeOK, NEW w \in Workers, pc[w] # "idle", UNCHANGED db,
         UNCHANGED <<asset, bus, answered>> \/ ServicesOK',
         \/ Finish(w) \/ Leave(w)
         \/ \E l \in Steps \ {"idle"} :
              /\ Goto(w, l)
              /\ l \in WithContext => job[w].ctx \in Contexts
              /\ l \in WithResponse => job[w].resp \in Responses
  PROVE  TypeOK'
BY FrameType, FinishType, LeaveType, GotoType DEF TypeOK

\* Where the current step has a context or a response, another that needs the
\* same may follow.
LEMMA Prepared ==
  ASSUME LocalOK, NEW w \in Workers, pc[w] # "idle"
  PROVE  /\ job[w] \in Jobs /\ job[w].key \in Keys
         /\ pc[w] \in WithContext => job[w].ctx \in Contexts
         /\ pc[w] \in WithResponse => job[w].resp \in Responses
         /\ Debit(w) \in Entries
         /\ [op |-> job[w].key, key |-> RefundKey(w)] \in Entries
         /\ job[w].resp \in Responses => Event(w) \in Events
<1>1. job[w] \in Jobs /\ job[w].key \in Keys
  BY DEF LocalOK, JobOK, Jobs
<1> QED
  BY <1>1 DEF LocalOK, JobOK, Debit, SpendKey, RefundKey, Entries, Event, Events

\* A charge never takes the wallet below zero or above its bound.
LEMMA ChargeType ==
  ASSUME ServicesOK, NEW d \in Entries, CanSpend(d), Charge(d),
         UNCHANGED <<credits, bus, answered>>, late' \subseteq Entries
  PROVE  ServicesOK'
<1>1. funds' \in 0..MaxFunds
  BY ServiceAssumption DEF ServicesOK, CanSpend, Charge
<1> QED BY <1>1 DEF ServicesOK, Charge, bus

\* Telling the client, or nobody, about the draw keeps the types.
LEMMA ConcludeType ==
  ASSUME LocalOK, ServicesOK, NEW w \in Workers, pc[w] = "save", Conclude(w),
         UNCHANGED <<asset, bus>>
  PROVE  LocalOK' /\ ServicesOK'
<1>1. job[w] \in Jobs /\ job[w].key \in Keys /\ job[w].hash \in Hashes
      /\ job[w].resp \in Responses
  BY DEF LocalOK, JobOK, WithResponse, Jobs
<1>2. [key |-> job[w].key, hash |-> job[w].hash, resp |-> job[w].resp] \in Answers
  BY <1>1 DEF Answers
<1>3. ServicesOK'
  BY <1>2 DEF ServicesOK, Conclude, Answer, asset, bus
<1>4. LocalOK'
  BY LeaveType, FinishType DEF Conclude, Answer, Leave
<1> QED BY <1>3, <1>4

\* Every step of execute_claimed_pull and of what follows it keeps the types.
LEMMA ExecuteType ==
  ASSUME TypeOK, NEW w \in Workers, Execute(w)
  PROVE  TypeOK'
<1> StoreOK /\ ServicesOK /\ LocalOK
  BY DEF TypeOK
<1> USE DEF Steps, WithContext, WithResponse, Executing
<1>1. CASE SpendOk(w)
  <2>1. ServicesOK'
    BY <1>1, Prepared, ChargeType DEF SpendOk, ServicesOK
  <2>2. pc[w] = "spend" /\ Goto(w, "read") /\ UNCHANGED db
    BY <1>1 DEF SpendOk
  <2>3. job[w].ctx \in Contexts
    BY <2>2, Prepared
  <2>4. LocalOK'
    BY <2>2, <2>3, GotoType
  <2> QED BY <2>1, <2>2, <2>4, FrameType DEF TypeOK
<1>2. CASE SpendRejected(w)
  <2>1. pc[w] = "spend" /\ Goto(w, "fail") /\ UNCHANGED <<db, asset, bus, answered>>
    BY <1>2 DEF SpendRejected
  <2>2. job[w].ctx \in Contexts
    BY <2>1, Prepared
  <2>3. LocalOK'
    BY <2>1, <2>2, GotoType
  <2> QED BY <2>1, <2>3, FrameType DEF TypeOK
<1>3. CASE SpendUnknown(w)
  <2>1. pc[w] = "spend" /\ Debit(w) \in Entries
    BY <1>3, Prepared DEF SpendUnknown
  <2>2. ServicesOK'
    BY <1>3, <2>1, ChargeType DEF SpendUnknown, Unanswered, ServicesOK, bus
  <2> QED BY <1>3, <2>2, MoveType DEF SpendUnknown
<1>4. CASE MarkFailed(w)
  <2> DEFINE k == job[w].key
             new == Store!Transitioned(row[k], "failed", None)
  <2>1. pc[w] = "fail" /\ k \in Keys /\ row[k] \in Store!Rows /\ RowOK(row[k])
    BY <1>4, JobRow DEF MarkFailed
  <2>2. ASSUME Store!OwnedBy(row[k], job[w].hash, w) PROVE StoreOK'
    <3>1. new \in Store!Rows /\ RowOK(new)
      BY <2>1, <2>2, RowType DEF Store!OwnedBy
    <3>2. row' = [row EXCEPT ![k] = new] /\ UNCHANGED pity
      BY <1>4, <2>2 DEF MarkFailed
    <3> HIDE DEF new, k
    <3> QED BY <2>1, <3>1, <3>2, WriteType
  <2>3. ASSUME ~Store!OwnedBy(row[k], job[w].hash, w) PROVE StoreOK'
    BY <1>4, <2>3, FrameType DEF MarkFailed, db
  <2> QED BY <1>4, <2>2, <2>3, FinishType, FrameType DEF MarkFailed, TypeOK
<1>5. CASE ReadPity(w)
  <2> DEFINE p == Draw(w)
             j == [job[w] EXCEPT !.resp = p]
  <2>1. pc[w] = "read" /\ job[w] \in Jobs /\ job[w].ctx \in Contexts
    BY <1>5, Prepared DEF ReadPity
  <2>2. p \in Responses
    BY <2>1, ContextType DEF Draw, Responses, StoreOK
  <2>3. j \in Jobs /\ j.ctx \in Contexts /\ j.resp \in Responses
    BY <2>1, <2>2 DEF Jobs
  <2>4. /\ pc' = [pc EXCEPT ![w] = "commit"] /\ job' = [job EXCEPT ![w] = j]
        /\ tries' = [tries EXCEPT ![w] = tries[w]] /\ tries[w] \in 0..MaxAttempts - 1
        /\ UNCHANGED <<batch, phase>>
    BY <1>5 DEF ReadPity, LocalOK
  <2> HIDE DEF j, p
  <2>5. LocalOK'
    BY <2>3, <2>4, LocalFrame
  <2> QED BY <1>5, <2>5, FrameType DEF ReadPity, TypeOK
<1>6. ASSUME NEW acked \in Acks, Commit(w, acked) PROVE TypeOK'
  <2> DEFINE k == job[w].key
             p == job[w].resp
             owner == Store!OwnedBy(row[k], job[w].hash, w)
  <2>1. /\ pc[w] = "commit" /\ UNCHANGED <<asset, bus, answered>> /\ job[w] \in Jobs
        /\ k \in Keys /\ row[k] \in Store!Rows /\ RowOK(row[k]) /\ p \in Responses
    BY <1>6, JobRow, Prepared DEF Commit
  <2>2. CASE Finish(w) /\ UNCHANGED db
    BY <2>1, <2>2, MoveType
  <2>3. CASE Conflict(w) /\ UNCHANGED db
    <3>1. CASE /\ tries[w] + 1 < MaxAttempts
               /\ pc' = [pc EXCEPT ![w] = "read"]
               /\ tries' = [tries EXCEPT ![w] = @ + 1]
               /\ job' = [job EXCEPT ![w].resp = None]
               /\ UNCHANGED <<batch, phase>>
      <4> DEFINE j == [job[w] EXCEPT !.resp = None]
                 t == tries[w] + 1
      <4>1. j \in Jobs /\ j.ctx \in Contexts
        BY <2>1, Prepared DEF Jobs
      <4>2. t \in 0..MaxAttempts - 1
        BY <3>1, ServiceAssumption DEF LocalOK
      <4>3. tries' = [tries EXCEPT ![w] = t] /\ job' = [job EXCEPT ![w] = j]
        BY <3>1
      <4>4. "read" \in Steps /\ "read" # "idle" /\ "read" \notin WithResponse
        OBVIOUS
      <4>5. pc' = [pc EXCEPT ![w] = "read"] /\ UNCHANGED <<batch, phase>>
        BY <3>1
      <4> HIDE DEF j, t, Steps, WithContext, WithResponse
      <4>6. LocalOK'
        BY <4>1, <4>2, <4>3, <4>4, <4>5, LocalFrame
      <4> QED BY <2>1, <2>3, <4>6, FrameType DEF TypeOK
    <3>2. CASE Finish(w)
      BY <2>1, <2>3, <3>2, MoveType
    <3> QED BY <2>3, <3>1, <3>2 DEF Conflict
  <2>4. CASE /\ owner
             /\ pity' = [pity EXCEPT ![GroupFor(p.ctx)] =
                           [version |-> @.version + 1, by |-> k]]
             /\ row' = [row EXCEPT ![k] = Store!Updated(@, "event_pending", p)]
             /\ Goto(w, IF acked THEN "publish" ELSE "reconcile")
    <3> DEFINE new == Store!Updated(row[k], "event_pending", p)
    <3>1. new \in Store!Rows /\ RowOK(new)
      BY <2>1, <2>4, RowType DEF Store!OwnedBy, Store!Committed
    <3>2. row' = [row EXCEPT ![k] = new]
      BY <2>4
    <3>3. row' \in [Keys -> Store!Rows] /\ \A l \in Keys : RowOK(row'[l])
      <4> HIDE DEF new, k
      <4>1. ASSUME NEW l \in Keys PROVE row'[l] \in Store!Rows /\ RowOK(row'[l])
        <5>1. CASE l = k
          BY <3>1, <3>2, <5>1 DEF StoreOK
        <5>2. CASE l # k
          BY <3>2, <5>2 DEF StoreOK
        <5> QED BY <5>1, <5>2
      <4> QED BY <3>1, <3>2, <4>1 DEF StoreOK
    <3>4. pity' \in [Groups -> PityStates]
      BY <2>1, <2>4, ContextType DEF StoreOK, PityStates, Responses
    <3>5. LocalOK'
      BY <2>1, <2>4, GotoType
    <3> QED BY <2>1, <3>3, <3>4, <3>5, FrameType DEF StoreOK, TypeOK
  <2> QED BY <1>6, <2>2, <2>3, <2>4 DEF Commit
<1>7. CASE Reconcile(w)
  <2>1. /\ pc[w] = "reconcile" /\ UNCHANGED <<db, asset, bus>>
        /\ Existing(w, row[job[w].key])
    BY <1>7 DEF Reconcile
  <2>2. row[job[w].key] \in Store!Rows
    BY <2>1, JobRow
  <2>3. LocalOK' /\ answered' \subseteq Answers
    BY <2>1, <2>2, ExistingType
  <2> QED BY <2>1, <2>3, FrameType DEF TypeOK, ServicesOK, asset, bus
<1>8. CASE Publish(w)
  <2>1. pc[w] \in {"publish", "republish"} /\ Event(w) \in Events
    BY <1>8, Prepared DEF Publish
  <2>2. ServicesOK'
    BY <1>8, <2>1 DEF Publish, ServicesOK, asset
  <2> QED BY <1>8, <2>1, <2>2, MoveType, Prepared DEF Publish
<1>9. CASE PublishFails(w)
  <2>1. pc[w] \in {"publish", "republish"} /\ Event(w) \in Events
    BY <1>9, Prepared DEF PublishFails
  <2>2. ServicesOK'
    BY <1>9, <2>1 DEF PublishFails, ServicesOK, asset
  <2> QED BY <1>9, <2>1, <2>2, MoveType DEF PublishFails
<1>10. CASE Save(w)
  <2> DEFINE k == job[w].key
             new == Store!Updated(row[k], "event_published", Serialised(job[w].resp))
  <2>1. /\ pc[w] = "save" /\ k \in Keys /\ row[k] \in Store!Rows /\ RowOK(row[k])
        /\ job[w].resp \in Responses
    BY <1>10, JobRow, Prepared DEF Save
  <2>2. Serialised(job[w].resp) \in Responses
    BY <2>1 DEF Serialised, Responses
  <2>3. row[k].status # "absent" => new \in Store!Rows /\ RowOK(new)
    BY <2>1, <2>2, RowType DEF Store!Committed
  <2>4. Written(k, new) /\ UNCHANGED <<pity, asset, bus>> /\ Conclude(w)
    BY <1>10 DEF Save
  <2>5. StoreOK'
    <3> HIDE DEF new, k
    <3> QED BY <2>1, <2>3, <2>4, WrittenType
  <2>6. LocalOK' /\ ServicesOK'
    BY <2>1, <2>4, ConcludeType
  <2> QED BY <2>5, <2>6 DEF TypeOK
<1>11. CASE Refund(w)
  <2>1. ServicesOK'
    BY <1>11, Prepared DEF Refund, ServicesOK, bus
  <2> QED BY <1>11, <2>1, MoveType DEF Refund
<1>12. CASE RefundFails(w)
  <2>1. ServicesOK'
    BY <1>12, Prepared DEF RefundFails, ServicesOK, bus
  <2> QED BY <1>12, <2>1, MoveType DEF RefundFails
<1>13. CASE Close(w)
  <2> DEFINE k == job[w].key
             new == Store!Updated(row[k], "failed", None)
  <2>1. pc[w] = "close" /\ k \in Keys /\ row[k] \in Store!Rows /\ RowOK(row[k])
    BY <1>13, JobRow DEF Close
  <2>2. row[k].status # "absent" => new \in Store!Rows /\ RowOK(new)
    BY <2>1, RowType
  <2>3. Written(k, new) /\ UNCHANGED <<pity, asset, bus, answered>> /\ Leave(w)
    BY <1>13 DEF Close
  <2>4. StoreOK'
    <3> HIDE DEF new, k
    <3> QED BY <2>1, <2>2, <2>3, WrittenType
  <2> QED BY <2>1, <2>3, <2>4, LeaveType, FrameType DEF TypeOK
<1>14. CASE StoreError(w)
  <2>1. pc[w] # "idle" /\ UNCHANGED <<db, asset, bus>>
    BY <1>14 DEF StoreError
  <2>2. CASE (Finish(w) \/ Goto(w, "reconcile") \/ Leave(w)) /\ UNCHANGED answered
    BY <2>1, <2>2, MoveType
  <2>3. CASE pc[w] = "save" /\ Conclude(w)
    BY <2>1, <2>3, ConcludeType, FrameType DEF TypeOK
  <2> QED BY <1>14, <2>2, <2>3 DEF StoreError
<1>15. CASE Crash(w)
  <2>1. 0 \in 0..MaxAttempts - 1 /\ "refund" \in Phases
    BY ServiceAssumption DEF Phases
  <2>2. LocalOK'
    <3>1. ASSUME NEW u \in Workers PROVE JobOK(u)' /\ \A x \in batch'[u] : RecordOK(x)
      BY <1>15 DEF Crash, LocalOK, JobOK
    <3> QED BY <1>15, <2>1, <3>1 DEF Crash, LocalOK
  <2> QED BY <1>15, <2>2, FrameType DEF Crash, TypeOK
<1>16. CASE DrawFails(w)
  <2>1. pc[w] # "idle" /\ Finish(w) /\ UNCHANGED <<db, asset, bus, answered>>
    BY <1>16 DEF DrawFails
  <2> QED BY <2>1, MoveType
<1> QED
  BY <1>1, <1>2, <1>3, <1>4, <1>5, <1>6, <1>7, <1>8, <1>9, <1>10, <1>11, <1>12,
     <1>13, <1>14, <1>15, <1>16 DEF Execute

\* A scanned record is one its loop can work on.
LEMMA ScanType ==
  ASSUME TypeOK, NEW v \in Workers, NEW k \in Keys, NEW p \in Phases, Due(p, row[k])
  PROVE  Record(k) \in Records /\ RecordOK(Record(k))
<1>1. row[k] \in Store!Rows /\ RowOK(row[k])
  BY DEF TypeOK, StoreOK
<1>2. row[k].status \in {"processing", "event_pending", "event_published", "refund_pending"}
  BY DEF Due, Store!Expired, Store!DeliveryPending, Store!RefundPending
<1>3. [key |-> k, hash |-> row[k].hash, ctx |-> row[k].ctx, resp |-> row[k].resp] \in Jobs
  BY <1>1, <1>2 DEF Store!Rows, RowOK, Jobs
<1> QED BY <1>1, <1>2, <1>3 DEF Record, Records, RecordOK, RowOK, Store!Committed

\* Taking up or skipping a scanned record: what must be shown of the locals.
LEMMA VisitType ==
  ASSUME LocalOK, NEW v \in Workers, pc[v] = "idle", NEW x \in batch[v],
         batch' = [batch EXCEPT ![v] = @ \ {x}], UNCHANGED <<tries, phase>>,
         \/ UNCHANGED <<pc, job>>
         \/ \E l \in Steps \ {"idle"}, j \in Jobs :
              /\ pc' = [pc EXCEPT ![v] = l] /\ job' = [job EXCEPT ![v] = j]
              /\ l \in WithContext => j.ctx \in Contexts
              /\ l \in WithResponse => j.resp \in Responses
  PROVE  LocalOK'
<1>1. /\ batch' \in [Workers -> SUBSET Records]
      /\ \A w \in Workers : \A y \in batch'[w] : RecordOK(y)
  BY DEF LocalOK
<1>2. CASE UNCHANGED <<pc, job>>
  BY <1>1, <1>2 DEF LocalOK, JobOK
<1>3. ASSUME NEW l \in Steps \ {"idle"}, NEW j \in Jobs,
             pc' = [pc EXCEPT ![v] = l], job' = [job EXCEPT ![v] = j],
             l \in WithContext => j.ctx \in Contexts,
             l \in WithResponse => j.resp \in Responses
      PROVE  LocalOK'
  <2>1. pc' \in [Workers -> Steps] /\ job' \in [Workers -> Jobs \cup {NoJob}]
    BY <1>3 DEF LocalOK
  <2>2. ASSUME NEW u \in Workers PROVE JobOK(u)'
    <3>1. CASE u = v
      BY <1>3, <3>1 DEF LocalOK, JobOK
    <3>2. CASE u # v
      <4>1. pc'[u] = pc[u] /\ job'[u] = job[u]
        BY <1>3, <3>2 DEF LocalOK
      <4> QED BY <4>1 DEF LocalOK, JobOK
    <3> QED BY <3>1, <3>2
  <2> QED BY <1>1, <2>1, <2>2 DEF LocalOK
<1> QED BY <1>2, <1>3

\* Every step of the recovery loops keeps the types.
LEMMA RecoveryStepType ==
  ASSUME TypeOK, NEW v \in Recoverers, RecoveryStep(v)
  PROVE  TypeOK'
<1> v \in Workers
  BY DEF Workers
<1> StoreOK /\ ServicesOK /\ LocalOK
  BY DEF TypeOK
<1>1. CASE Scan(v)
  <2> DEFINE p == NextPhase(phase[v])
             found == {Record(k) : k \in {l \in Keys : Due(p, row[l])}}
  <2>1. p \in Phases
    BY DEF NextPhase, Phases
  <2>2. \A x \in found : x \in Records /\ RecordOK(x)
    BY <2>1, ScanType
  <2>3. /\ phase' = [phase EXCEPT ![v] = p] /\ batch' = [batch EXCEPT ![v] = found]
        /\ UNCHANGED <<pc, job, tries>>
    BY <1>1 DEF Scan
  <2> HIDE DEF p, found
  <2>4. /\ batch' \in [Workers -> SUBSET Records] /\ phase' \in [Workers -> Phases]
        /\ \A w \in Workers : \A x \in batch'[w] : RecordOK(x)
    BY <2>1, <2>2, <2>3 DEF LocalOK
  <2>5. LocalOK'
    BY <2>3, <2>4 DEF LocalOK, JobOK
  <2> QED BY <1>1, <2>5, FrameType DEF Scan, TypeOK
<1>2. CASE ScanError(v)
  <2>1. NextPhase(phase[v]) \in Phases
    BY DEF NextPhase, Phases
  <2>2. phase' \in [Workers -> Phases]
    BY <1>2, <2>1 DEF ScanError, LocalOK
  <2>3. /\ batch' \in [Workers -> SUBSET Records]
        /\ \A w \in Workers : \A x \in batch'[w] : RecordOK(x)
    BY <1>2 DEF ScanError, LocalOK
  <2>4. UNCHANGED <<db, asset, bus, answered, pc, job, tries>>
    BY <1>2 DEF ScanError
  <2>5. LocalOK'
    BY <2>2, <2>3, <2>4 DEF LocalOK, JobOK
  <2> QED BY <2>4, <2>5, FrameType DEF TypeOK
<1>3. ASSUME NEW x \in batch[v], NEW acked \in Acks, Reclaim(v, x, acked) PROVE TypeOK'
  <2> DEFINE k == x.job.key
             new == Store!Reclaimed(row[k], v)
  <2>1. /\ k \in Keys /\ row[k] \in Store!Rows /\ RowOK(row[k])
        /\ pc[v] = "idle" /\ UNCHANGED <<pity, asset, bus, answered, tries, phase>>
        /\ batch' = [batch EXCEPT ![v] = @ \ {x}]
    BY <1>3 DEF LocalOK, Records, Jobs, StoreOK, Reclaim
  <2>2. CASE Store!Expired(row[k]) /\ row' = [row EXCEPT ![k] = new]
    <3>1. new \in Store!Rows /\ RowOK(new)
      BY <2>1, <2>2, RowType DEF Store!Expired
    <3>2. StoreOK'
      <4> HIDE DEF new, k
      <4> QED BY <2>1, <2>2, <3>1, WriteType
    <3>3. Record(k).job \in Jobs /\ Record(k).job.ctx \in Contexts
      BY <2>1, <2>2 DEF Record, Jobs, Store!Expired, Store!Rows, RowOK
    <3>4. \/ UNCHANGED <<pc, job>>
          \/ pc' = [pc EXCEPT ![v] = "spend"] /\ job' = [job EXCEPT ![v] = Record(k).job]
      BY <1>3, <2>2 DEF Reclaim
    <3>5. "spend" \in Steps \ {"idle"} /\ "spend" \notin WithResponse
      BY DEF Steps, WithResponse
    <3>6. LocalOK'
      <4> HIDE DEF k
      <4> QED BY <2>1, <3>3, <3>4, <3>5, VisitType
    <3> QED BY <2>1, <3>2, <3>6, FrameType DEF TypeOK
  <2>3. CASE UNCHANGED <<row, pc, job>>
    <3>1. LocalOK'
      BY <2>1, <2>3, VisitType
    <3> QED BY <2>1, <2>3, <3>1, FrameType DEF TypeOK, db
  <2> QED BY <1>3, <2>2, <2>3 DEF Reclaim
<1>4. ASSUME NEW x \in batch[v], NEW acked \in Acks, LockRow(v, x, acked) PROVE TypeOK'
  <2> DEFINE k == x.job.key
             new == Store!Locked(row[k])
             l == FirstStep(x.status)
  <2>1. /\ k \in Keys /\ row[k] \in Store!Rows /\ RowOK(row[k])
        /\ x.job \in Jobs /\ RecordOK(x)
        /\ pc[v] = "idle" /\ UNCHANGED <<pity, asset, bus, answered, tries, phase>>
        /\ batch' = [batch EXCEPT ![v] = @ \ {x}]
    BY <1>4 DEF LocalOK, Records, Jobs, StoreOK, LockRow
  <2>2. CASE row' = [row EXCEPT ![k] = new]
    <3>1. new \in Store!Rows /\ RowOK(new)
      BY <2>1, <2>2, RowType
    <3>2. StoreOK'
      <4> HIDE DEF new, k
      <4> QED BY <2>1, <2>2, <3>1, WriteType
    <3>3. \/ UNCHANGED <<pc, job>>
          \/ pc' = [pc EXCEPT ![v] = l] /\ job' = [job EXCEPT ![v] = x.job]
      BY <1>4, <2>2 DEF LockRow
    <3>4. /\ l \in Steps \ {"idle"} /\ l \notin WithContext
          /\ l \in WithResponse => x.job.resp \in Responses
      BY <2>1 DEF FirstStep, Steps, WithContext, WithResponse, Executing, RecordOK
    <3>5. LocalOK'
      <4> HIDE DEF k, l
      <4> QED BY <2>1, <3>3, <3>4, VisitType
    <3> QED BY <2>1, <3>2, <3>5, FrameType DEF TypeOK
  <2>3. CASE UNCHANGED <<row, pc, job>>
    <3>1. LocalOK'
      BY <2>1, <2>3, VisitType
    <3> QED BY <2>1, <2>3, <3>1, FrameType DEF TypeOK, db
  <2> QED BY <1>4, <2>2, <2>3 DEF LockRow
<1>5. CASE Receipt(v)
  <2>1. pc[v] = "receipt" /\ job[v].resp \in Responses
    BY <1>5, Prepared DEF Receipt, WithResponse
  <2>2. {"confirm", "republish"} \subseteq Steps \ ({"idle"} \cup WithContext)
    BY DEF Steps, WithContext, Executing
  <2> QED BY <1>5, <2>1, <2>2, MoveType DEF Receipt
<1>6. CASE ReceiptFails(v)
  <2>1. "release" \in Steps \ {"idle"} /\ "release" \notin WithContext \cup WithResponse
    BY DEF Steps, WithContext, WithResponse, Executing
  <2> QED BY <1>6, <2>1, MoveType DEF ReceiptFails
<1>7. CASE Confirm(v)
  <2> DEFINE k == job[v].key
             new == Store!Updated(row[k], "succeeded", Serialised(job[v].resp))
  <2>1. /\ pc[v] = "confirm" /\ k \in Keys /\ row[k] \in Store!Rows /\ RowOK(row[k])
        /\ job[v].resp \in Responses
    BY <1>7, JobRow, Prepared DEF Confirm, WithResponse
  <2>2. Serialised(job[v].resp) \in Responses
    BY <2>1 DEF Serialised, Responses
  <2>3. row[k].status # "absent" => new \in Store!Rows /\ RowOK(new)
    BY <2>1, <2>2, RowType DEF Store!Committed
  <2>4. Written(k, new) /\ UNCHANGED <<pity, asset, bus, answered>> /\ Goto(v, "release")
    BY <1>7 DEF Confirm
  <2>5. StoreOK'
    <3> HIDE DEF new, k
    <3> QED BY <2>1, <2>3, <2>4, WrittenType
  <2>6. "release" \in Steps \ {"idle"} /\ "release" \notin WithContext \cup WithResponse
    BY DEF Steps, WithContext, WithResponse, Executing
  <2>7. LocalOK'
    BY <2>1, <2>4, <2>6, GotoType
  <2> QED BY <2>4, <2>5, <2>7, FrameType DEF TypeOK
<1>8. CASE Release(v)
  <2> DEFINE k == job[v].key
             new == Store!Released(row[k])
  <2>1. /\ pc[v] = "release" /\ k \in Keys /\ row[k] \in Store!Rows /\ RowOK(row[k])
    BY <1>8, JobRow DEF Release
  <2>2. new \in Store!Rows /\ RowOK(new)
    BY <2>1, RowType
  <2>3. row' = [row EXCEPT ![k] = new] /\ UNCHANGED <<pity, asset, bus, answered>> /\ Finish(v)
    BY <1>8 DEF Release
  <2>4. StoreOK'
    <3> HIDE DEF new, k
    <3> QED BY <2>1, <2>2, <2>3, WriteType
  <2> QED BY <2>3, <2>4, FinishType, FrameType DEF TypeOK
<1> QED BY <1>1, <1>2, <1>3, <1>4, <1>5, <1>6, <1>7, <1>8 DEF RecoveryStep

\* Expiring leases, late requests, top-ups and Backpack keep the types.
LEMMA EnvironmentType ==
  ASSUME TypeOK, Environment
  PROVE  TypeOK'
<1> StoreOK /\ ServicesOK /\ LocalOK
  BY DEF TypeOK
<1>1. ASSUME NEW k \in Keys, ExpireLease(k) \/ ExpireLock(k) PROVE TypeOK'
  <2> DEFINE unleased == [row[k] EXCEPT !.leased = FALSE]
             unlocked == [row[k] EXCEPT !.locked = FALSE]
  <2>1. /\ unleased \in Store!Rows /\ RowOK(unleased)
        /\ unlocked \in Store!Rows /\ RowOK(unlocked)
    BY RowType DEF StoreOK
  <2>2. row' = [row EXCEPT ![k] = unleased] \/ row' = [row EXCEPT ![k] = unlocked]
    BY <1>1 DEF ExpireLease, ExpireLock
  <2>3. UNCHANGED <<pity, asset, bus, answered, local>>
    BY <1>1 DEF ExpireLease, ExpireLock
  <2> HIDE DEF unleased, unlocked
  <2>4. StoreOK'
    BY <2>1, <2>2, <2>3, WriteType
  <2> QED BY <2>3, <2>4, FrameType DEF TypeOK
<1>2. ASSUME NEW d \in late, LateSpend(d) PROVE TypeOK'
  <2>1. d \in Entries /\ late' \subseteq Entries
    BY <1>2 DEF LateSpend, ServicesOK
  <2>2. ServicesOK'
    <3>1. CASE CanSpend(d)
      BY <1>2, <2>1, <3>1, ChargeType DEF LateSpend
    <3>2. CASE ~CanSpend(d)
      BY <1>2, <2>1, <3>2 DEF LateSpend, ServicesOK, bus
    <3> QED BY <3>1, <3>2
  <2> QED BY <1>2, <2>2, FrameType DEF LateSpend, TypeOK
<1>3. ASSUME NEW e \in topic, Apply(e) PROVE TypeOK'
  <2>1. ServicesOK'
    BY <1>3 DEF Apply, ServicesOK, asset
  <2> QED BY <1>3, <2>1, FrameType DEF Apply, TypeOK
<1>4. CASE TopUp
  <2>1. ServicesOK'
    BY <1>4, ServiceAssumption DEF TopUp, ServicesOK, bus
  <2> QED BY <1>4, <2>1, FrameType DEF TopUp, TypeOK
<1> QED BY <1>1, <1>2, <1>3, <1>4 DEF Environment

\* A table the service may be started on is well typed, and so is what follows
\* from it about the services.
LEMMA InitType == Init => TypeOK
<1> SUFFICES ASSUME Init PROVE TypeOK
  OBVIOUS
<1> USE ServiceAssumption
<1>1. row \in [Keys -> Store!Rows] /\ \A k \in Keys : RowOK(row[k])
  BY DEF Init
<1>2. pity \in [Groups -> PityStates]
  <2>1. ASSUME NEW g \in Groups PROVE pity[g] \in PityStates
    <3>1. StartDrawn(g) \subseteq Keys
      BY DEF StartDrawn
    <3>2. CASE StartDrawn(g) = {}
      BY <3>2 DEF Init, NoPity, PityStates
    <3>3. CASE StartDrawn(g) # {}
      <4>1. (CHOOSE k \in StartDrawn(g) : TRUE) \in Keys
        BY <3>1, <3>3
      <4> QED BY <3>3, <4>1 DEF Init, PityStates
    <3> QED BY <3>2, <3>3
  <2> QED BY <2>1 DEF Init
<1>3. ServicesOK
  BY DEF Init, ServicesOK, Entries
<1>4. LocalOK
  BY DEF Init, LocalOK, JobOK, Steps, Phases
<1> QED BY <1>1, <1>2, <1>3, <1>4 DEF TypeOK, StoreOK

\* Every step keeps the types.
LEMMA TypeStep ==
  ASSUME TypeOK, [Next]_vars
  PROVE  TypeOK'
<1>1. ASSUME NEW c \in Clients, ClientStep(c) PROVE TypeOK'
  BY <1>1, ClientStepType
<1>2. ASSUME NEW w \in Workers, Execute(w) PROVE TypeOK'
  BY <1>2, ExecuteType
<1>3. ASSUME NEW v \in Recoverers, RecoveryStep(v) PROVE TypeOK'
  BY <1>3, RecoveryStepType
<1>4. CASE Environment
  BY <1>4, EnvironmentType
<1>5. CASE UNCHANGED vars
  BY <1>5, FrameType DEF vars, db, asset, bus, local, TypeOK
<1> QED BY <1>1, <1>2, <1>3, <1>4, <1>5 DEF Next

\* Type correctness.  Whatever handlers, recovery workers and faults do, the
\* tables and services keep their shape and no handler runs a step with a local
\* variable it has not set.
THEOREM TypeCorrect == Spec => []TypeOK
<1> QED BY InitType, TypeStep, PTL DEF Spec
=============================================================================
