-------------------------- MODULE SummaryJobProofs ---------------------------
(***************************************************************************)
(* Proofs about SummaryJob, for any models, prices, requests and answers:  *)
(* its types, the cost cap over a whole job, the life of a job's row       *)
(* across crashes and restarts, and that an end is final.                  *)
(***************************************************************************)
EXTENDS SummaryJob, TLAPS

Working == {"choosing", "calling", "finished"}

\* What a run spent, all its answers together.
Near(r) == r.spent <= Cap(r.req) + r.excess

\* A call under way was affordable on top of what was spent before it.
SpendsNearCap(r) == Near(r) /\ (r.pc = "calling" => Affords(r, r.current))

SpendInv == TypeOK /\ \A j \in Job : SpendsNearCap(run[j])

\* The row says where its run is; only a write that failed, or a crash until the
\* next startup, leaves a row behind its run.
RowFollowsRun(j) ==
  /\ ~up => run[j].pc \in {"none", "gone"}
  /\ run[j].pc = "none" => job[j].status = "absent"
  /\ run[j].pc = "recorded" => job[j].status = "pending"
  /\ run[j].pc \in Working => job[j].status = "running"
  /\ up /\ run[j].pc = "gone" /\ job[j].status = "running" => j \in lostWrites

LifeInv == TypeOK /\ \A j \in Job : RowFollowsRun(j)

-----------------------------------------------------------------------------
(* Numbers *)

\* Integer prices of natural token counts are natural.
LEMMA CostIsNatural ==
  ASSUME NEW m \in 1..Len(Ladder), NEW input \in Nat, NEW output \in Nat
  PROVE  CostMicros(Ladder[m], input, output) \in Nat
<1>1. Ladder[m].input \in Nat /\ Ladder[m].output \in Nat
  BY SummaryJobConstants
<1>2. input * Ladder[m].input \in Nat /\ output * Ladder[m].output \in Nat
  BY <1>1
<1>3. (input * Ladder[m].input) \div 1000 \in Nat /\ (output * Ladder[m].output) \div 1000 \in Nat
  BY <1>2
<1>4. QED
  BY <1>3 DEF CostMicros

LEMMA EstimateIsNatural ==
  ASSUME NEW m \in 1..Len(Ladder), NEW req \in Request
  PROVE  Estimate(m, req) \in Nat
<1> DEFINE desired == OutputBudget(req.length)
           context == Ladder[m].context
           window == Larger(context - desired - 512, 1)
<1>1. desired \in Nat /\ req.tokens \in Nat /\ context \in Nat
  BY SummaryJobConstants DEF OutputBudget, Length
<1>2. window \in Nat /\ window >= 1
  BY <1>1 DEF Larger
<1>3. OutputPerChunk(req.tokens, context, desired) \in Nat
  <2> DEFINE chunks == (req.tokens + window - 1) \div window
  <2>1. CASE req.tokens <= window
    BY <1>1, <2>1 DEF OutputPerChunk
  <2>2. CASE ~(req.tokens <= window)
    <3> HIDE DEF window, desired
    <3>1. chunks \in Nat /\ chunks >= 1
      <4>1. req.tokens + window - 1 \in Nat /\ req.tokens + window - 1 >= window
        BY <1>1, <1>2, <2>2
      <4>2. QED
        BY <1>2, <4>1
    <3> HIDE DEF chunks
    <3>2. desired \div chunks \in Nat
      BY <1>1, <3>1
    <3>3. Larger(desired \div chunks, 256) \in Nat
      BY <3>2 DEF Larger
    <3>4. QED
      BY <2>2, <3>3 DEF OutputPerChunk, window, chunks
  <2>3. QED
    BY <2>1, <2>2
<1>4. QED
  BY <1>1, <1>3, CostIsNatural DEF Estimate

LEMMA ActualIsNatural ==
  ASSUME NEW m \in 1..Len(Ladder), NEW req \in Request, NEW output \in AnswerTokens
  PROVE  Actual(m, req, output) \in Nat
<1>1. req.tokens \in Nat /\ Larger(output, 1) \in Nat
  BY SummaryJobConstants DEF Larger
<1>2. QED
  BY <1>1, CostIsNatural DEF Actual

LEMMA CapIsNatural ==
  ASSUME NEW req \in Request
  PROVE  Cap(req) \in Nat
BY SummaryJobConstants DEF Cap, Larger

LEMMA StartsOnLadder ==
  ASSUME NEW length \in Length
  PROVE  StartIndex(length) \in 1..Len(Ladder)
BY SummaryJobConstants DEF StartIndex, Length

-----------------------------------------------------------------------------
(* Types *)

\* The locals after a visit of the loop, and after an answer was paid for.
LEMMA VisitTyped ==
  ASSUME NEW r \in Run, r.budget >= 1
  PROVE  /\ Visit(r) \in Run
         /\ Visit(r).spent = r.spent /\ Visit(r).req = r.req /\ Visit(r).excess = r.excess
         /\ Visit(r).current = r.current
<1>1. r.budget - 1 \in 0..(2 * Len(Ladder) + 1)
  BY SummaryJobConstants DEF Run
<1>2. QED
  BY <1>1 DEF Visit, Run

LEMMA PaidTyped ==
  ASSUME NEW r \in Run, NEW output \in AnswerTokens
  PROVE  /\ Paid(r, output) \in Run
         /\ Paid(r, output).spent = r.spent + Actual(r.current, r.req, output)
         /\ Paid(r, output).excess
              = Actual(r.current, r.req, output) - Estimate(r.current, r.req)
         /\ Paid(r, output).req = r.req /\ Paid(r, output).current = r.current
<1> DEFINE cost == Actual(r.current, r.req, output)
           planned == Estimate(r.current, r.req)
<1>1. r.spent \in Nat /\ r.current \in 1..Len(Ladder) /\ r.req \in Request
  BY DEF Run
<1>2. cost \in Nat /\ planned \in Nat
  BY <1>1, ActualIsNatural, EstimateIsNatural
<1>3. Paid(r, output) = [r EXCEPT !.spent = r.spent + cost, !.excess = cost - planned]
  BY DEF Paid
<1> HIDE DEF cost, planned
<1>4. r.spent + cost \in Nat /\ cost - planned \in Int
  BY <1>1, <1>2
<1>5. /\ Paid(r, output) \in Run
      /\ Paid(r, output).spent = r.spent + cost /\ Paid(r, output).excess = cost - planned
      /\ Paid(r, output).req = r.req /\ Paid(r, output).current = r.current
  BY <1>3, <1>4 DEF Run
<1>6. QED
  BY <1>5 DEF cost, planned

LEMMA NoRunTyped == NoRun \in Run
BY SummaryJobConstants DEF NoRun, Run, Label, Error, FailureClass, AnyRequest

LEMMA NoJobTyped == NoJob \in Row
BY DEF NoJob, Row, Status, Error

LEMMA TypeInit == Init => TypeOK
BY NoRunTyped, NoJobTyped DEF Init, TypeOK

LEMMA ReasonTyped ==
  ASSUME NEW error \in Error
  PROVE  Reason(error) \in Error
<1>1. CASE error \in {"NoSubstantialMessages", "Quality", "CostCapTooLow"}
  BY <1>1 DEF Reason, Error, FailureClass
<1>2. CASE error \notin {"NoSubstantialMessages", "Quality", "CostCapTooLow"}
  <2>1. Reason(error) = error
    BY <1>2 DEF Reason
  <2>2. QED
    BY <2>1
<1>3. QED
  BY <1>1, <1>2

\* What a step of the loop does to the locals: the run goes on from r, or ends.
LEMMA GoesOn ==
  ASSUME NEW r \in Run, NEW label \in Label, NEW error \in Error
  PROVE  /\ [r EXCEPT !.pc = label] \in Run
         /\ [r EXCEPT !.pc = label, !.error = error] \in Run
         /\ r.current > 1 => [r EXCEPT !.current = @ - 1, !.degraded = TRUE] \in Run
         /\ r.current < Len(Ladder) => [r EXCEPT !.pc = label, !.current = @ + 1] \in Run
<1>1. [r EXCEPT !.pc = label] \in Run /\ [r EXCEPT !.pc = label, !.error = error] \in Run
  BY DEF Run
<1>2. r.current \in 1..Len(Ladder) /\ Len(Ladder) \in Nat
  BY SummaryJobConstants DEF Run
<1>3. ASSUME r.current > 1
      PROVE  [r EXCEPT !.current = @ - 1, !.degraded = TRUE] \in Run
  <2>1. r.current - 1 \in 1..Len(Ladder)
    BY <1>2, <1>3
  <2>2. [r EXCEPT !.current = r.current - 1, !.degraded = TRUE] \in Run
    BY <2>1 DEF Run
  <2>3. QED
    BY <2>2
<1>4. ASSUME r.current < Len(Ladder)
      PROVE  [r EXCEPT !.pc = label, !.current = @ + 1] \in Run
  <2>1. r.current + 1 \in 1..Len(Ladder)
    BY <1>2, <1>4
  <2>2. [r EXCEPT !.pc = label, !.current = r.current + 1] \in Run
    BY <2>1 DEF Run
  <2>3. QED
    BY <2>2
<1>5. QED
  BY <1>1, <1>3, <1>4

-----------------------------------------------------------------------------
(* The loop *)

LoopStep(j) == OutOfBudget(j) \/ Downgrade(j) \/ CapTooLow(j) \/ Call(j) \/ Answer(j)

\* From q to r one answer was paid for.
Pays(q, r, output) ==
  LET cost == Actual(q.current, q.req, output) IN
  r.spent = q.spent + cost /\ r.excess = cost - Estimate(q.current, q.req)

\* What every step of the loop comes to: new locals for one run at work, that
\* has paid for at most the answer it was waiting for, and that waits for
\* another only if it can be afforded.
Advances(j, r) ==
  /\ up /\ run[j].pc \in {"choosing", "calling"}
  /\ run' = [run EXCEPT ![j] = r] /\ Quiet /\ UNCHANGED job
  /\ r \in Run /\ r.pc \in Working /\ r.req = run[j].req
  /\ r.pc = "calling" => Affords(r, r.current)
  /\ \/ r.spent = run[j].spent /\ r.excess = run[j].excess
     \/ /\ run[j].pc = "calling"
        /\ \E output \in AnswerTokens : Pays(run[j], r, output)

LEMMA LoopAdvances ==
  ASSUME TypeOK, NEW j \in Job, LoopStep(j)
  PROVE  \E r : Advances(j, r)
<1> DEFINE now == run[j]
           visited == Visit(now)
<1>1. now \in Run
  BY DEF TypeOK
<1>2. /\ "finished" \in Label /\ "choosing" \in Label /\ "calling" \in Label
      /\ {"ServiceUnavailable", "CostCapTooLow", "Quality", "none"} \subseteq Error
      /\ FailureClass \subseteq Error
  BY DEF Label, Error, FailureClass
<1>3. now.budget >= 1 =>
        /\ visited \in Run /\ visited.spent = now.spent /\ visited.req = now.req
        /\ visited.current = now.current /\ visited.excess = now.excess
  BY <1>1, VisitTyped
<1> HIDE DEF visited
<1>4. CASE OutOfBudget(j) \/ CapTooLow(j)
  <2>1. PICK error \in Error :
          /\ At(j, "choosing") /\ now.budget >= 1 /\ Quiet /\ UNCHANGED job
          /\ run' = [run EXCEPT ![j] = [visited EXCEPT !.pc = "finished", !.error = error]]
    <3>1. CASE OutOfBudget(j)
      <4>1. now.budget >= 1
        BY <3>1 DEF OutOfBudget
      <4>2. QED
        BY <1>2, <3>1, <4>1 DEF OutOfBudget, Finished, visited
    <3>2. CASE CapTooLow(j)
      <4>1. now.budget >= 1
        BY <1>1, <3>2 DEF CapTooLow, Run
      <4>2. QED
        BY <1>2, <3>2, <4>1 DEF CapTooLow, Finished, visited
    <3>3. QED
      BY <1>4, <3>1, <3>2
  <2> DEFINE r == [visited EXCEPT !.pc = "finished", !.error = error]
  <2>2. r \in Run
    BY <1>2, <1>3, <2>1, GoesOn
  <2>3. r.pc = "finished" /\ r.spent = now.spent /\ r.req = now.req /\ r.excess = now.excess
    BY <1>3, <2>1 DEF Run
  <2>4. Advances(j, r)
    BY <2>1, <2>2, <2>3 DEF Advances, At, Working
  <2>5. QED
    BY <2>4
<1>5. CASE Downgrade(j)
  <2> DEFINE r == [visited EXCEPT !.current = @ - 1, !.degraded = TRUE]
  <2>1. now.budget >= 1 /\ now.current > 1 /\ now.pc = "choosing"
    BY <1>1, <1>5 DEF Downgrade, Run, At
  <2>2. r \in Run
    BY <1>2, <1>3, <2>1, GoesOn
  <2>3. r.pc = "choosing" /\ r.spent = now.spent /\ r.req = now.req /\ r.excess = now.excess
    BY <1>1, <1>3, <2>1 DEF Run, visited, Visit
  <2>4. Advances(j, r)
    BY <1>5, <2>1, <2>2, <2>3 DEF Advances, Downgrade, At, Working, visited
  <2>5. QED
    BY <2>4
<1>6. CASE Call(j)
  <2> DEFINE r == [visited EXCEPT !.pc = "calling"]
  <2>1. now.budget >= 1 /\ now.pc = "choosing" /\ Affords(now, now.current)
    BY <1>1, <1>6 DEF Call, Run, At
  <2>2. r \in Run
    BY <1>2, <1>3, <2>1, GoesOn
  <2>3. /\ r.pc = "calling" /\ r.spent = now.spent /\ r.req = now.req
        /\ r.current = now.current /\ r.excess = now.excess
    BY <1>3, <2>1 DEF Run
  <2>4. Affords(r, r.current)
    BY <2>1, <2>3 DEF Affords
  <2>5. Advances(j, r)
    BY <1>6, <2>1, <2>2, <2>3, <2>4 DEF Advances, Call, At, Working, visited
  <2>6. QED
    BY <2>5
<1>7. ASSUME NEW output \in AnswerTokens, Summarized(j, output) \/ PoorAnswer(j, output)
      PROVE  \E r : Advances(j, r)
  <2> DEFINE paid == Paid(now, output)
  <2>1. /\ paid \in Run /\ paid.req = now.req /\ paid.current = now.current
        /\ Pays(now, paid, output)
    BY <1>1, PaidTyped DEF Pays
  <2>2. At(j, "calling") /\ Quiet /\ UNCHANGED job
    BY <1>7 DEF Summarized, PoorAnswer
  <2>3. \/ \E error \in Error :
             run' = [run EXCEPT ![j] = [paid EXCEPT !.pc = "finished", !.error = error]]
        \/ /\ paid.current < Len(Ladder)
           /\ run' = [run EXCEPT ![j] = [paid EXCEPT !.pc = "choosing", !.current = @ + 1]]
    BY <1>2, <1>7 DEF Summarized, PoorAnswer, Finished
  <2> HIDE DEF paid
  <2>4. ASSUME NEW error \in Error,
               run' = [run EXCEPT ![j] = [paid EXCEPT !.pc = "finished", !.error = error]]
        PROVE  \E r : Advances(j, r)
    <3> DEFINE r == [paid EXCEPT !.pc = "finished", !.error = error]
    <3>1. r \in Run
      BY <1>2, <2>1, GoesOn
    <3>2. r.pc = "finished" /\ r.spent = paid.spent /\ r.req = paid.req /\ r.excess = paid.excess
      BY <2>1 DEF Run
    <3>3. Advances(j, r)
      BY <2>1, <2>2, <2>4, <3>1, <3>2 DEF Advances, At, Working, Pays
    <3>4. QED
      BY <3>3
  <2>5. ASSUME paid.current < Len(Ladder),
               run' = [run EXCEPT ![j] = [paid EXCEPT !.pc = "choosing", !.current = @ + 1]]
        PROVE  \E r : Advances(j, r)
    <3> DEFINE r == [paid EXCEPT !.pc = "choosing", !.current = @ + 1]
    <3>1. r \in Run
      BY <1>2, <2>1, <2>5, GoesOn
    <3>2. r.pc = "choosing" /\ r.spent = paid.spent /\ r.req = paid.req /\ r.excess = paid.excess
      BY <2>1 DEF Run
    <3>3. Advances(j, r)
      BY <2>1, <2>2, <2>5, <3>1, <3>2 DEF Advances, At, Working, Pays
    <3>4. QED
      BY <3>3
  <2>6. QED
    BY <2>3, <2>4, <2>5
<1>8. ASSUME NEW class \in FailureClass, CallFails(j, class)
      PROVE  \E r : Advances(j, r)
  <2>1. CASE run' = [run EXCEPT ![j] = [now EXCEPT !.pc = "finished", !.error = class]]
    <3> DEFINE r == [now EXCEPT !.pc = "finished", !.error = class]
    <3>1. r \in Run
      BY <1>1, <1>2, GoesOn
    <3>2. r.pc = "finished" /\ r.spent = now.spent /\ r.req = now.req /\ r.excess = now.excess
      BY <1>1 DEF Run
    <3>3. Advances(j, r)
      BY <1>8, <2>1, <3>1, <3>2 DEF Advances, CallFails, At, Working
    <3>4. QED
      BY <3>3
  <2>2. CASE /\ now.current < Len(Ladder)
             /\ run' = [run EXCEPT ![j] = [now EXCEPT !.pc = "choosing", !.current = @ + 1]]
    <3> DEFINE r == [now EXCEPT !.pc = "choosing", !.current = @ + 1]
    <3>1. r \in Run
      BY <1>1, <1>2, <2>2, GoesOn
    <3>2. r.pc = "choosing" /\ r.spent = now.spent /\ r.req = now.req /\ r.excess = now.excess
      BY <1>1 DEF Run
    <3>3. Advances(j, r)
      BY <1>8, <2>2, <3>1, <3>2 DEF Advances, CallFails, At, Working
    <3>4. QED
      BY <3>3
  <2>3. QED
    BY <1>8, <2>1, <2>2 DEF CallFails, NextAfterFailure, Finished
<1>9. QED
  BY <1>4, <1>5, <1>6, <1>7, <1>8 DEF LoopStep, Answer

LEMMA TypeStep ==
  ASSUME TypeOK, [Next]_vars
  PROVE  TypeOK'
<1>1. CASE UNCHANGED vars
  BY <1>1 DEF TypeOK, vars
<1>2. ASSUME NEW j \in Job, LoopStep(j) PROVE TypeOK'
  BY <1>2, LoopAdvances DEF Advances, TypeOK, Quiet
<1>3. ASSUME NEW j \in Job, NEW req \in Request, Record(j, req) PROVE TypeOK'
  <2>1. NewJob \in Row
    BY NoJobTyped DEF NewJob, Row, Status
  <2>2. [NoRun EXCEPT !.pc = "recorded", !.req = req] \in Run
    BY NoRunTyped DEF Run, Label
  <2>3. QED
    BY <1>3, <2>1, <2>2 DEF Record, CreateJob, TypeOK, Quiet
<1>4. ASSUME NEW j \in Job, Start(j) PROVE TypeOK'
  <2> DEFINE r == run[j]
  <2>1. r \in Run /\ job[j] \in Row /\ r.req.length \in Length
    BY SummaryJobConstants DEF TypeOK, Run
  <2>2. Started(job[j]) \in Row
    BY <2>1 DEF Started, Row, Status
  <2>3. [r EXCEPT !.pc = "choosing", !.current = StartIndex(r.req.length),
                  !.budget = 2 * Len(Ladder) + 1] \in Run
    <3>1. 2 * Len(Ladder) + 1 \in 0..(2 * Len(Ladder) + 1)
      BY SummaryJobConstants
    <3>2. StartIndex(r.req.length) \in 1..Len(Ladder)
      BY <2>1, StartsOnLadder
    <3>3. QED
      BY <2>1, <3>1, <3>2 DEF Run, Label
  <2>4. [r EXCEPT !.pc = "finished", !.error = "NoSubstantialMessages"] \in Run
    BY <2>1 DEF Run, Label, Error
  <2>5. QED
    BY <1>4, <2>2, <2>3, <2>4 DEF Start, UpdateJob, TypeOK, Quiet
<1>5. ASSUME NEW j \in Job, Conclude(j) PROVE TypeOK'
  <2> DEFINE r == run[j]
  <2>1. r \in Run /\ r.spent \in Nat /\ r.error \in Error /\ job[j] \in Row
    BY DEF TypeOK, Run
  <2>2. Completed(job[j], r.spent) \in Row /\ Failed(job[j], Reason(r.error), 0) \in Row
    BY <2>1, ReasonTyped DEF Completed, Failed, Larger, Row, Status
  <2>3. [run EXCEPT ![j].pc = "gone"] \in [Job -> Run]
    BY DEF TypeOK, Run, Label
  <2>4. QED
    BY <1>5, <2>2, <2>3 DEF Conclude, UpdateJob, TypeOK, Quiet
<1>6. ASSUME NEW j \in Job, WriteFails(j) PROVE TypeOK'
  <2>1. [run EXCEPT ![j].pc = "gone"] \in [Job -> Run]
    BY DEF TypeOK, Run, Label
  <2>2. QED
    BY <1>6, <2>1 DEF WriteFails, TypeOK
<1>7. CASE Crash
  <2>1. \A j \in Job : [run[j] EXCEPT !.pc = "gone"] \in Run
    BY DEF TypeOK, Run, Label
  <2>2. QED
    BY <1>7, <2>1 DEF Crash, TypeOK
<1>8. CASE Startup
  <2>1. \A j \in Job : [job[j] EXCEPT !.status = "paused"] \in Row
    BY DEF TypeOK, Row, Status
  <2>2. QED
    BY <1>8, <2>1 DEF Startup, TypeOK
<1>9. QED
  BY <1>1, <1>2, <1>3, <1>4, <1>5, <1>6, <1>7, <1>8 DEF Next, JobStep, LoopStep

\* The state of the jobs is well typed in every reachable state; in particular
\* escalations and downgrades stay on the ladder, and the loop's budget is not
\* overdrawn.
THEOREM TypeCorrect == Spec => []TypeOK
BY TypeInit, TypeStep, PTL DEF Spec

-----------------------------------------------------------------------------
(* The life of a row *)

LEMMA LifeInit == Init => LifeInv
BY TypeInit DEF Init, LifeInv, RowFollowsRun, NoRun, NoJob, Working

\* A step keeps the row of every job with its run, that of the job it works on
\* and those of the others.
LEMMA LifeStep ==
  ASSUME LifeInv, [Next]_vars
  PROVE  LifeInv'
<1> USE DEF LifeInv
<1>0. TypeOK'
  BY TypeStep
<1> SUFFICES ASSUME NEW i \in Job PROVE RowFollowsRun(i)'
  BY <1>0
<1>a. RowFollowsRun(i)
  OBVIOUS
<1>1. CASE UNCHANGED vars
  BY <1>1, <1>a DEF RowFollowsRun, vars
<1>2. ASSUME NEW j \in Job, LoopStep(j) PROVE RowFollowsRun(i)'
  <2>1. PICK r : Advances(j, r)
    BY <1>2, LoopAdvances
  <2>2. run'[i] = IF i = j THEN r ELSE run[i]
    BY <2>1 DEF Advances, TypeOK
  <2>3. QED
    BY <1>a, <2>1, <2>2 DEF Advances, Quiet, RowFollowsRun, Working
<1>3. ASSUME NEW j \in Job, NEW req \in Request, Record(j, req) PROVE RowFollowsRun(i)'
  <2>1. i = j => run'[i].pc = "recorded" /\ job'[i].status = "pending"
    BY <1>3, NoJobTyped, NoRunTyped DEF Record, CreateJob, NewJob, TypeOK, Row, Run
  <2>2. i # j => run'[i] = run[i] /\ job'[i] = job[i]
    BY <1>3 DEF Record, CreateJob, TypeOK
  <2>3. QED
    BY <1>3, <1>a, <2>1, <2>2 DEF Record, At, Quiet, RowFollowsRun, Working
<1>4. ASSUME NEW j \in Job, Start(j) PROVE RowFollowsRun(i)'
  <2>1. i = j => run'[i].pc \in Working /\ job'[i].status = "running"
    BY <1>4 DEF Start, UpdateJob, Started, TypeOK, Row, Run, Working
  <2>2. i # j => run'[i] = run[i] /\ job'[i] = job[i]
    BY <1>4 DEF Start, UpdateJob, TypeOK
  <2>3. QED
    BY <1>4, <1>a, <2>1, <2>2 DEF Start, At, Quiet, RowFollowsRun, Working
<1>5. ASSUME NEW j \in Job, Conclude(j) PROVE RowFollowsRun(i)'
  <2>1. i = j => run'[i].pc = "gone" /\ job'[i].status \in {"completed", "failed"}
    BY <1>5 DEF Conclude, UpdateJob, Completed, Failed, TypeOK, Row, Run
  <2>2. i # j => run'[i] = run[i] /\ job'[i] = job[i]
    BY <1>5 DEF Conclude, UpdateJob, TypeOK
  <2>3. QED
    BY <1>5, <1>a, <2>1, <2>2 DEF Conclude, At, Quiet, RowFollowsRun, Working
<1>6. ASSUME NEW j \in Job, WriteFails(j) PROVE RowFollowsRun(i)'
  <2>1. /\ i = j => run'[i].pc = "gone"
        /\ i # j => run'[i] = run[i]
    BY <1>6 DEF WriteFails, TypeOK, Run
  <2>2. QED
    BY <1>6, <1>a, <2>1 DEF WriteFails, RowFollowsRun, Working
<1>7. CASE Crash
  <2>1. /\ run[i].pc = "none" => run'[i].pc = "none"
        /\ run[i].pc # "none" => run'[i].pc = "gone"
    BY <1>7 DEF Crash, TypeOK, Run
  <2>2. QED
    BY <1>7, <1>a, <2>1 DEF Crash, RowFollowsRun, Working
<1>8. CASE Startup
  <2>1. /\ job[i].status = "running" => job'[i].status = "paused"
        /\ job[i].status # "running" => job'[i] = job[i]
    BY <1>8 DEF Startup, TypeOK, Row
  <2>2. QED
    BY <1>8, <1>a, <2>1 DEF Startup, RowFollowsRun, Working
<1>9. QED
  BY <1>1, <1>2, <1>3, <1>4, <1>5, <1>6, <1>7, <1>8 DEF Next, JobStep, LoopStep

\* After any crashes, restarts and failed writes, a row that says running has a
\* run that is alive, or one whose last write failed since the startup.
THEOREM RunningRowsAreOwned == Spec => []RunningIsOwned
<1>1. LifeInv => RunningIsOwned
  <2> SUFFICES ASSUME LifeInv, up, NEW j \in Job, job[j].status = "running"
               PROVE  run[j].pc \in Working \/ j \in lostWrites
    BY DEF RunningIsOwned, Working
  <2>1. run[j].pc \in Label
    BY DEF LifeInv, TypeOK, Run
  <2>2. QED
    BY <2>1 DEF LifeInv, RowFollowsRun, Label, Working
<1>2. QED
  BY <1>1, LifeInit, LifeStep, PTL DEF Spec

\* A job that completed or failed is never written again: no restart pauses it
\* and no run still works on it.
THEOREM EndsAreFinal == Spec => EndIsFinal
<1> DEFINE Ended(j) == job[j].status \in {"completed", "failed"}
           Kept == \A j \in Job : Ended(j) => job'[j] = job[j]
<1>1. LifeInv /\ [Next]_vars => [Kept]_vars
  <2> SUFFICES ASSUME LifeInv, Next, NEW i \in Job, Ended(i)
               PROVE  job'[i] = job[i]
    OBVIOUS
  <2> USE DEF LifeInv
  <2>1. RowFollowsRun(i)
    OBVIOUS
  <2>2. run[i].pc = "gone"
    <3>1. run[i].pc \in Label
      BY DEF TypeOK, Run
    <3>2. QED
      BY <2>1, <3>1 DEF RowFollowsRun, Label, Working
  <2>3. ASSUME NEW j \in Job, JobStep(j) \/ WriteFails(j) \/ \E req \in Request : Record(j, req)
        PROVE  job'[i] = job[i]
    <3>1. CASE UNCHANGED job
      BY <3>1
    <3>2. CASE Start(j) \/ Conclude(j) \/ \E req \in Request : Record(j, req)
      <4>1. j # i
        BY <2>2, <3>2 DEF Start, Conclude, Record, At
      <4>2. QED
        BY <3>2, <4>1 DEF Start, Conclude, Record, CreateJob, UpdateJob, TypeOK
    <3>3. LoopStep(j) \/ WriteFails(j) => UNCHANGED job
      BY LoopAdvances DEF Advances, WriteFails
    <3>4. QED
      BY <2>3, <3>1, <3>2, <3>3 DEF JobStep, LoopStep
  <2>4. CASE Crash
    BY <2>4 DEF Crash
  <2>5. CASE Startup
    BY <2>5 DEF Startup, TypeOK
  <2>6. QED
    BY <2>3, <2>4, <2>5 DEF Next
<1>2. QED
  BY <1>1, LifeInit, LifeStep, PTL DEF Spec, EndIsFinal

-----------------------------------------------------------------------------
(* The cap *)

LEMMA NearSame ==
  ASSUME NEW r, NEW q, Near(r), q.spent = r.spent, q.excess = r.excess, q.req = r.req
  PROVE  Near(q)
BY DEF Near

LEMMA NothingSpent ==
  ASSUME NEW r \in Run, r.spent = 0, r.excess = 0
  PROVE  Near(r)
<1>1. r.req \in Request
  BY DEF Run
<1>2. QED
  BY <1>1, CapIsNatural DEF Near

\* An answer paid for on an affordable call overruns by no more than itself.
LEMMA OneAnswerOver ==
  ASSUME NEW r \in Run, Affords(r, r.current), NEW output \in AnswerTokens,
         NEW q, q.req = r.req, Pays(r, q, output)
  PROVE  Near(q)
<1> DEFINE actual == Actual(r.current, r.req, output)
           estimate == Estimate(r.current, r.req)
<1>1. r.current \in 1..Len(Ladder) /\ r.req \in Request /\ r.spent \in Nat
  BY DEF Run
<1>2. actual \in Nat /\ estimate \in Nat /\ Cap(r.req) \in Nat
  BY <1>1, ActualIsNatural, EstimateIsNatural, CapIsNatural
<1>3. r.spent + estimate <= Cap(r.req)
  BY DEF Affords
<1>4. q.spent = r.spent + actual /\ q.excess = actual - estimate
  BY DEF Pays
<1> HIDE DEF actual, estimate
<1>5. QED
  BY <1>1, <1>2, <1>3, <1>4 DEF Near

LEMMA SpendInit == Init => SpendInv
<1> SUFFICES ASSUME Init PROVE SpendInv
  OBVIOUS
<1>1. SpendsNearCap(NoRun)
  BY NoRunTyped, NothingSpent DEF SpendsNearCap, NoRun
<1>2. QED
  BY <1>1, TypeInit DEF Init, SpendInv

\* Nothing was paid for.
Unspent(i) ==
  /\ run'[i].spent = run[i].spent
  /\ run'[i].excess = run[i].excess
  /\ run'[i].req = run[i].req

LEMMA SpendStep ==
  ASSUME SpendInv, [Next]_vars
  PROVE  SpendInv'
<1> USE DEF SpendInv
<1>0. TypeOK'
  BY TypeStep
<1> SUFFICES ASSUME NEW i \in Job PROVE SpendsNearCap(run'[i])
  BY <1>0 DEF SpendsNearCap, Near, Affords
<1>a. SpendsNearCap(run[i]) /\ run[i] \in Run
  BY DEF TypeOK
<1>1. CASE run'[i] = run[i]
  BY <1>a, <1>1
<1>2. CASE run'[i].pc # "calling" /\ Unspent(i)
  BY <1>a, <1>2, NearSame DEF SpendsNearCap, Unspent
<1>3. ASSUME NEW j \in Job, LoopStep(j) PROVE SpendsNearCap(run'[i])
  <2>1. PICK r : Advances(j, r)
    BY <1>3, LoopAdvances
  <2>2. run'[i] = IF i = j THEN r ELSE run[i]
    BY <2>1 DEF Advances, TypeOK
  <2>3. CASE i = j /\ r.spent = run[i].spent /\ r.excess = run[i].excess
    <3>1. r.req = run[i].req /\ (r.pc = "calling" => Affords(r, r.current))
      BY <2>1, <2>3 DEF Advances
    <3>2. Near(r)
      BY <1>a, <2>3, <3>1, NearSame DEF SpendsNearCap
    <3>3. QED
      BY <2>2, <2>3, <3>1, <3>2 DEF SpendsNearCap
  <2>4. ASSUME i = j, run[i].pc = "calling", NEW output \in AnswerTokens,
               Pays(run[i], r, output)
        PROVE  SpendsNearCap(run'[i])
    <3>1. r.req = run[i].req /\ (r.pc = "calling" => Affords(r, r.current))
      BY <2>1, <2>4 DEF Advances
    <3>2. Near(r)
      BY <1>a, <2>4, <3>1, OneAnswerOver DEF SpendsNearCap
    <3>3. QED
      BY <2>2, <2>4, <3>1, <3>2 DEF SpendsNearCap
  <2>5. QED
    BY <1>1, <2>1, <2>2, <2>3, <2>4 DEF Advances
<1>4. ASSUME NEW j \in Job, NEW req \in Request, Record(j, req) PROVE SpendsNearCap(run'[i])
  <2>1. CASE i = j
    <3>1. /\ run'[i] \in Run /\ run'[i].spent = 0 /\ run'[i].excess = 0
          /\ run'[i].pc = "recorded"
      BY <1>0, <1>4, <2>1 DEF Record, NoRun, TypeOK
    <3>2. QED
      BY <3>1, NothingSpent DEF SpendsNearCap
  <2>2. CASE i # j
    BY <1>1, <1>4, <2>2 DEF Record, TypeOK
  <2>3. QED
    BY <2>1, <2>2
<1>5. ASSUME NEW j \in Job, Start(j) \/ Conclude(j) \/ WriteFails(j)
      PROVE  SpendsNearCap(run'[i])
  <2>1. CASE i = j
    <3>1. run'[i].pc # "calling" /\ Unspent(i)
      <4>1. CASE Conclude(j) \/ WriteFails(j)
        BY <1>a, <2>1, <4>1 DEF Conclude, WriteFails, TypeOK, Run, Unspent
      <4>2. CASE Start(j)
        <5> DEFINE r == run[i]
        <5>1. run'[i] = IF r.req.substantial
                       THEN [r EXCEPT !.pc = "choosing", !.current = StartIndex(r.req.length),
                                      !.budget = 2 * Len(Ladder) + 1]
                       ELSE [r EXCEPT !.pc = "finished", !.error = "NoSubstantialMessages"]
          BY <2>1, <4>2 DEF Start, TypeOK
        <5>2. CASE r.req.substantial
          BY <1>a, <5>1, <5>2 DEF Run, Unspent
        <5>3. CASE ~r.req.substantial
          BY <1>a, <5>1, <5>3 DEF Run, Unspent
        <5>4. QED
          BY <5>2, <5>3
      <4>3. QED
        BY <1>5, <4>1, <4>2
    <3>2. QED
      BY <1>2, <3>1
  <2>2. CASE i # j
    BY <1>1, <1>5, <2>2 DEF Start, Conclude, WriteFails, TypeOK
  <2>3. QED
    BY <2>1, <2>2
<1>6. CASE Crash
  <2>1. \/ run'[i] = run[i]
        \/ run'[i].pc # "calling" /\ Unspent(i)
    BY <1>6, <1>a DEF Crash, Run, Unspent
  <2>2. QED
    BY <1>1, <1>2, <2>1
<1>7. CASE Startup \/ UNCHANGED vars
  BY <1>1, <1>7 DEF Startup, vars
<1>8. QED
  BY <1>3, <1>4, <1>5, <1>6, <1>7 DEF Next, JobStep, LoopStep

\* Whatever way a job goes up and down the ladder, all its answers together cost
\* no more than the cap, but for what the last of them cost above the estimate of
\* its own call: every charge before it left room for that estimate.
THEOREM SpendsStayNearCap == Spec => []SpendNearCap
<1>1. SpendInv => SpendNearCap
  BY DEF SpendInv, SpendsNearCap, Near, SpendNearCap
<1>2. QED
  BY <1>1, SpendInit, SpendStep, PTL DEF Spec

=============================================================================
