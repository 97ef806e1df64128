----------------------------- MODULE SummaryJob -----------------------------
(***************************************************************************)
(* The summarization pipeline as a job: summarize_as_job and summarize of  *)
(* host/src/summarize.rs, the model ladder, cost guard and allocation of   *)
(* domain/src/summarize, the lifecycle of domain/src/job.rs and the jobs   *)
(* table of repository/src/job.rs, with crashes, restarts and failed       *)
(* writes.                                                                 *)
(*                                                                         *)
(* The process dies between any two steps; on startup the jobs it left     *)
(* running are paused.  The engine's own retries are ResilientLlm's; here  *)
(* a call is answered or fails with its class.                             *)
(***************************************************************************)
EXTENDS Integers, FiniteSets, Sequences

CONSTANTS
  Job,
  Ladder,          \* models, cheapest first: input and output price, context
  Request,         \* requests: length, cap, input tokens, any substantial message
  AnswerTokens,    \* output tokens an answer may turn out to have
  MaxCrashes, MaxFailedWrites    \* bounds

Length == {"Brief", "Detailed", "Comprehensive"}
FailureClass == {"RateLimited", "QuotaExceeded", "InvalidRequest",
                 "ServiceUnavailable", "Unknown"}

ASSUME SummaryJobConstants ==
  /\ Len(Ladder) \in Nat \ {0}
  /\ \A m \in 1..Len(Ladder) : Ladder[m] \in [input : Nat, output : Nat, context : Nat]
  /\ Request # {}
  /\ Request \subseteq [length : Length, cap : Int, tokens : Nat, substantial : BOOLEAN]
  /\ AnswerTokens \subseteq Nat
  /\ MaxCrashes \in Nat
  /\ MaxFailedWrites \in Nat

VARIABLES
  up,             \* the process is running, startup done
  job,            \* job[j]: its row
  run,            \* run[j]: the locals of its summarize_as_job
  crashes, failedWrites,
  lostWrites      \* history: jobs whose write failed since the last startup

vars == <<up, job, run, crashes, failedWrites, lostWrites>>

Status == {"absent", "pending", "running", "paused", "completed", "failed"}
Error == FailureClass \union {"none", "Quality", "CostCapTooLow", "NoSubstantialMessages"}

\* none: not called.  recorded: row created.  choosing: at the head of the loop.
\* calling: in engine.complete.  finished: summarize returned.  gone: returned,
\* or died with the process.
Label == {"none", "recorded", "choosing", "calling", "finished", "gone"}

-----------------------------------------------------------------------------
(* Prices and allocation *)

Larger(a, b) == IF a >= b THEN a ELSE b

CostMicros(model, input, output) ==
  (input * model.input) \div 1000 + (output * model.output) \div 1000

OutputBudget(length) ==
  CASE length = "Brief" -> 512
    [] length = "Detailed" -> 1024
    [] length = "Comprehensive" -> 2048

\* allocate(): the output tokens of one pass over the input.
OutputPerChunk(tokens, context, desired) ==
  LET window == Larger(context - desired - 512, 1) IN
  IF tokens <= window THEN desired
  ELSE Larger(desired \div ((tokens + window - 1) \div window), 256)

Estimate(m, req) ==
  CostMicros(Ladder[m], req.tokens,
             OutputPerChunk(req.tokens, Ladder[m].context, OutputBudget(req.length)))

StartIndex(length) ==
  CASE length = "Brief" -> 1
    [] length = "Detailed" -> (Len(Ladder) - 1) \div 2 + 1
    [] length = "Comprehensive" -> Len(Ladder)

\* CostGuard::check; a negative cap counts as zero.
Cap(req) == Larger(req.cap, 0)

Affords(r, m) == r.spent + Estimate(m, r.req) <= Cap(r.req)

-----------------------------------------------------------------------------

AnyRequest == CHOOSE r \in Request : TRUE

NoRun == [pc |-> "none", req |-> AnyRequest, current |-> 1, degraded |-> FALSE,
          budget |-> 0, spent |-> 0, excess |-> 0, error |-> "none"]

NoJob == [status |-> "absent", cost |-> 0, reason |-> "none"]

Row == [status : Status, cost : Nat, reason : Error]

\* excess is history: what the last answer cost above its estimate, or less.
Run == [pc : Label, req : Request, current : 1..Len(Ladder), degraded : BOOLEAN,
        budget : 0..(2 * Len(Ladder) + 1), spent : Nat, excess : Int, error : Error]

TypeOK ==
  /\ up \in BOOLEAN
  /\ job \in [Job -> Row]
  /\ run \in [Job -> Run]
  /\ lostWrites \subseteq Job

Init ==
  /\ up = TRUE
  /\ job = [j \in Job |-> NoJob]
  /\ run = [j \in Job |-> NoRun]
  /\ crashes = 0 /\ failedWrites = 0
  /\ lostWrites = {}

At(j, label) == up /\ run[j].pc = label

Quiet == UNCHANGED <<up, crashes, failedWrites, lostWrites>>

-----------------------------------------------------------------------------
(* The job's row *)

NewJob == [NoJob EXCEPT !.status = "pending"]

CreateJob(j) == job' = [job EXCEPT ![j] = NewJob]

Started(row) == [row EXCEPT !.status = "running"]

Completed(row, cost) == [row EXCEPT !.status = "completed", !.cost = Larger(cost, 0)]

Failed(row, reason, cost) ==
  [row EXCEPT !.status = "failed", !.cost = Larger(cost, 0), !.reason = reason]

\* A transition is refused but from one status.
Expect(j, want) == job[j].status = want

\* The whole row is written.
UpdateJob(j, row) == job' = [job EXCEPT ![j] = row]

-----------------------------------------------------------------------------
(* The pipeline *)

\* The job is recorded before any work.
Record(j, req) ==
  /\ At(j, "none")
  /\ CreateJob(j)
  /\ run' = [run EXCEPT ![j] = [NoRun EXCEPT !.pc = "recorded", !.req = req]]
  /\ Quiet

\* start() and its write, then the prologue of summarize.
Start(j) ==
  LET r == run[j] IN
  /\ At(j, "recorded")
  /\ Expect(j, "pending")
  /\ UpdateJob(j, Started(job[j]))
  /\ run' = [run EXCEPT ![j] =
       IF r.req.substantial
       THEN [r EXCEPT !.pc = "choosing", !.current = StartIndex(r.req.length),
                      !.budget = 2 * Len(Ladder) + 1]
       ELSE [r EXCEPT !.pc = "finished", !.error = "NoSubstantialMessages"]]
  /\ Quiet

Finished(j, r, error) ==
  run' = [run EXCEPT ![j] = [r EXCEPT !.pc = "finished", !.error = error]]

\* Variant of Visit: the visit is not counted.
VisitUncounted(r) == r

\* The head of the loop: a visit is counted off the budget, and the last is
\* spent on noticing that none is left.
Visit(r) == [r EXCEPT !.budget = @ - 1]

OutOfBudget(j) ==
  /\ At(j, "choosing")
  /\ run[j].budget = 1
  /\ Finished(j, Visit(run[j]), "ServiceUnavailable")
  /\ Quiet /\ UNCHANGED job

Downgrade(j) ==
  LET r == run[j] IN
  /\ At(j, "choosing")
  /\ r.budget > 1
  /\ ~Affords(r, r.current)
  /\ r.current > 1
  /\ run' = [run EXCEPT ![j] =
       [Visit(r) EXCEPT !.current = @ - 1, !.degraded = TRUE]]
  /\ Quiet /\ UNCHANGED job

CapTooLow(j) ==
  LET r == run[j] IN
  /\ At(j, "choosing")
  /\ r.budget > 1
  /\ ~Affords(r, r.current)
  /\ r.current = 1
  /\ Finished(j, Visit(r), "CostCapTooLow")
  /\ Quiet /\ UNCHANGED job

\* Variant of Call: the cap is checked against this call alone.
CallForgetsSpent(j) ==
  LET r == run[j] IN
  /\ At(j, "choosing")
  /\ r.budget > 1
  /\ Estimate(r.current, r.req) <= Cap(r.req)
  /\ run' = [run EXCEPT ![j] =
       [Visit(r) EXCEPT !.pc = "calling"]]
  /\ Quiet /\ UNCHANGED job

Call(j) ==
  LET r == run[j] IN
  /\ At(j, "choosing")
  /\ r.budget > 1
  /\ Affords(r, r.current)
  /\ run' = [run EXCEPT ![j] =
       [Visit(r) EXCEPT !.pc = "calling"]]
  /\ Quiet /\ UNCHANGED job

Actual(m, req, output) == CostMicros(Ladder[m], req.tokens, Larger(output, 1))

Paid(r, output) ==
  LET cost == Actual(r.current, r.req, output) IN
  [r EXCEPT !.spent = @ + cost, !.excess = cost - Estimate(r.current, r.req)]

\* An answer that parses, is complete and cites messages in range.
Summarized(j, output) ==
  /\ At(j, "calling")
  /\ Finished(j, Paid(run[j], output), "none")
  /\ Quiet /\ UNCHANGED job

\* Truncated, filtered, empty or miscited: a stronger model, if there is one.
PoorAnswer(j, output) ==
  LET r == Paid(run[j], output) IN
  /\ At(j, "calling")
  /\ IF r.current < Len(Ladder)
     THEN run' = [run EXCEPT ![j] = [r EXCEPT !.pc = "choosing", !.current = @ + 1]]
     ELSE Finished(j, r, "Quality")
  /\ Quiet /\ UNCHANGED job

\* next_after_failure
NextAfterFailure(current, class) ==
  CASE class \in {"InvalidRequest", "QuotaExceeded", "Unknown"}           -> "give_up"
    [] class = "ServiceUnavailable" /\ current < Len(Ladder)             -> "escalate"
    [] OTHER                                                             -> "retry"

\* A retry and giving up both end the summary here.
CallFails(j, class) ==
  LET r == run[j] IN
  /\ At(j, "calling")
  /\ IF NextAfterFailure(r.current, class) = "escalate"
     THEN run' = [run EXCEPT ![j] = [r EXCEPT !.pc = "choosing", !.current = @ + 1]]
     ELSE Finished(j, r, class)
  /\ Quiet /\ UNCHANGED job

\* SummarizeError::failure_class
Reason(error) ==
  CASE error = "NoSubstantialMessages" -> "InvalidRequest"
    [] error = "Quality" -> "Unknown"
    [] error = "CostCapTooLow" -> "QuotaExceeded"
    [] OTHER -> error

\* complete() or fail() and its write.
Conclude(j) ==
  LET r == run[j] IN
  /\ At(j, "finished")
  /\ Expect(j, "running")
  /\ UpdateJob(j, IF r.error = "none" THEN Completed(job[j], r.spent)
                  ELSE Failed(job[j], Reason(r.error), 0))
  /\ run' = [run EXCEPT ![j].pc = "gone"]
  /\ Quiet

\* A write of the row fails: `?` returns, leaving the row as it was.
WriteFails(j) ==
  /\ up
  /\ run[j].pc \in {"recorded", "finished"}
  /\ failedWrites < MaxFailedWrites
  /\ failedWrites' = failedWrites + 1
  /\ run' = [run EXCEPT ![j].pc = "gone"]
  /\ lostWrites' = lostWrites \union {j}
  /\ UNCHANGED <<up, job, crashes>>

\* The process dies with every run it had.
Crash ==
  /\ up
  /\ crashes < MaxCrashes
  /\ crashes' = crashes + 1
  /\ up' = FALSE
  /\ run' = [j \in Job |-> IF run[j].pc = "none" THEN run[j]
                           ELSE [run[j] EXCEPT !.pc = "gone"]]
  /\ UNCHANGED <<job, failedWrites, lostWrites>>

\* Variants of Startup: it pauses whatever is recorded, or nothing.
StartupPausesAll ==
  /\ ~up
  /\ up' = TRUE
  /\ job' = [j \in Job |-> IF job[j].status # "absent"
                           THEN [job[j] EXCEPT !.status = "paused"] ELSE job[j]]
  /\ lostWrites' = {}
  /\ UNCHANGED <<run, crashes, failedWrites>>

StartupForgets ==
  /\ ~up
  /\ up' = TRUE
  /\ lostWrites' = {}
  /\ UNCHANGED <<job, run, crashes, failedWrites>>

\* pause_running
Startup ==
  /\ ~up
  /\ up' = TRUE
  /\ job' = [j \in Job |-> IF job[j].status = "running"
                           THEN [job[j] EXCEPT !.status = "paused"] ELSE job[j]]
  /\ lostWrites' = {}
  /\ UNCHANGED <<run, crashes, failedWrites>>

Answer(j) ==
  \/ \E output \in AnswerTokens : Summarized(j, output) \/ PoorAnswer(j, output)
  \/ \E class \in FailureClass : CallFails(j, class)

\* Every call is answered: ResilientLlm's requests all end.
JobStep(j) ==
  \/ Start(j)
  \/ OutOfBudget(j) \/ Downgrade(j) \/ CapTooLow(j) \/ Call(j)
  \/ Answer(j)
  \/ Conclude(j)

Next ==
  \/ Crash
  \/ Startup
  \/ \E j \in Job : JobStep(j) \/ WriteFails(j) \/ \E req \in Request : Record(j, req)

Spec == Init /\ [][Next]_vars

FairSpec == Spec /\ WF_vars(Startup) /\ \A j \in Job : WF_vars(JobStep(j))

-----------------------------------------------------------------------------
(* Properties *)

\* Whatever way a summary went up and down the ladder, all it spent fits the cap
\* but for what its last answer cost above the estimate of that very call; an
\* answer that cost less leaves as much of the cap unspent.
SpendNearCap == \A j \in Job : run[j].spent <= Cap(run[j].req) + run[j].excess

\* A row is running only while the run that owns it is alive, or its last write
\* failed: a crash leaves no orphans behind the next startup.
RunningIsOwned ==
  up => \A j \in Job : job[j].status = "running" =>
          run[j].pc \in {"choosing", "calling", "finished"} \/ j \in lostWrites

\* A job that reached an end stays as it ended, across crashes and restarts.
EndIsFinal ==
  [][\A j \in Job : job[j].status \in {"completed", "failed"} => job'[j] = job[j]]_vars

\* Every run that is recorded comes to its end - concluded, cut short by a failed
\* write, or dead with its process: no chain of escalations, downgrades and poor
\* answers keeps it going.
EveryJobEnds ==
  \A j \in Job : run[j].pc = "recorded" ~> run[j].pc = "gone"

=============================================================================
