---------------------------- MODULE TextractPoll ----------------------------
(***************************************************************************)
(* TextractOcrService.extract_text_async of services/ingest/ocr.py: start  *)
(* a text detection job, then poll it until it is finished and all of its  *)
(* answers are collected, or until a deadline.  The job is Amazon          *)
(* Textract's; it finishes when it pleases, or never.                      *)
(*                                                                         *)
(* Time is counted in seconds of the worker's clock.  Only the calls and   *)
(* the sleeps take time.                                                   *)
(***************************************************************************)
EXTENDS Naturals, Sequences

CONSTANTS
    Timeout,       \* settings.textract_async_timeout_seconds
    PollSeconds,   \* settings.textract_async_poll_seconds
    CallSeconds,   \* the longest a call to Textract takes
    MaxAnswers,    \* bound: answers the result of a job is paged into
    Horizon        \* bound: the last second that is explored

ASSUME PollAssumption ==
    /\ Timeout \in Nat
    /\ PollSeconds \in Nat
    /\ CallSeconds \in Nat
    /\ Horizon \in Nat
    /\ MaxAnswers \in Nat \ {0}

VARIABLES
    job,        \* the job at Textract
    clock,      \* time.time()
    pc,         \* what the poller does next, or how it ended
    deadline,
    until,      \* the call or the sleep in progress ends by then
    token,      \* the answer next_token asks for
    lines       \* what was collected: the answers' numbers, in order

vars == <<job, clock, pc, deadline, until, token, lines>>

Finished == {"SUCCEEDED", "FAILED", "PARTIAL_SUCCESS"}
Ended    == {"returned", "timed_out", "raised"}

TypeOK ==
    /\ job      \in [status: {"NONE", "IN_PROGRESS"} \cup Finished,
                     answers: 1..MaxAnswers]
    /\ clock    \in 0..Horizon
    /\ pc       \in {"start", "check", "call", "sleep"} \cup Ended
    /\ deadline \in Nat
    /\ until    \in Nat
    /\ token    \in 1..MaxAnswers
    /\ lines    \in Seq(1..MaxAnswers)

Init ==
    /\ job      = [status |-> "NONE", answers |-> 1]
    /\ clock    = 0
    /\ pc       = "start"
    /\ deadline = 0
    /\ until    = 0
    /\ token    = 1
    /\ lines    = << >>

-----------------------------------------------------------------------------
(* The job and the clock                                                   *)

\* A failed job has a single answer, without blocks.
JobFinishes ==
    /\ job.status = "IN_PROGRESS"
    /\ \E s \in Finished, n \in 1..MaxAnswers :
         /\ s = "FAILED" => n = 1
         /\ job' = [status |-> s, answers |-> n]
    /\ UNCHANGED <<clock, pc, deadline, until, token, lines>>

Tick ==
    /\ pc \in {"call", "sleep"}
    /\ clock < until
    /\ clock < Horizon
    /\ clock' = clock + 1
    /\ UNCHANGED <<job, pc, deadline, until, token, lines>>

-----------------------------------------------------------------------------
(* The poller                                                              *)

\* The deadline counts from the return of the starting call.
Start ==
    /\ pc = "start"
    /\ job' = [job EXCEPT !.status = "IN_PROGRESS"]
    /\ deadline' = clock + Timeout
    /\ pc' = "check"
    /\ UNCHANGED <<clock, until, token, lines>>

\* Faulty variant: no deadline.
CheckForgetful ==
    /\ pc = "check"
    /\ pc' = "call"
    /\ until' = clock + CallSeconds
    /\ UNCHANGED <<job, clock, deadline, token, lines>>

\* The top of the loop, also between two answers of a finished job.
Check ==
    /\ pc = "check"
    /\ IF clock > deadline
         THEN pc' = "timed_out" /\ UNCHANGED until
         ELSE pc' = "call" /\ until' = clock + CallSeconds
    /\ UNCHANGED <<job, clock, deadline, token, lines>>

\* An answer of a job that still runs.
Pending ==
    /\ pc = "call"
    /\ job.status = "IN_PROGRESS"
    /\ pc' = "sleep"
    /\ until' = clock + PollSeconds
    /\ UNCHANGED <<job, clock, deadline, token, lines>>

Woken ==
    /\ pc = "sleep"
    /\ clock >= until
    /\ pc' = "check"
    /\ UNCHANGED <<job, clock, deadline, until, token, lines>>

\* An answer of a finished job: collect its blocks, whatever the status, and
\* go on with the token it carries if it carries one.
Blocks == IF job.status = "FAILED" THEN << >> ELSE <<token>>
\* Faulty variant: the token is ignored.
CollectFirst ==
    /\ pc = "call"
    /\ job.status \in Finished
    /\ lines' = lines \o Blocks
    /\ pc' = "returned"
    /\ UNCHANGED <<job, clock, deadline, until, token>>

\* Faulty variant: the token is not advanced.
CollectSameAgain ==
    /\ pc = "call"
    /\ job.status \in Finished
    /\ lines' = lines \o Blocks
    /\ pc' = IF token < job.answers THEN "check" ELSE "returned"
    /\ UNCHANGED <<job, clock, deadline, until, token>>

\* Faulty variant: the token runs past the last answer.
CollectBeyond ==
    /\ pc = "call"
    /\ job.status \in Finished
    /\ lines' = lines \o Blocks
    /\ token' = token + 1
    /\ pc' = IF token < job.answers THEN "check" ELSE "returned"
    /\ UNCHANGED <<job, clock, deadline, until>>

Collect ==
    /\ pc = "call"
    /\ job.status \in Finished
    /\ lines' = lines \o Blocks
    /\ IF token < job.answers
         THEN pc' = "check" /\ token' = token + 1
         ELSE pc' = "returned" /\ UNCHANGED token
    /\ UNCHANGED <<job, clock, deadline, until>>

\* A ClientError of either call reaches the caller at once.
Raise ==
    /\ pc \in {"start", "call"}
    /\ pc' = "raised"
    /\ UNCHANGED <<job, clock, deadline, until, token, lines>>

Poll == Start \/ Check \/ Pending \/ Woken \/ Collect \/ Raise

Next == JobFinishes \/ Tick \/ Poll

\* Calls return, the clock runs and the worker is scheduled; the job need
\* not ever finish.
Spec == Init /\ [][Next]_vars /\ WF_vars(Tick) /\ WF_vars(Poll)

-----------------------------------------------------------------------------
\* What is returned is the whole result of the finished job: every answer,
\* once, in order, however polling and finishing interleave.
ResultIsWhole ==
    pc = "returned" =>
        /\ job.status \in Finished
        /\ lines = IF job.status = "FAILED"
                     THEN << >> ELSE [i \in 1..job.answers |-> i]

\* What was collected so far is a prefix of that result, of a job that is
\* finished, and the token asks for what follows it.
CollectedPrefix ==
    /\ \A i \in DOMAIN lines : lines[i] = i
    /\ lines # << >> => job.status \in {"SUCCEEDED", "PARTIAL_SUCCESS"}
    /\ Len(lines) <= job.answers
    /\ pc \in {"start", "check", "call", "sleep"} =>
         token = Len(lines) + 1 /\ token <= job.answers
    /\ pc = "start" => job.status = "NONE"
    /\ job.status = "FAILED" => job.answers = 1

\* The poller holds its caller, and with it the whole worker, no longer
\* than one call and one sleep beyond the deadline.
OvertimeBounded == pc # "start" => clock <= deadline + CallSeconds + PollSeconds

\* Polling comes to an end, even of a job that never does.
PollEnds == <>(pc \in Ended)
=============================================================================
