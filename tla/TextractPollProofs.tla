------------------------- MODULE TextractPollProofs -------------------------
(***************************************************************************)
(* For every timeout, interval and size of result, what the poller         *)
(* returns is the whole result of the job, and it never overruns its       *)
(* deadline by more than one call and one sleep.                           *)
(***************************************************************************)
EXTENDS TextractPoll, TLAPS

\* Why the overrun is bounded: a call begins before the deadline, a sleep
\* before the end of such a call, and neither is outlasted by the clock.
Punctual ==
    /\ pc = "start" => clock <= deadline
    /\ pc = "check" => clock <= deadline + CallSeconds + PollSeconds
    /\ pc = "call"  => clock <= until /\ until <= deadline + CallSeconds
    /\ pc = "sleep" => clock <= until /\ until <= deadline + CallSeconds + PollSeconds

Invariant == TypeOK /\ CollectedPrefix /\ ResultIsWhole /\ Punctual /\ OvertimeBounded

USE PollAssumption DEF PollAssumption

LEMMA InitInvariant == Init => Invariant
<1> SUFFICES ASSUME Init PROVE Invariant
  OBVIOUS
<1>1. TypeOK
  BY DEF Init, TypeOK
<1>2. CollectedPrefix /\ ResultIsWhole
  BY DEF Init, CollectedPrefix, ResultIsWhole, Ended
<1>3. Punctual /\ OvertimeBounded
  BY DEF Init, Punctual, OvertimeBounded
<1> QED
  BY <1>1, <1>2, <1>3 DEF Invariant

\* Every step keeps the types.
LEMMA StepTypes == Invariant /\ [Next]_vars => TypeOK'
<1> SUFFICES ASSUME Invariant, [Next]_vars PROVE TypeOK'
  OBVIOUS
<1> USE DEF Invariant, TypeOK, Finished, Ended
<1>1. CASE JobFinishes
  BY <1>1 DEF JobFinishes
<1>2. CASE Tick
  BY <1>2 DEF Tick
<1>3. CASE Start
  <2>1. job' \in [status : {"NONE", "IN_PROGRESS"} \cup Finished, answers : 1..MaxAnswers]
    BY <1>3 DEF Start
  <2>2. deadline' \in Nat
    BY <1>3 DEF Start
  <2> QED
    BY <1>3, <2>1, <2>2 DEF Start
<1>4. CASE Check
  BY <1>4 DEF Check
<1>5. CASE Pending
  BY <1>5 DEF Pending
<1>6. CASE Woken
  BY <1>6 DEF Woken
<1>7. CASE Collect
  <2>1. lines' \in Seq(1..MaxAnswers)
    <3>1. Blocks \in Seq(1..MaxAnswers)
      <4>1. << >> \in Seq(1..MaxAnswers)
        OBVIOUS
      <4>2. \A n \in 1..MaxAnswers : <<n>> \in Seq(1..MaxAnswers)
        OBVIOUS
      <4>3. token \in 1..MaxAnswers
        OBVIOUS
      <4> QED
        BY <4>1, <4>2, <4>3 DEF Blocks
    <3>2. lines' = lines \o Blocks
      BY <1>7 DEF Collect
    <3>3. \A s, t \in Seq(1..MaxAnswers) : s \o t \in Seq(1..MaxAnswers)
      OBVIOUS
    <3>4. lines \in Seq(1..MaxAnswers)
      OBVIOUS
    <3> QED
      BY <3>1, <3>2, <3>3, <3>4
  <2>2. token' \in 1..MaxAnswers
    BY <1>7 DEF Collect
  <2> QED
    BY <1>7, <2>1, <2>2 DEF Collect
<1>8. CASE Raise
  BY <1>8 DEF Raise
<1>9. CASE UNCHANGED vars
  BY <1>9 DEF vars
<1> QED
  BY <1>1, <1>2, <1>3, <1>4, <1>5, <1>6, <1>7, <1>8, <1>9 DEF Next, Poll

\* Collecting an answer appends exactly the next one, and the last answer
\* completes the result.
LEMMA CollectKeepsPrefix ==
    ASSUME Invariant, Collect
    PROVE  CollectedPrefix' /\ ResultIsWhole'
<1> USE DEF Invariant, TypeOK, Finished, Ended
<1>1. token = Len(lines) + 1 /\ job' = job
  BY DEF Collect, CollectedPrefix
<1>2. CASE job.status = "FAILED"
  <2>1. lines = << >> /\ token = 1 /\ job.answers = 1
    BY <1>1, <1>2 DEF CollectedPrefix
  <2>2. lines' = << >> /\ pc' = "returned"
    BY <1>2, <2>1 DEF Collect, Blocks
  <2> QED
    BY <1>1, <1>2, <2>1, <2>2 DEF CollectedPrefix, ResultIsWhole
<1>3. CASE job.status # "FAILED"
  <2>1. lines' = Append(lines, Len(lines) + 1)
    BY <1>1, <1>3 DEF Collect, Blocks
  <2>2. Len(lines') = Len(lines) + 1 /\ \A i \in DOMAIN lines' : lines'[i] = i
    BY <2>1 DEF CollectedPrefix
  <2>3. Len(lines') <= job.answers
    <3>1. Len(lines) \in Nat /\ token \in Nat /\ job.answers \in Nat /\ token <= job.answers
      BY <1>1, <1>3 DEF CollectedPrefix, Collect
    <3> QED
      BY <1>1, <2>2, <3>1
  <2>4. CollectedPrefix'
    BY <1>1, <1>3, <2>2, <2>3 DEF CollectedPrefix, Collect
  <2>5. ResultIsWhole'
    <3> SUFFICES ASSUME pc' = "returned"
                 PROVE  lines' = [i \in 1..job.answers |-> i]
      BY <1>1, <1>3 DEF ResultIsWhole, Collect
    <3>1. Len(lines') = job.answers
      BY <1>1, <2>2, <2>3 DEF Collect
    <3>2. lines' \in Seq(1..MaxAnswers)
      BY StepTypes DEF Next, Poll
    <3> QED
      BY <2>2, <3>1, <3>2
  <2> QED
    BY <2>4, <2>5
<1> QED
  BY <1>2, <1>3

\* Every step keeps what is known of the collected answers.
LEMMA StepCollects == Invariant /\ [Next]_vars => CollectedPrefix' /\ ResultIsWhole'
<1> SUFFICES ASSUME Invariant, [Next]_vars PROVE CollectedPrefix' /\ ResultIsWhole'
  OBVIOUS
<1> USE DEF Invariant, TypeOK, CollectedPrefix, ResultIsWhole, Finished, Ended
<1>1. CASE JobFinishes
  <2>1. PICK s \in Finished, n \in 1..MaxAnswers :
           (s = "FAILED" => n = 1) /\ job' = [status |-> s, answers |-> n]
    BY <1>1 DEF JobFinishes
  <2>2. lines = << >> /\ pc # "returned" /\ pc # "start"
    BY <1>1 DEF JobFinishes
  <2> QED
    BY <1>1, <2>1, <2>2 DEF JobFinishes
<1>2. CASE Tick
  BY <1>2 DEF Tick
<1>3. CASE Start
  BY <1>3 DEF Start
<1>4. CASE Check
  BY <1>4 DEF Check
<1>5. CASE Pending
  BY <1>5 DEF Pending
<1>6. CASE Woken
  BY <1>6 DEF Woken
<1>7. CASE Collect
  BY <1>7, CollectKeepsPrefix
<1>8. CASE Raise
  BY <1>8 DEF Raise
<1>9. CASE UNCHANGED vars
  BY <1>9 DEF vars
<1> QED
  BY <1>1, <1>2, <1>3, <1>4, <1>5, <1>6, <1>7, <1>8, <1>9 DEF Next, Poll

\* Every step keeps the clock within the bound.
LEMMA StepPunctual == Invariant /\ [Next]_vars => Punctual' /\ OvertimeBounded'
<1> SUFFICES ASSUME Invariant, [Next]_vars PROVE Punctual' /\ OvertimeBounded'
  OBVIOUS
<1> USE DEF Invariant, TypeOK, Punctual, OvertimeBounded
<1>1. CASE JobFinishes
  BY <1>1 DEF JobFinishes
<1>2. CASE Tick
  BY <1>2 DEF Tick
<1>3. CASE Start
  BY <1>3 DEF Start
<1>4. CASE Check
  BY <1>4 DEF Check
<1>5. CASE Pending
  BY <1>5 DEF Pending
<1>6. CASE Woken
  BY <1>6 DEF Woken
<1>7. CASE Collect
  BY <1>7 DEF Collect
<1>8. CASE Raise
  BY <1>8 DEF Raise
<1>9. CASE UNCHANGED vars
  BY <1>9 DEF vars
<1> QED
  BY <1>1, <1>2, <1>3, <1>4, <1>5, <1>6, <1>7, <1>8, <1>9 DEF Next, Poll

LEMMA InvariantHolds == Spec => []Invariant
<1>1. Invariant /\ [Next]_vars => Invariant'
  BY StepTypes, StepCollects, StepPunctual DEF Invariant
<1> QED
  BY <1>1, InitInvariant, PTL DEF Spec

\* What the poller returns is the whole result of the finished job, for any
\* interleaving of polls and of the job.
THEOREM PollResultWhole == Spec => []ResultIsWhole
<1>1. Invariant => ResultIsWhole
  BY DEF Invariant
<1> QED
  BY <1>1, InvariantHolds, PTL

\* The worker is held no longer than one call and one sleep beyond the
\* deadline.
THEOREM PollOvertimeBounded == Spec => []OvertimeBounded
<1>1. Invariant => OvertimeBounded
  BY DEF Invariant
<1> QED
  BY <1>1, InvariantHolds, PTL

\* The poller's state keeps its types, the clock and the counters included.
THEOREM PollTypeCorrect == Spec => []TypeOK
<1>1. Invariant => TypeOK
  BY DEF Invariant
<1> QED
  BY <1>1, InvariantHolds, PTL

\* At any moment the lines collected are the first pages of the job's result:
\* none is missing before the last one, repeated or out of order.
THEOREM PollCollectsPrefix == Spec => []CollectedPrefix
<1>1. Invariant => CollectedPrefix
  BY DEF Invariant
<1> QED
  BY <1>1, InvariantHolds, PTL
================================================================================
