------------------------- MODULE EpisodeLoopProofs -------------------------
(***************************************************************************)
(* The simulation runs of ProblemEnvironment, for every number of runs and *)
(* steps and every set of options: what a run plans from, when it counts   *)
(* as a success, and that its log accounts for its total reward.           *)
(***************************************************************************)
EXTENDS EpisodeLoop, SequenceTheorems, TLAPS

Records == [step : 0..NSimulationSteps, rewarded : BOOLEAN]

(* The loop body is entered only with a step left to do. *)
StepLeft ==
    phase \in {"planning", "acting", "updating", "finishing"} =>
        currentStep < NSimulationSteps /\ stepResult.step = currentStep

(* After the first step of a run no step is begun in a terminal state. *)
LiveAfterStart == phase \in {"top", "planning", "acting"} => (terminal => currentStep = 0)

(* An update takes the agent off the root, and only a reset takes it back. *)
RootOnlyByReset ==
    /\ phase = "finishing" => ~atRoot
    /\ atRoot => currentStep = 0 \/ options.resetOnChanges

(* While a run lasts its log holds the steps completed, all rewarded. *)
LogOfSteps ==
    phase # "logged" =>
        /\ Len(log) = currentStep
        /\ \A i \in 1..Len(log) : log[i] = StepRecord(i - 1, TRUE)

(* The reward of the step under way is in the total iff its record has it. *)
RewardOfStep ==
    /\ phase = "top" => rewards = currentStep
    /\ phase \in {"planning", "acting"} => rewards = currentStep /\ ~stepResult.rewarded
    /\ phase \in {"updating", "finishing"} => rewards = currentStep + 1 /\ stepResult.rewarded

(* A run ends within a step, rewarded or not, or after one that is logged. *)
LastRecord ==
    phase = "ended" =>
        \/ stepResult.step = currentStep /\ ~stepResult.rewarded /\ rewards = currentStep
        \/ stepResult.step = currentStep /\ stepResult.rewarded /\ rewards = currentStep + 1
        \/ /\ currentStep > 0 /\ rewards = currentStep
           /\ stepResult.step = currentStep - 1 /\ stepResult.rewarded

IInv ==
    /\ TypeOK /\ TerminalOnlyInitially /\ SuccessIsEarned /\ LogAccountsForRewards
    /\ StepLeft /\ LiveAfterStart /\ RootOnlyByReset /\ LogOfSteps /\ RewardOfStep
    /\ LastRecord

-----------------------------------------------------------------------------
(* A log l has the records of a total, in order, the last one once or twice. *)
Accounts(l, total) ==
    /\ {l[i].step : i \in {j \in DOMAIN l : l[j].rewarded}} = 0..(total - 1)
    /\ \A i, j \in DOMAIN l : i < j =>
          \/ l[i].step < l[j].step
          \/ l[i] = l[j] /\ j = Len(l) /\ i = j - 1

(* What the last record adds to a log of completed steps. *)
LEMMA CompletedLog ==
    ASSUME NEW n \in Nat, NEW s \in Seq(Records), Len(s) = n,
           \A i \in 1..Len(s) : s[i] = StepRecord(i - 1, TRUE),
           NEW last \in Records, NEW total \in Nat,
           \/ last.step = n /\ ~last.rewarded /\ total = n
           \/ last.step = n /\ last.rewarded /\ total = n + 1
           \/ n > 0 /\ total = n /\ last.step = n - 1 /\ last.rewarded,
           NEW t, t = Append(s, last)
    PROVE  Accounts(t, total)
<1>1. /\ t \in Seq(Records) /\ Len(t) = n + 1 /\ DOMAIN t = 1..(n + 1)
      /\ t[n + 1] = last
      /\ \A i \in 1..n : t[i] = StepRecord(i - 1, TRUE)
  <2>1. t \in Seq(Records)
    OBVIOUS
  <2>2. Len(t) = n + 1
    OBVIOUS
  <2>3. t[n + 1] = last /\ \A i \in 1..n : t[i] = s[i]
    OBVIOUS
  <2>4. \A i \in 1..n : t[i] = StepRecord(i - 1, TRUE)
    BY <2>3
  <2>5. DOMAIN t = 1..Len(t)
    BY <2>1
  <2> QED
    BY <2>1, <2>2, <2>3, <2>4, <2>5
<1>2. \A i \in 1..n : t[i].step = i - 1 /\ t[i].rewarded
  BY <1>1 DEF StepRecord
<1>3. ASSUME NEW x \in {t[i].step : i \in {j \in DOMAIN t : t[j].rewarded}}
      PROVE  x \in 0..(total - 1)
  <2>1. PICK i \in DOMAIN t : t[i].rewarded /\ x = t[i].step
    OBVIOUS
  <2>2. CASE i \in 1..n
    BY <1>2, <2>1, <2>2
  <2>3. CASE i = n + 1
    BY <1>1, <2>1, <2>3
  <2> QED
    BY <1>1, <2>2, <2>3
<1>4. ASSUME NEW x \in 0..(total - 1)
      PROVE  x \in {t[i].step : i \in {j \in DOMAIN t : t[j].rewarded}}
  <2>1. \E i \in DOMAIN t : t[i].rewarded /\ x = t[i].step
    <3>1. CASE x < n
      <4>1. x + 1 \in 1..n /\ x + 1 \in DOMAIN t
        BY <1>1, <3>1
      <4>2. t[x + 1].step = x + 1 - 1 /\ t[x + 1].rewarded
        BY <1>2, <4>1
      <4> QED
        BY <4>1, <4>2
    <3>2. CASE ~(x < n)
      <4>1. x = n /\ last.step = n /\ last.rewarded
        BY <3>2
      <4>2. n + 1 \in DOMAIN t
        BY <1>1
      <4> QED
        BY <1>1, <4>1, <4>2
    <3> QED
      BY <3>1, <3>2
  <2> QED
    BY <2>1
<1>5. ASSUME NEW i \in DOMAIN t, NEW j \in DOMAIN t, i < j
      PROVE  \/ t[i].step < t[j].step
             \/ t[i] = t[j] /\ j = Len(t) /\ i = j - 1
  <2>0. i \in 1..n /\ j \in 1..(n + 1)
    <3>1. i \in 1..(n + 1) /\ j \in 1..(n + 1)
      BY <1>1
    <3> QED
      BY <1>5, <3>1
  <2>1. t[i].step = i - 1 /\ t[i] = StepRecord(i - 1, TRUE)
    BY <1>1, <1>2, <2>0
  <2>2. CASE j \in 1..n
    <3>1. t[j].step = j - 1
      BY <1>2, <2>2
    <3>2. i - 1 < j - 1
      BY <1>5, <2>0
    <3> QED
      BY <2>1, <3>1, <3>2
  <2>3. CASE j = n + 1
    <3>1. t[j].step = last.step /\ last.step \in {n, n - 1}
      BY <1>1, <2>3
    <3>2. CASE t[i].step < t[j].step
      BY <3>2
    <3>3. CASE ~(t[i].step < t[j].step)
      <4>1. last.step = n - 1 /\ i = n /\ last.rewarded = TRUE
        BY <2>0, <2>1, <3>1, <3>3
      <4>2. last = [step |-> last.step, rewarded |-> last.rewarded]
        BY DEF Records
      <4>3. last = StepRecord(n - 1, TRUE)
        BY <4>1, <4>2 DEF StepRecord
      <4>4. t[i] = t[j]
        BY <1>1, <2>1, <2>3, <4>1, <4>3
      <4> QED
        BY <1>1, <2>3, <4>1, <4>4
    <3> QED
      BY <3>2, <3>3
  <2> QED
    BY <2>0, <2>2, <2>3
<1> QED
  BY <1>3, <1>4, <1>5 DEF Accounts

LEMMA InitInvariant == Init => IInv
<1> SUFFICES ASSUME Init PROVE IInv
  OBVIOUS
<1>1. log \in Seq(Records) /\ Len(log) = 0
  BY DEF Init
<1>2. 0 \in 0..NSimulationSteps /\ 1 \in 1..NRuns
  BY OptionsAssumption
<1>3. stepResult \in Records
  BY <1>2 DEF Init, StepRecord, Records
<1>4. TypeOK
  BY <1>1, <1>2, <1>3 DEF Init, TypeOK, Kinds, Records
<1>5. LogOfSteps
  BY <1>1 DEF Init, LogOfSteps
<1> QED
  BY <1>4, <1>5 DEF Init, IInv, TerminalOnlyInitially, SuccessIsEarned,
     LogAccountsForRewards, StepLeft, LiveAfterStart, RootOnlyByReset, RewardOfStep,
     LastRecord

(* Each action keeps the invariant. *)
LEMMA BeginStepKeeps == IInv /\ BeginStep => IInv'
<1> SUFFICES ASSUME IInv, BeginStep PROVE IInv'
  OBVIOUS
<1>1. currentStep \in 0..NSimulationSteps /\ currentStep \in Nat /\ NSimulationSteps \in Nat
  BY OptionsAssumption DEF IInv, TypeOK
<1>2. stepResult' = StepRecord(currentStep, FALSE) /\ stepResult' \in Records
  BY <1>1 DEF BeginStep, StepRecord, Records
<1>3. TypeOK'
  BY <1>2 DEF IInv, TypeOK, BeginStep, beliefVars, worldVars, Records
<1>4. LogOfSteps'
  BY DEF IInv, LogOfSteps, BeginStep
<1> QED
  BY <1>1, <1>2, <1>3, <1>4 DEF IInv, BeginStep, beliefVars, worldVars,
     TerminalOnlyInitially, SuccessIsEarned, LogAccountsForRewards, StepLeft,
     LiveAfterStart, RootOnlyByReset, RewardOfStep, LastRecord, StepRecord, Terminals

LEMMA NothingToSearchKeeps == IInv /\ NothingToSearch => IInv'
<1> SUFFICES ASSUME IInv, NothingToSearch PROVE IInv'
  OBVIOUS
<1>1. TypeOK'
  BY DEF IInv, TypeOK, NothingToSearch, beliefVars, planVars, worldVars, logVars
<1>2. LogOfSteps'
  BY DEF IInv, LogOfSteps, NothingToSearch, logVars
<1> QED
  BY <1>1, <1>2 DEF IInv, NothingToSearch, beliefVars, planVars, worldVars, logVars,
     TerminalOnlyInitially, SuccessIsEarned, LogAccountsForRewards, StepLeft,
     LiveAfterStart, RootOnlyByReset, RewardOfStep, LastRecord

(* Off the root the states a search starts from are not terminal. *)
LEMMA SearchKeeps == IInv /\ Search => IInv'
<1> SUFFICES ASSUME IInv, Search PROVE IInv'
  OBVIOUS
<1>1. /\ sampled' \in Kinds
      /\ sampled' \in Terminals => sampled' = "startTerminal" /\ atRoot
  <2>1. CASE atRoot
    BY <2>1 DEF Search, Sampler, Kinds, Started, Terminals
  <2>2. CASE ~atRoot
    BY <2>2 DEF IInv, TypeOK, Search, Sampler
  <2> QED
    BY <2>1, <2>2
<1>2. numSearches' \in Nat /\ particles' \subseteq Kinds
  BY <1>1 DEF IInv, TypeOK, Search
<1>3. TypeOK'
  BY <1>1, <1>2 DEF IInv, TypeOK, Search, loopVars, worldVars, logVars
<1>4. LogOfSteps'
  BY DEF IInv, LogOfSteps, Search, loopVars, logVars
<1> QED
  BY <1>1, <1>3, <1>4 DEF IInv, Search, loopVars, worldVars, logVars,
     TerminalOnlyInitially, SuccessIsEarned, LogAccountsForRewards, StepLeft,
     LiveAfterStart, RootOnlyByReset, RewardOfStep, LastRecord

LEMMA TimePassesKeeps == IInv /\ TimePasses => IInv'
<1> SUFFICES ASSUME IInv, TimePasses PROVE IInv'
  OBVIOUS
<1>1. TypeOK'
  BY DEF IInv, TypeOK, TimePasses, loopVars, beliefVars, worldVars, logVars
<1>2. LogOfSteps'
  BY DEF IInv, LogOfSteps, TimePasses, loopVars, logVars
<1> QED
  BY <1>1, <1>2 DEF IInv, TimePasses, loopVars, beliefVars, worldVars, logVars,
     TerminalOnlyInitially, SuccessIsEarned, LogAccountsForRewards, StepLeft,
     LiveAfterStart, RootOnlyByReset, RewardOfStep, LastRecord

LEMMA StopPlanningKeeps == IInv /\ StopPlanning => IInv'
<1> SUFFICES ASSUME IInv, StopPlanning PROVE IInv'
  OBVIOUS
<1>1. TypeOK'
  BY DEF IInv, TypeOK, StopPlanning, beliefVars, planVars, worldVars, logVars
<1>2. LogOfSteps'
  BY DEF IInv, LogOfSteps, StopPlanning, logVars
<1> QED
  BY <1>1, <1>2 DEF IInv, StopPlanning, beliefVars, planVars, worldVars, logVars,
     TerminalOnlyInitially, SuccessIsEarned, LogAccountsForRewards, StepLeft,
     LiveAfterStart, RootOnlyByReset, RewardOfStep, LastRecord

LEMMA NoActionKeeps == IInv /\ NoAction => IInv'
<1> SUFFICES ASSUME IInv, NoAction PROVE IInv'
  OBVIOUS
<1>1. TypeOK'
  BY DEF IInv, TypeOK, NoAction, beliefVars, planVars, worldVars, logVars
<1>2. LogOfSteps'
  BY DEF IInv, LogOfSteps, NoAction, logVars
<1> QED
  BY <1>1, <1>2 DEF IInv, NoAction, beliefVars, planVars, worldVars, logVars,
     TerminalOnlyInitially, SuccessIsEarned, LogAccountsForRewards, StepLeft,
     LiveAfterStart, RootOnlyByReset, RewardOfStep, LastRecord

(* The total stays within the steps because there is a step left to do. *)
LEMMA ActKeeps == IInv /\ Act => IInv'
<1> SUFFICES ASSUME IInv, Act PROVE IInv'
  OBVIOUS
<1>1. /\ currentStep \in 0..NSimulationSteps /\ currentStep < NSimulationSteps
      /\ rewards = currentStep /\ NSimulationSteps \in Nat
  BY OptionsAssumption DEF IInv, TypeOK, Act, StepLeft, RewardOfStep
<1>2. stepResult' = StepRecord(currentStep, TRUE) /\ stepResult' \in Records
  BY <1>1 DEF Act, StepRecord, Records
<1>3. rewards' = currentStep + 1 /\ rewards' \in 0..NSimulationSteps
  BY <1>1 DEF Act
<1>4. success = FALSE /\ success' = (terminal' /\ maxReward')
  BY DEF IInv, TypeOK, SuccessIsEarned, Act
<1>5. TypeOK'
  BY <1>2, <1>3, <1>4 DEF IInv, TypeOK, Act, beliefVars, planVars, Records
<1>6. LogOfSteps'
  BY DEF IInv, LogOfSteps, Act
<1> QED
  BY <1>1, <1>2, <1>3, <1>4, <1>5, <1>6 DEF IInv, Act, beliefVars, planVars,
     TerminalOnlyInitially, SuccessIsEarned, LogAccountsForRewards, StepLeft,
     LiveAfterStart, RootOnlyByReset, RewardOfStep, LastRecord, StepRecord

LEMMA UpdateBeliefKeeps == IInv /\ UpdateBelief => IInv'
<1> SUFFICES ASSUME IInv, UpdateBelief PROVE IInv'
  OBVIOUS
<1>1. particles' \subseteq Kinds
  BY DEF UpdateBelief, Reached, Kinds
<1>2. TypeOK'
  BY <1>1 DEF IInv, TypeOK, UpdateBelief, planVars, worldVars, logVars
<1>3. LogOfSteps'
  BY DEF IInv, LogOfSteps, UpdateBelief, logVars
<1> QED
  BY <1>2, <1>3 DEF IInv, UpdateBelief, planVars, worldVars, logVars,
     TerminalOnlyInitially, SuccessIsEarned, LogAccountsForRewards, StepLeft,
     LiveAfterStart, RootOnlyByReset, RewardOfStep, LastRecord

(* A record of the log is that of its step. *)
LEMMA FinishStepKeeps == IInv /\ FinishStep => IInv'
<1> SUFFICES ASSUME IInv, FinishStep PROVE IInv'
  OBVIOUS
<1>1. /\ currentStep \in 0..NSimulationSteps /\ currentStep < NSimulationSteps
      /\ NSimulationSteps \in Nat /\ log \in Seq(Records) /\ stepResult \in Records
      /\ stepResult.step = currentStep /\ stepResult.rewarded
      /\ rewards = currentStep + 1
  BY OptionsAssumption DEF IInv, TypeOK, FinishStep, StepLeft, RewardOfStep, Records
<1>2. stepResult = StepRecord(currentStep, TRUE)
  <2>1. stepResult = [step |-> stepResult.step, rewarded |-> stepResult.rewarded]
        /\ stepResult.rewarded = TRUE
    BY <1>1 DEF Records
  <2> QED
    BY <1>1, <2>1 DEF StepRecord
<1>3. log' \in Seq(Records) /\ Len(log') = Len(log) + 1 /\ log'[Len(log) + 1] = stepResult
      /\ \A i \in 1..Len(log) : log'[i] = log[i]
  <2>1. log' = Append(log, stepResult)
    BY DEF FinishStep
  <2> QED
    BY <1>1, <2>1
<1>4. Len(log) = currentStep /\ \A i \in 1..Len(log) : log[i] = StepRecord(i - 1, TRUE)
  BY DEF IInv, FinishStep, LogOfSteps
<1>5. LogOfSteps'
  <2>1. Len(log') = currentStep'
    BY <1>3, <1>4 DEF FinishStep
  <2>2. ASSUME NEW i \in 1..Len(log') PROVE log'[i] = StepRecord(i - 1, TRUE)
    <3>1. CASE i = Len(log) + 1
      <4>1. i - 1 = currentStep
        BY <1>1, <1>4, <3>1
      <4> QED
        BY <1>2, <1>3, <3>1, <4>1
    <3>2. CASE i # Len(log) + 1
      <4>1. i \in 1..Len(log)
        BY <1>1, <1>3, <1>4, <3>2
      <4> QED
        BY <1>3, <1>4, <4>1
    <3> QED
      BY <3>1, <3>2
  <2> QED
    BY <2>1, <2>2 DEF LogOfSteps
<1>6. currentStep' = currentStep + 1 /\ currentStep' \in 0..NSimulationSteps
  BY <1>1 DEF FinishStep
<1>7. particles' \subseteq Kinds /\ atRoot' \in BOOLEAN
  BY DEF IInv, TypeOK, FinishStep, HandleChanges, beliefVars, Reached, Kinds
<1>8. TypeOK'
  BY <1>3, <1>6, <1>7 DEF IInv, TypeOK, FinishStep, planVars, worldVars, Records
<1>9. RootOnlyByReset'
  BY DEF IInv, RootOnlyByReset, FinishStep, HandleChanges, beliefVars
<1> QED
  BY <1>1, <1>5, <1>6, <1>8, <1>9 DEF IInv, FinishStep, planVars, worldVars,
     TerminalOnlyInitially, SuccessIsEarned, LogAccountsForRewards, StepLeft,
     LiveAfterStart, RewardOfStep, LastRecord

LEMMA EndRunKeeps == IInv /\ EndRun => IInv'
<1> SUFFICES ASSUME IInv, EndRun PROVE IInv'
  OBVIOUS
<1>1. /\ currentStep \in Nat /\ rewards \in Nat
      /\ log \in Seq(Records) /\ stepResult \in Records
  BY OptionsAssumption DEF IInv, TypeOK, Records
<1>2. Len(log) = currentStep /\ \A i \in 1..Len(log) : log[i] = StepRecord(i - 1, TRUE)
  BY DEF IInv, EndRun, LogOfSteps
<1>3. \/ stepResult.step = currentStep /\ ~stepResult.rewarded /\ rewards = currentStep
      \/ stepResult.step = currentStep /\ stepResult.rewarded /\ rewards = currentStep + 1
      \/ /\ currentStep > 0 /\ rewards = currentStep
         /\ stepResult.step = currentStep - 1 /\ stepResult.rewarded
  BY DEF IInv, EndRun, LastRecord
<1>4. log' = Append(log, stepResult) /\ rewards' = rewards
  BY DEF EndRun, worldVars
<1>5. log' \in Seq(Records)
  BY <1>1, <1>4
<1>6. LogAccountsForRewards'
  <2>1. Accounts(log', rewards)
    BY <1>1, <1>2, <1>3, <1>4, CompletedLog
  <2> QED
    BY <1>4, <2>1 DEF LogAccountsForRewards, Accounts
<1>7. TypeOK'
  BY <1>5 DEF IInv, TypeOK, EndRun, beliefVars, planVars, worldVars, Records
<1> QED
  BY <1>6, <1>7 DEF IInv, EndRun, beliefVars, planVars, worldVars, TerminalOnlyInitially,
     SuccessIsEarned, StepLeft, LiveAfterStart, RootOnlyByReset, LogOfSteps, RewardOfStep,
     LastRecord

LEMMA NextRunKeeps == IInv /\ NextRun => IInv'
<1> SUFFICES ASSUME IInv, NextRun PROVE IInv'
  OBVIOUS
<1>1. log' \in Seq(Records) /\ Len(log') = 0
  BY DEF NextRun
<1>2. 0 \in 0..NSimulationSteps /\ run' \in 1..NRuns
  BY OptionsAssumption DEF IInv, TypeOK, NextRun
<1>3. stepResult' \in Records
  BY <1>2 DEF NextRun, StepRecord, Records
<1>4. TypeOK'
  BY <1>1, <1>2, <1>3 DEF IInv, TypeOK, NextRun, Kinds, Records
<1>5. LogOfSteps'
  BY <1>1 DEF NextRun, LogOfSteps
<1> QED
  BY <1>4, <1>5 DEF IInv, NextRun, TerminalOnlyInitially, SuccessIsEarned,
     LogAccountsForRewards, StepLeft, LiveAfterStart, RootOnlyByReset, RewardOfStep,
     LastRecord

LEMMA NextInvariant == IInv /\ [Next]_vars => IInv'
<1> SUFFICES ASSUME IInv, [Next]_vars PROVE IInv'
  OBVIOUS
<1>1. CASE UNCHANGED vars
  <2>1. TypeOK'
    BY <1>1 DEF IInv, TypeOK, vars, loopVars, beliefVars, planVars, worldVars, logVars
  <2>2. LogAccountsForRewards' /\ LogOfSteps'
    BY <1>1 DEF IInv, LogAccountsForRewards, LogOfSteps, vars, loopVars, worldVars, logVars
  <2> QED
    BY <1>1, <2>1, <2>2 DEF IInv, TerminalOnlyInitially, SuccessIsEarned, StepLeft,
       LiveAfterStart, RootOnlyByReset, RewardOfStep, LastRecord, vars, loopVars,
       beliefVars, planVars, worldVars, logVars
<1>2. CASE Next
  BY <1>2, Zenon, BeginStepKeeps, NothingToSearchKeeps, SearchKeeps, TimePassesKeeps,
     StopPlanningKeeps, NoActionKeeps, ActKeeps, UpdateBeliefKeeps, FinishStepKeeps,
     EndRunKeeps, NextRunKeeps DEF Next
<1> QED
  BY <1>1, <1>2

THEOREM Invariant == Spec => []IInv
<1> QED
  BY InitInvariant, NextInvariant, PTL DEF Spec

(* Steps, records and the total reward stay within nSimulationSteps. *)
THEOREM TypeCorrect == Spec => []TypeOK
<1>1. IInv => TypeOK
  BY DEF IInv
<1> QED
  BY <1>1, Invariant, PTL

(* What is planned from a terminal state, of the world or of a belief, is  *)
(* planned from an initial state that nothing checks: the true one in the  *)
(* first step of a run, one of the initial belief at the root.             *)
THEOREM PlansFromTerminalInitially == Spec => []TerminalOnlyInitially
<1>1. IInv => TerminalOnlyInitially
  BY DEF IInv
<1> QED
  BY <1>1, Invariant, PTL

(* A run is a success only with the largest reward, at a terminal state. *)
THEOREM SuccessEarned == Spec => []SuccessIsEarned
<1>1. IInv => SuccessIsEarned
  BY DEF IInv
<1> QED
  BY <1>1, Invariant, PTL

(* However a run ends, its log has a record for each reward it added. *)
THEOREM LogComplete == Spec => []LogAccountsForRewards
<1>1. IInv => LogAccountsForRewards
  BY DEF IInv
<1> QED
  BY <1>1, Invariant, PTL

-----------------------------------------------------------------------------
(* Off the root, the particles are those of a belief that was updated. *)
AwayFromRoot ==
    /\ currentStep > 0 \/ phase = "finishing" => ~atRoot
    /\ ~atRoot => particles \subseteq Reached
    /\ phase \in {"planning", "acting"} /\ currentStep > 0 /\ numSearches > 0 =>
          sampled \in Reached
    /\ phase = "acting" => numSearches > 0

(* A reset of the tree is the only way to plan from anything but the       *)
(* agent's belief: without the option resetOnChanges it never happens.     *)
THEOREM PlansFromBeliefUnlessReset ==
    (\A o \in Options : ~o.resetOnChanges) => (Spec => []PlansFromBelief)
<1> SUFFICES ASSUME \A o \in Options : ~o.resetOnChanges
             PROVE  Spec => []PlansFromBelief
  OBVIOUS
<1>1. Init => AwayFromRoot
  BY DEF Init, AwayFromRoot
<1>2. IInv /\ AwayFromRoot /\ [Next]_vars => AwayFromRoot'
  <2> SUFFICES ASSUME IInv, AwayFromRoot, [Next]_vars PROVE AwayFromRoot'
    OBVIOUS
  <2>1. /\ currentStep \in Nat /\ numSearches \in Nat /\ ~options.resetOnChanges
        /\ particles \subseteq Kinds
    BY OptionsAssumption DEF IInv, TypeOK
  <2>2. CASE BeginStep
    BY <2>2 DEF BeginStep, AwayFromRoot, beliefVars
  <2>3. CASE NothingToSearch
    BY <2>3 DEF NothingToSearch, AwayFromRoot, beliefVars, planVars
  <2>4. CASE Search
    <3>1. currentStep > 0 => sampled' \in Reached
      BY <2>1, <2>4 DEF Search, Sampler, AwayFromRoot
    <3> QED
      BY <2>1, <2>4, <3>1 DEF Search, AwayFromRoot, loopVars, Reached
  <2>5. CASE TimePasses
    BY <2>5 DEF TimePasses, AwayFromRoot, loopVars, beliefVars
  <2>6. CASE StopPlanning
    BY <2>1, <2>6 DEF StopPlanning, AwayFromRoot, beliefVars, planVars
  <2>7. CASE NoAction
    BY <2>7 DEF NoAction, AwayFromRoot, beliefVars, planVars
  <2>8. CASE Act
    BY <2>8 DEF Act, AwayFromRoot, beliefVars, planVars
  <2>9. CASE UpdateBelief
    BY <2>9 DEF UpdateBelief, AwayFromRoot, planVars
  <2>10. CASE FinishStep
    BY <2>1, <2>10 DEF FinishStep, HandleChanges, AwayFromRoot, beliefVars, planVars
  <2>11. CASE EndRun
    BY <2>11 DEF EndRun, AwayFromRoot, beliefVars, planVars
  <2>12. CASE NextRun
    BY <2>12 DEF NextRun, AwayFromRoot
  <2>13. CASE UNCHANGED vars
    BY <2>13 DEF AwayFromRoot, vars, loopVars, beliefVars, planVars
  <2> QED
    BY <2>2, <2>3, <2>4, <2>5, <2>6, <2>7, <2>8, <2>9, <2>10, <2>11, <2>12, <2>13 DEF Next
<1>3. AwayFromRoot => PlansFromBelief
  BY DEF AwayFromRoot, PlansFromBelief
<1> QED
  BY <1>1, <1>2, <1>3, Invariant, PTL DEF Spec
=============================================================================
