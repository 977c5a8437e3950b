---------------------------- MODULE EpisodeLoop ----------------------------
(***************************************************************************)
(* The simulation runs of ProblemEnvironment: plan, act, observe, update   *)
(* the belief, log, apply the changes of the environment, and again, until *)
(* one of the six reasons to stop.  The solver is the ABT plugin with the  *)
(* search loop of Solver::multipleSearches inside improvePolicy; its tree  *)
(* is abstracted to whether the agent is at the root and which kinds of    *)
(* states the particles of its belief are.                                 *)
(*                                                                         *)
(* The plugin is taken to start with an empty policy; what reset does when *)
(* a stored policy cannot be opened is left out.                           *)
(***************************************************************************)
EXTENDS Integers, Sequences

CONSTANTS
    NRuns,              \* nRuns
    NSimulationSteps,   \* nSimulationSteps
    Options             \* option files of the plugin: historiesPerStep (0 for
                        \* no limit), whether stepTimeout is not 0, resetOnChanges

(* With neither a limit nor a timeout, improvePolicy does not return. *)
ASSUME OptionsAssumption ==
    /\ NRuns \in Nat \ {0}
    /\ NSimulationSteps \in Nat
    /\ Options \subseteq
          [historiesPerStep : Nat, hasTimeout : BOOLEAN, resetOnChanges : BOOLEAN]
    /\ \A o \in Options : o.historiesPerStep # 0 \/ o.hasTimeout

VARIABLES
    options,        \* the options the program was started with
    run,            \* the number of the run
    phase,          \* where in the loop the run is
    currentStep,    \* the steps it has completed
    atRoot,         \* the agent's belief is the root of the tree
    particles,      \* the kinds of states among the particles of that belief
    sampled,        \* the kind of the last state a search started from
    numSearches,    \* searches of this step; without a limit only 0 or more
    timeUp,         \* the clock has passed the end of the planning time
    terminal,       \* the true state is terminal
    maxReward,      \* the last reward was the largest there is
    success,        \* the run is counted as successful
    rewards,        \* rewards added to the total of the run
    stepResult,     \* the record of the step under way
    log             \* the records the run has written

loopVars == <<run, phase, currentStep>>
beliefVars == <<atRoot, particles>>
planVars == <<sampled, numSearches, timeUp>>
worldVars == <<terminal, maxReward, success, rewards>>
logVars == <<stepResult, log>>
vars == <<options, loopVars, beliefVars, planVars, worldVars, logVars>>

(* The kinds of states: drawn from the initial belief or reached in a      *)
(* step, and terminal or not.  An initial state may well be terminal.      *)
Started == {"start", "startTerminal"}
Reached == {"live", "terminal"}
Terminals == {"startTerminal", "terminal"}
Kinds == Started \cup Reached

StepRecord(n, rewarded) == [step |-> n, rewarded |-> rewarded]

-----------------------------------------------------------------------------
(* solver_->reset() and what run sets before its loop.  The initial true   *)
(* state is not checked: it may be terminal.                               *)
Init ==
    /\ options \in Options
    /\ run = 1
    /\ phase = "top"
    /\ currentStep = 0
    /\ atRoot = TRUE
    /\ particles = {}
    /\ sampled = "none"
    /\ numSearches = 0
    /\ timeUp = FALSE
    /\ terminal \in BOOLEAN
    /\ maxReward = FALSE
    /\ success = FALSE
    /\ rewards = 0
    /\ stepResult = StepRecord(0, FALSE)
    /\ log = <<>>

BeginStepOffByOne ==                                                \* mutant
    /\ phase = "top"
    /\ stepResult' = StepRecord(currentStep, FALSE)
    /\ phase' = IF currentStep > NSimulationSteps THEN "ended" ELSE "planning"
    /\ sampled' = "none" /\ numSearches' = 0 /\ timeUp' = FALSE
    /\ UNCHANGED <<options, run, currentStep, beliefVars, worldVars, log>>

(* The top of the loop: a new record, and the check for being out of steps. *)
BeginStep ==
    /\ phase = "top"
    /\ stepResult' = StepRecord(currentStep, FALSE)
    /\ phase' = IF currentStep >= NSimulationSteps THEN "ended" ELSE "planning"
    /\ sampled' = "none" /\ numSearches' = 0 /\ timeUp' = FALSE
    /\ UNCHANGED <<options, run, currentStep, beliefVars, worldVars, log>>

-----------------------------------------------------------------------------
(* improvePolicy.  At the root the states come from the initial belief, of *)
(* any kind; elsewhere they are particles that are not terminal.           *)
SamplerWithTerminals == IF atRoot THEN Started ELSE particles       \* mutant

Sampler == IF atRoot THEN Started ELSE particles \ Terminals


EnoughSearches ==
    IF options.historiesPerStep # 0
    THEN numSearches >= options.historiesPerStep
    ELSE options.hasTimeout /\ timeUp

(* No state to search from: no histories, and the run ends. *)
NothingToSearch ==
    /\ phase = "planning"
    /\ Sampler = {}
    /\ phase' = "ended"
    /\ UNCHANGED <<options, run, currentStep, beliefVars, planVars, worldVars, logVars>>

(* A search from the root makes its state a particle of it, and counts,    *)
(* also if it goes no further because the state is terminal.               *)
Search ==
    /\ phase = "planning"
    /\ ~EnoughSearches
    /\ sampled' \in Sampler
    /\ numSearches' = IF options.historiesPerStep # 0 THEN numSearches + 1 ELSE 1
    /\ particles' = IF atRoot THEN particles \cup {sampled'} ELSE particles
    /\ UNCHANGED <<options, loopVars, atRoot, timeUp, worldVars, logVars>>

TimePasses ==
    /\ phase = "planning"
    /\ options.hasTimeout /\ ~timeUp
    /\ timeUp' = TRUE
    /\ UNCHANGED <<options, loopVars, beliefVars, sampled, numSearches, worldVars, logVars>>

(* No history at all within the time is a failure too. *)
StopPlanning ==
    /\ phase = "planning"
    /\ Sampler # {}
    /\ EnoughSearches
    /\ phase' = IF numSearches = 0 THEN "ended" ELSE "acting"
    /\ UNCHANGED <<options, run, currentStep, beliefVars, planVars, worldVars, logVars>>

-----------------------------------------------------------------------------
(* No action for the step: the run ends. *)
NoAction ==
    /\ phase = "acting"
    /\ phase' = "ended"
    /\ UNCHANGED <<options, run, currentStep, beliefVars, planVars, worldVars, logVars>>

ActTrustingReward ==                                                \* mutant
    /\ phase = "acting"
    /\ terminal' \in BOOLEAN
    /\ maxReward' \in BOOLEAN
    /\ success' = (success \/ maxReward')
    /\ rewards' = rewards + 1
    /\ stepResult' = StepRecord(currentStep, TRUE)
    /\ phase' = "updating"
    /\ UNCHANGED <<options, run, currentStep, beliefVars, planVars, log>>

(* The action is executed: a new true state, an observation, a reward. *)
Act ==
    /\ phase = "acting"
    /\ terminal' \in BOOLEAN
    /\ maxReward' \in BOOLEAN
    /\ success' = (success \/ (terminal' /\ maxReward'))
    /\ rewards' = rewards + 1
    /\ stepResult' = StepRecord(currentStep, TRUE)
    /\ phase' = "updating"
    /\ UNCHANGED <<options, run, currentStep, beliefVars, planVars, log>>

(* updateBelief: the agent is at the child whether or not the filter finds *)
(* particles for it.  If it does not, the run ends, the step uncounted.    *)
UpdateBelief ==
    /\ phase = "updating"
    /\ atRoot' = FALSE
    /\ \/ /\ particles # {} \/ atRoot
          /\ particles' \in SUBSET Reached \ {{}}
          /\ phase' = "finishing"
       \/ /\ particles' \in SUBSET Reached
          /\ phase' = "ended"
    /\ UNCHANGED <<options, run, currentStep, planVars, worldVars, logVars>>

(* handleEnvironmentChanges: no changes, or the solver gave up on them; a  *)
(* revised tree, whose belief may have lost or changed particles; or a new *)
(* tree with the particles that are still valid at its root.               *)
HandleChanges ==
    \/ UNCHANGED beliefVars
    \/ ~options.resetOnChanges /\ particles' \in SUBSET Reached /\ UNCHANGED atRoot
    \/ options.resetOnChanges /\ particles' \in SUBSET particles /\ atRoot' = TRUE

(* The end of the loop: the record is written, the changes of the step are *)
(* applied, the step is counted, and a terminal state ends the run.        *)
FinishStep ==
    /\ phase = "finishing"
    /\ log' = Append(log, stepResult)
    /\ HandleChanges
    /\ currentStep' = currentStep + 1
    /\ phase' = IF terminal THEN "ended" ELSE "top"
    /\ UNCHANGED <<options, run, planVars, worldVars, stepResult>>

EndRunUnlogged ==                                                   \* mutant
    /\ phase = "ended"
    /\ phase' = "logged"
    /\ UNCHANGED <<options, run, currentStep, beliefVars, planVars, worldVars, logVars>>

(* After the loop: the last record is written, once more if it had been. *)
EndRun ==
    /\ phase = "ended"
    /\ log' = Append(log, stepResult)
    /\ phase' = "logged"
    /\ UNCHANGED <<options, run, currentStep, beliefVars, planVars, worldVars, stepResult>>

(* The next run starts from a solver that has been reset, and again from   *)
(* an initial state that is not checked.                                   *)
NextRun ==
    /\ phase = "logged"
    /\ run < NRuns
    /\ run' = run + 1
    /\ phase' = "top"
    /\ currentStep' = 0
    /\ atRoot' = TRUE /\ particles' = {}
    /\ sampled' = "none" /\ numSearches' = 0 /\ timeUp' = FALSE
    /\ terminal' \in BOOLEAN /\ maxReward' = FALSE /\ success' = FALSE /\ rewards' = 0
    /\ stepResult' = StepRecord(0, FALSE) /\ log' = <<>>
    /\ UNCHANGED options

Next ==
    \/ BeginStep
    \/ NothingToSearch \/ Search \/ TimePasses \/ StopPlanning
    \/ NoAction \/ Act \/ UpdateBelief \/ FinishStep
    \/ EndRun \/ NextRun

(* One thread runs the loop, and the clock advances. *)
Fairness ==
    /\ WF_vars(BeginStep) /\ WF_vars(NothingToSearch) /\ WF_vars(Search)
    /\ WF_vars(TimePasses) /\ WF_vars(StopPlanning) /\ WF_vars(Act)
    /\ WF_vars(UpdateBelief) /\ WF_vars(FinishStep) /\ WF_vars(EndRun) /\ WF_vars(NextRun)

Spec == Init /\ [][Next]_vars /\ Fairness

-----------------------------------------------------------------------------
(* The types of the state. *)
TypeOK ==
    /\ options \in Options
    /\ run \in 1..NRuns
    /\ phase \in {"top", "planning", "acting", "updating", "finishing", "ended", "logged"}
    /\ currentStep \in 0..NSimulationSteps
    /\ atRoot \in BOOLEAN
    /\ particles \subseteq Kinds
    /\ sampled \in Kinds \cup {"none"}
    /\ numSearches \in Nat
    /\ timeUp \in BOOLEAN /\ terminal \in BOOLEAN /\ maxReward \in BOOLEAN
    /\ success \in BOOLEAN
    /\ rewards \in 0..NSimulationSteps
    /\ stepResult \in [step : 0..NSimulationSteps, rewarded : BOOLEAN]
    /\ log \in Seq([step : 0..NSimulationSteps, rewarded : BOOLEAN])

(* Planning stops at the end of an episode, in the world and in belief, as *)
(* far as the code looks: only the initial true state is planned from when *)
(* terminal, since run asks isTerminal after a step; and a history starts  *)
(* from a terminal state only if it is drawn from the initial belief, for  *)
(* the first step or after a reset of the tree.  Elsewhere the sampler     *)
(* passes over terminal particles.                                         *)
TerminalOnlyInitially ==
    phase \in {"planning", "acting"} =>
        /\ terminal => currentStep = 0
        /\ sampled \in Terminals =>
              /\ sampled = "startTerminal"
              /\ currentStep = 0 \/ options.resetOnChanges

(* A run counts as a success only if it reached a terminal state with the  *)
(* largest reward, and that was its last step.                             *)
SuccessIsEarned ==
    success => terminal /\ maxReward /\ phase \in {"updating", "finishing", "ended", "logged"}

(* The log accounts for the total reward: when a run is over, however it   *)
(* ended, each step whose reward was added has its record, the records are *)
(* in order, and none but the last is written twice.                       *)
LogAccountsForRewards ==
    phase = "logged" =>
        /\ {log[i].step : i \in {j \in DOMAIN log : log[j].rewarded}} = 0..(rewards - 1)
        /\ \A i, j \in DOMAIN log : i < j =>
              \/ log[i].step < log[j].step
              \/ log[i] = log[j] /\ j = Len(log) /\ i = j - 1


(* Solver.hpp, resetTree: the belief given becomes the new root.  So what  *)
(* is planned after the first step starts from the agent's belief.         *)
PlansFromBelief ==
    phase = "acting" /\ currentStep > 0 => sampled \in Reached
=============================================================================
