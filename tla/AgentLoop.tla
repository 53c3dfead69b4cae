------------------------------ MODULE AgentLoop ------------------------------
(***************************************************************************)
(* An agent campaign over Track B tasks (harness/agentb.py,                *)
(* harness/evalagent.py), with the evaluator of module TrackB at the end of *)
(* every task, and the site's view of the campaign's directory.            *)
(*                                                                         *)
(* Per task, a loop asks the provider for one action at a time until a     *)
(* budget is used up, the agent is done, or the provider fails; whatever    *)
(* design the sandbox then holds is evaluated.  A task leaves three files,  *)
(* a campaign one more, each replaced atomically and each after the other: *)
(* the manifest (twice: the evaluator's, then the agent's), the transcript *)
(* (which nothing reads and is left out), the design, the summary.  The    *)
(* directory is reused by the next campaign of the model.                  *)
(*                                                                         *)
(* Tokens count input and output together, as the budget does.             *)
(***************************************************************************)
EXTENDS TrackB

CONSTANTS
    TaskAt,        \* TaskAt[i]: the i-th task of the campaign
    NTasks,
    Shipped,       \* Shipped[t]: the design a task's package starts with
    Budget,        \* tokens per task
    ToolBudget,    \* tool calls per task
    Estimates,     \* what _estimate_prompt_tokens makes of a prompt
    MaxPrompt,     \* the most input tokens a provider bills for one attempt
    MaxOutput,     \* PER_CALL_MAX_OUTPUT_TOKENS
    Attempts,      \* of one call, the first included
    ReviewStates,  \* which tasks may lack an official review
    MaxRuns        \* bound: the number of the last campaign

Positions == 1 .. NTasks

ASSUME TaskAssumption ==
    /\ NTasks \in Nat
    /\ TaskAt \in [Positions -> Tasks]
    /\ \A i, j \in Positions : TaskAt[i] = TaskAt[j] => i = j
    /\ Shipped \in [Tasks -> Designs]
    /\ ReviewStates \subseteq SUBSET Tasks
ASSUME BudgetAssumption ==
    /\ Budget \in Nat \ {0} /\ ToolBudget \in Nat \ {0}
    /\ Estimates \subseteq Nat \ {0}
    /\ MaxPrompt \in Nat \ {0} /\ MaxOutput \in Nat \ {0}
    /\ Attempts \in Nat \ {0} /\ MaxRuns \in Nat

VARIABLES
    sv,          \* per task, the design saved beside the manifest
    summary,     \* summary.json
    pc,          \* where the campaign stands
    run,         \* its number; campaign 1 was over before the behaviour starts
    official,
    unreviewed,  \* the tasks whose official reviews its plan found missing
    at,          \* the task it is at
    counter,     \* tokens the provider adapter has counted
    start,       \* the counter when the task began
    calls,       \* tool calls of the task
    ceiling,     \* the most an attempt of the call in hand is billed, in tokens
    attempt,     \* of that call
    design,      \* what the sandbox holds
    exceeded,    \* budget_exceeded
    total,       \* tokens in the rows collected for the summary
    wasted,      \* history: tokens of the task billed for attempts made again
    failed       \* history: the provider failed, which ended the loop

fileVars == <<sv, summary>>
planVars == <<run, official, unreviewed>>
loopVars == <<counter, start, calls, ceiling, attempt, design, exceeded, wasted, failed>>
vars == <<trackBVars, fileVars, planVars, loopVars, pc, at, total>>

Summary == [by : Nat, skipped : SUBSET Tasks]
Limits == {"tokens", "wall_clock_s", "tool_calls", "spend_cap"}

ASSUME NoLimitAssumption == Nothing \notin Limits

AnyDesign == CHOOSE d \in Designs : TRUE

\* What campaign 1 left if all its tasks ended with design d, which does not lint.
EarlierManifest(d) ==
    [ManifestOf([NewEvaluation(CHOOSE t \in Tasks : TRUE, FALSE, d)
                    EXCEPT !.stages = [s \in Stages |-> "fail"]]) EXCEPT !.by = 1]

\* The directory is empty, or that of campaign 1.
Init ==
    /\ hidden = "tests"
    /\ changes = 0
    /\ epc = "idle"
    /\ ev = NoEvaluation
    /\ \/ /\ manifest = [t \in Tasks |-> Nothing]
          /\ sv = [t \in Tasks |-> Nothing]
       \/ \E d \in Designs :
             /\ manifest = [t \in Tasks |-> EarlierManifest(d)]
             /\ sv = [t \in Tasks |-> d]
    /\ summary = [by |-> IF sv = [t \in Tasks |-> Nothing] THEN 0 ELSE 1, skipped |-> {}]
    /\ pc = "off"
    /\ run = 1 /\ official = FALSE /\ unreviewed = {}
    /\ at = 1
    /\ counter = 0 /\ start = 0 /\ calls = 0 /\ ceiling = 0 /\ attempt = 1
    /\ design = AnyDesign
    /\ exceeded = Nothing
    /\ total = 0 /\ wasted = 0 /\ failed = FALSE

\* The variables of a task's loop are not needed any more: only its design and
\* its tokens are.
ForgetLoop ==
    /\ calls' = 0 /\ ceiling' = 0 /\ attempt' = 1
    /\ exceeded' = Nothing /\ wasted' = 0 /\ failed' = FALSE

Forget == ForgetLoop /\ design' = AnyDesign

-----------------------------------------------------------------------------
(* The campaign *)

Task == TaskAt[at]
Skipped == IF official THEN unreviewed ELSE {}

\* eval_agent: the plan is made first; a campaign whose estimate exceeds what
\* is left of the spend cap ends here, before it touches a file.
StartCampaign ==
    /\ pc = "off"
    /\ run < MaxRuns
    /\ run' = run + 1
    /\ official' \in BOOLEAN
    /\ unreviewed' \in ReviewStates
    /\ pc' = "task"
    /\ UNCHANGED <<at, total, trackBVars, fileVars, loopVars>>

SkipTask ==
    /\ pc = "task"
    /\ at \in Positions
    /\ Task \in Skipped
    /\ at' = at + 1
    /\ UNCHANGED <<pc, total, trackBVars, fileVars, planVars, loopVars>>

\* Mutant: the usage of every task is counted from the campaign's start.
BeginWithoutBaseline ==
    /\ pc = "task" /\ at \in Positions /\ Task \notin Skipped
    /\ calls' = 0 /\ wasted' = 0 /\ failed' = FALSE
    /\ design' = Shipped[Task]
    /\ exceeded' = Nothing
    /\ pc' = "turn"
    /\ UNCHANGED <<at, counter, start, ceiling, attempt, total, trackBVars, fileVars, planVars>>

\* run_agent_task: usage is counted from here (_TaskUsageProvider), the agent
\* works in a fresh copy of the package.
BeginTask ==
    /\ pc = "task"
    /\ at \in Positions
    /\ Task \notin Skipped
    /\ start' = counter
    /\ calls' = 0 /\ wasted' = 0 /\ failed' = FALSE
    /\ design' = Shipped[Task]
    /\ exceeded' = Nothing
    /\ pc' = "turn"
    /\ UNCHANGED <<at, counter, ceiling, attempt, total, trackBVars, fileVars, planVars>>

-----------------------------------------------------------------------------
(* The agent's loop *)

LoopStep(next) ==
    /\ pc' = next
    /\ UNCHANGED <<at, start, total, trackBVars, fileVars, planVars>>

Tokens == counter - start

\* Mutant: a budget may be used up to the last token, and one more call made.
FiredLimitLate(made) ==
    {"wall_clock_s"} \cup
    {IF Tokens > Budget THEN "tokens"
     ELSE IF made > ToolBudget THEN "tool_calls" ELSE Nothing}

\* _fired_limit: the clock is asked first, then tokens, then tool calls.  Time
\* may be up whenever it is asked.
FiredLimit(made) ==
    {"wall_clock_s"} \cup
    {IF Tokens >= Budget THEN "tokens"
     ELSE IF made >= ToolBudget THEN "tool_calls" ELSE Nothing}

Larger(a, b) == IF a >= b THEN a ELSE b
Smaller(a, b) == IF a <= b THEN a ELSE b

\* max_tokens of a call: what the budget leaves after the prompt, at least 1.
OutputAllowance(estimate) ==
    Smaller(Larger(Larger(Budget - Tokens, 1) - estimate, 1), MaxOutput)

\* A turn begins with the limits; then a prompt is made and its tokens are
\* estimated.  The allowance holds for all attempts of the call: a provider
\* bills no more output than max_tokens.  The input it bills is its own count,
\* of a prompt that has a system prompt, too, which the estimate leaves out: it
\* is bounded by MaxPrompt, and not by the estimate.
BeginTurn ==
    /\ pc = "turn"
    /\ exceeded' \in FiredLimit(calls)
    /\ \/ exceeded' # Nothing /\ LoopStep("evaluate") /\ UNCHANGED ceiling
       \/ /\ exceeded' = Nothing /\ LoopStep("call")
          /\ \E estimate \in Estimates : ceiling' = MaxPrompt + OutputAllowance(estimate)
    /\ UNCHANGED <<counter, calls, attempt, design, wasted, failed>>

\* What the adapter counts for an attempt.
Costs == 0 .. ceiling

\* provider.generate returns the text of an action.
Answer ==
    /\ pc = "call"
    /\ \E c \in Costs : counter' = counter + c
    /\ attempt' = 1 /\ ceiling' = 0
    /\ LoopStep("act")
    /\ UNCHANGED <<calls, design, exceeded, wasted, failed>>

\* generate_with_transport_retry: an empty response is billed, and asked for
\* again; a transport error costs nothing.
Retry ==
    /\ pc = "call"
    /\ attempt < Attempts
    /\ \E c \in Costs : counter' = counter + c /\ wasted' = wasted + c
    /\ attempt' = attempt + 1
    /\ LoopStep("call")
    /\ UNCHANGED <<calls, ceiling, design, exceeded, failed>>

\* SpendCapExceeded: the ledger refuses the reservation, and nothing was sent; or
\* it reports the overrun when the call settles, and then the adapter has
\* counted the tokens and the answer is gone (module SpendLedger).
SpendCap ==
    /\ pc = "call"
    /\ exceeded' = "spend_cap"
    /\ \E c \in Costs : counter' = counter + c
    /\ attempt' = 1 /\ ceiling' = 0
    /\ LoopStep("evaluate")
    /\ UNCHANGED <<calls, design, wasted, failed>>

\* An error that is not retried, or the last attempt failed; its tokens may have
\* been counted.  Nothing marks the manifest.
ProviderFailed ==
    /\ pc = "call"
    /\ \E c \in Costs : counter' = counter + c
    /\ failed' = TRUE
    /\ attempt' = 1 /\ ceiling' = 0
    /\ LoopStep("evaluate")
    /\ UNCHANGED <<calls, design, exceeded, wasted>>

Tools == {"list_files", "read_file", "write_design", "sb_lint", "sb_sim",
          "sb_synth_sta", "done"}

\* validate_action: what is not one of the tools with its arguments is rejected.
ValidatedActions == Tools \cup {"rejected"}

\* execute_action: only write_design changes the sandbox, and it may be refused.
DesignsAfter(action) == IF action = "write_design" THEN Designs ELSE {design}

\* Mutant: an agent that is done is not asked for its limits.
ActHonouringDone ==
    /\ pc = "act"
    /\ calls' = calls + 1
    /\ \E action \in ValidatedActions :
          /\ design' \in DesignsAfter(action)
          /\ exceeded' \in (IF action = "done" THEN {Nothing} ELSE FiredLimit(calls + 1))
          /\ LoopStep(IF action = "done" \/ exceeded' # Nothing THEN "evaluate" ELSE "turn")
    /\ UNCHANGED <<counter, ceiling, attempt, wasted, failed>>

\* Mutant: an action that is rejected is not counted.
ActCountingAccepted ==
    /\ pc = "act"
    /\ \E action \in ValidatedActions :
          /\ calls' = calls + (IF action = "rejected" THEN 0 ELSE 1)
          /\ design' \in DesignsAfter(action)
          /\ exceeded' \in FiredLimit(calls')
          /\ LoopStep(IF action = "done" \/ exceeded' # Nothing THEN "evaluate" ELSE "turn")
    /\ UNCHANGED <<counter, ceiling, attempt, wasted, failed>>

\* One action is carried out or rejected, and counted either way.  The limits
\* are asked before "done" is honoured.
Act ==
    /\ pc = "act"
    /\ calls' = calls + 1
    /\ exceeded' \in FiredLimit(calls + 1)
    /\ \E action \in ValidatedActions :
          /\ design' \in DesignsAfter(action)
          /\ LoopStep(IF action = "done" \/ exceeded' # Nothing THEN "evaluate" ELSE "turn")
    /\ UNCHANGED <<counter, ceiling, attempt, wasted, failed>>

-----------------------------------------------------------------------------
(* What a task leaves *)

\* run_track_b judges what the sandbox holds.  tool_calls and budget_exceeded are
\* final here, and are not followed into the manifest.
Evaluate ==
    /\ pc = "evaluate"
    /\ StartEvaluation(Task, official, design)
    /\ pc' = "judging"
    /\ ForgetLoop
    /\ UNCHANGED <<at, total, counter, start, design, fileVars, planVars>>

JudgeStep ==
    /\ pc = "judging"
    /\ Judge
    /\ UNCHANGED <<pc, at, total, fileVars, planVars, loopVars>>

Verdict ==
    /\ pc = "judging"
    /\ WriteManifest
    /\ pc' = "sign"
    /\ UNCHANGED <<at, total, fileVars, planVars, loopVars>>

\* The agent's manifest replaces the evaluator's.
Sign ==
    /\ pc = "sign"
    /\ manifest' = [manifest EXCEPT ![Task].by = run]
    /\ pc' = "save"
    /\ UNCHANGED <<at, total, hidden, changes, epc, ev, fileVars, planVars, loopVars>>

\* Mutant: the design file an earlier campaign saved is kept.
SaveOnce ==
    /\ pc = "save"
    /\ sv' = [sv EXCEPT ![Task] = IF @ = Nothing THEN design ELSE @]
    /\ total' = total + Tokens
    /\ at' = at + 1
    /\ pc' = "task"
    /\ Forget
    /\ UNCHANGED <<counter, start, summary, trackBVars, planVars>>

\* The design is saved; eval_agent adds a row to the summary.
SaveSource ==
    /\ pc = "save"
    /\ sv' = [sv EXCEPT ![Task] = design]
    /\ total' = total + Tokens
    /\ at' = at + 1
    /\ pc' = "task"
    /\ Forget
    /\ UNCHANGED <<counter, start, summary, trackBVars, planVars>>

WriteSummary ==
    /\ pc = "task"
    /\ at \notin Positions
    /\ summary' = [by |-> run, skipped |-> Skipped]
    /\ pc' = "off"
    /\ at' = 1 /\ counter' = 0 /\ start' = 0 /\ total' = 0
    /\ Forget
    /\ UNCHANGED <<sv, trackBVars, planVars>>

\* The campaign is over before its time; the files stay.
Abandon ==
    /\ pc' = "off"
    /\ epc' = "idle" /\ ev' = NoEvaluation
    /\ at' = 1 /\ counter' = 0 /\ start' = 0 /\ total' = 0
    /\ Forget
    /\ UNCHANGED <<hidden, changes, manifest, fileVars, planVars>>

\* An exception nothing catches: validate_action looks the action's tool up in a
\* table, and a tool that is a list or an object raises a TypeError there.
ActRaises ==
    /\ pc = "act"
    /\ Abandon

\* The process dies.
Crash ==
    /\ pc # "off"
    /\ Abandon

HiddenTestsChange ==
    /\ ChangeHidden
    /\ UNCHANGED <<pc, at, total, fileVars, planVars, loopVars>>

CampaignStep ==
    \/ SkipTask \/ BeginTask \/ BeginTurn
    \/ Answer \/ Retry \/ SpendCap \/ ProviderFailed \/ Act \/ ActRaises
    \/ Evaluate \/ JudgeStep \/ Verdict \/ Sign \/ SaveSource \/ WriteSummary

Next == StartCampaign \/ CampaignStep \/ Crash \/ HiddenTestsChange

Spec == Init /\ [][Next]_vars

\* A campaign that is under way keeps going.
FairSpec == Spec /\ WF_vars(CampaignStep)

-----------------------------------------------------------------------------
(* Reading the files *)

\* scripts/reproduce_trackb.py: the design beside the manifest is judged again
\* only if it has the hash that the manifest records.
ResolveDesignSource(t) ==
    IF sv[t] # Nothing /\ sv[t] = manifest[t].sha THEN {sv[t]} ELSE {}

\* Whether the rerun is official is inferred from the recorded hidden hash.
InferredOfficial(m) == m.hidden

\* site/generate.py, _load_agent: a manifest the agent has not signed is that of
\* another model, and the site is not generated.
LoadAgent(t) == manifest[t].by # 0

\* _validate_agent_summary asks only that the manifests exist.
ValidAgentSummary == \A t \in {TaskAt[i] : i \in Positions} \ summary.skipped :
                        manifest[t] # Nothing

-----------------------------------------------------------------------------
(* Properties *)

PCs == {"off", "task", "turn", "call", "act", "evaluate", "judging", "sign", "save"}

\* The variables keep their types, those of the evaluator included.
TypeOK ==
    /\ TrackBTypeOK
    /\ sv \in [Tasks -> Designs \cup {Nothing}]
    /\ summary \in Summary
    /\ pc \in PCs
    /\ run \in Nat /\ official \in BOOLEAN /\ unreviewed \in SUBSET Tasks
    /\ at \in 1 .. (NTasks + 1)
    /\ counter \in Nat /\ start \in 0 .. counter /\ calls \in Nat
    /\ ceiling \in Nat /\ attempt \in 1 .. Attempts
    /\ design \in Designs /\ exceeded \in Limits \cup {Nothing}
    /\ total \in Nat /\ wasted \in Nat /\ failed \in BOOLEAN

\* However its calls are answered, billed and retried, a task uses no more than
\* its budget, the input of one attempt, and what was billed for attempts that
\* were made again; and it makes no more tool calls than its budget has.  The
\* estimate that admits a campaign is a sum of budgets.
TaskStaysNearBudget ==
    pc \in {"turn", "call", "act", "evaluate"} =>
        /\ Tokens <= Budget + MaxPrompt + wasted
        /\ calls <= ToolBudget

\* When the loop has ended, budget_exceeded names the limit that was hit; it is
\* missing only if none was or the provider failed, even if the agent was done by
\* the very call that used the budget up.
FlagTellsTheLimit ==
    pc = "evaluate" =>
        /\ exceeded = "tokens" => Tokens >= Budget
        /\ exceeded = "tool_calls" => Tokens < Budget /\ calls >= ToolBudget
        /\ exceeded = Nothing /\ ~failed => Tokens < Budget /\ calls < ToolBudget

\* The rows of a campaign account for every token its provider has counted,
\* each for the tokens of its own task.
RowsAccountForAllTokens == pc = "task" => total = counter

\* A campaign that went through, whatever earlier ones left in its directory,
\* leaves for every task it did not skip a manifest of its own that the site
\* loads and, beside it, the very design that was judged.
SummaryTellsTheCampaign ==
    pc = "off" /\ summary.by = run =>
        /\ ValidAgentSummary
        /\ \A i \in Positions :
              LET t == TaskAt[i]
              IN  t \notin summary.skipped =>
                     /\ manifest[t].by = run /\ LoadAgent(t)
                     /\ ResolveDesignSource(t) = {manifest[t].sha}
                     /\ InferredOfficial(manifest[t]) => manifest[t].official

\* Every campaign ends: calls and attempts are limited, whatever they cost and
\* however little time they take.
CampaignEnds == pc # "off" ~> pc = "off"
=============================================================================
