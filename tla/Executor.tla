------------------------------ MODULE Executor ------------------------------
(***************************************************************************)
(* The whole Executor of engine/cell-runtime: the schedule decides which   *)
(* ruleset runs next, RunLoop makes the Run, and whether the graph changed *)
(* decides how the schedule goes on.  A checkpoint and its resume may fall *)
(* between any two Runs; the task stack and the steps are part of it.      *)
(*                                                                         *)
(* The ruleset of a node is a sequence of rules; the node of an `until`    *)
(* probe also has the field until.  A failed assert ends the program and   *)
(* has no step.                                                            *)
(***************************************************************************)
EXTENDS RunLoop

CONSTANTS
    Control,    \* the program's control list
    None,       \* no Run is under way
    Nodes       \* every node of the control list, at any depth

(* A node's parts are nodes, and its ruleset is one of the program's.        *)
ASSUME ControlAssumption ==
    /\ Control \in Seq(Nodes)
    /\ None \notin RuleSets
    /\ \A node \in Nodes :
        /\ node.op = "run" => node.set \in RuleSets
        /\ node.op = "sequence" => node.children \in Seq(Nodes)
        /\ node.op = "repeat" => node.count \in Nat
        /\ node.op \in {"repeat", "saturate"} => node.body \in Nodes

VARIABLES tasks, steps, running

Schedule == INSTANCE Schedule WITH Sets <- RuleSets

executorVars == <<runLoopVars, tasks, steps, running>>
scheduleVars == <<tasks, steps, running>>

InitExecutor == InitLoop /\ Schedule!InitSchedule

------------------------------------------------------------------------------
(* probe(): some rule of the set has a match, dirty or not. *)
Probe(S) == \E r \in Range(S) : ~JoinsEmptyTable(r) /\ AllBindings(r) # {}

Node == Schedule!Top.node

(* A node with an `until` probe runs when the probe finds nothing. *)
BeginStep ==
    /\ Schedule!EvalRun
    /\ Node.probe = "until" => ~Probe(Node.until)
    /\ StartRun(Node.set)

ProbeStep ==
    /\ ~loading
    /\ Schedule!EvalProbe
    /\ Probe(IF Node.probe = "until" THEN Node.until ELSE Node.set)
    /\ UNCHANGED runLoopVars

ControlStep ==
    /\ ~loading
    /\ Schedule!Interpret
    /\ ~Schedule!Evaluating("run")
    /\ UNCHANGED runLoopVars

WorkStep ==
    /\ BeginApply \/ Apply \/ EndEffects \/ RepairRun
    /\ UNCHANGED scheduleVars

EndStep == PublishRun /\ Schedule!EndRun(changed)

Bootstrap == (Load \/ EndLoad) /\ UNCHANGED scheduleVars

Restart == Resume /\ UNCHANGED scheduleVars

ExecutorStep == BeginStep \/ ProbeStep \/ ControlStep \/ WorkStep \/ EndStep

NextExecutor == Bootstrap \/ ExecutorStep \/ Restart

(* execute() is one thread that loops until the task stack is empty; the    *)
(* initial database is finite.  Nothing makes a checkpoint happen.          *)
SpecExecutor ==
    /\ InitExecutor
    /\ [][NextExecutor]_executorVars
    /\ WF_executorVars(EndLoad /\ UNCHANGED scheduleVars)
    /\ WF_executorVars(ExecutorStep)

------------------------------------------------------------------------------
(* Applying one operation to env again would change nothing; Result is the  *)
(* environment after it.                                                    *)
KeyIn(op, env) == [i \in DOMAIN op.args |-> Canon(env[op.args[i]])]
Hits(op, env) == {f \in FactRefs : First(f, Matching(op.table, KeyIn(op, env)))}
Settled(op, env) ==
    CASE op.op = "union" -> Canon(env[op.args[1]]) = Canon(env[op.args[2]])
      [] op.op = "let"   -> Hits(op, env) # {}
      [] op.op = "set"   -> \E f \in Hits(op, env) :
                              op.table \in Constructors
                              => Row(f).value = Canon(env[op.value])
Result(op, env) ==
    IF op.op = "let"
    THEN Put(env, op.dst, Row(CHOOSE f \in FactRefs : f \in Hits(op, env)).value)
    ELSE env
Inert(r, env) ==
    LET state[i \in 0..Len(Body[r])] ==
            IF i = 0 THEN [ok |-> TRUE, env |-> env]
            ELSE IF ~state[i - 1].ok \/ ~Settled(Body[r][i], state[i - 1].env)
                 THEN [ok |-> FALSE, env |-> env]
            ELSE [ok |-> TRUE, env |-> Result(Body[r][i], state[i - 1].env)]
    IN  state[Len(Body[r])].ok

(* A saturation stops at a fixpoint: when it is left, no binding of any     *)
(* rule its last pass ran, new or old, would change the graph (Saturate,    *)
(* changed, watermarks, deliver).  Stated of rules that do not hide rows.   *)
SaturatedIsFixpoint ==
    (~loading /\ Schedule!Popping("saturate")
              /\ ~Schedule!ChangedSince(Schedule!Top.start)) =>
        \A i \in (Schedule!Top.start + 1)..Len(steps) :
            \A r \in Range(steps[i].ruleset) :
                \A env \in AllBindings(r) : Inert(r, env)

(* Rules that can only build finitely many rows saturate: no Run reports a  *)
(* change it did not make, whether or not the program is resumed between.   *)
ExecutionEnds == <>Schedule!Finished

(* resume() refuses nothing a checkpoint can hold: one step per epoch, no   *)
(* watermark ahead of the epoch, no task that starts after the last step,   *)
(* and every class points at an older one.                                  *)
CheckpointAccepted ==
    running = None =>
        /\ Len(steps) = epoch
        /\ \A r \in Rules : watermarks[r] <= epoch
        /\ \A n \in DOMAIN tasks :
            tasks[n].task # "eval" => tasks[n].start <= Len(steps)
        /\ \A i \in Ids : root[i] <= i
==============================================================================
