------------------------------- MODULE Schedule -------------------------------
(***************************************************************************)
(* The schedule interpreter of engine/cell-runtime (schedule.rs and        *)
(* Executor::execute_until): a stack of continuations, so that a           *)
(* checkpoint between two Runs is only data, and the list of finished      *)
(* Runs, which tells a repeat or a saturation whether its body changed     *)
(* anything.                                                               *)
(*                                                                         *)
(* A node is [op |-> "run", set, probe], [op |-> "sequence", children],    *)
(* [op |-> "repeat", count, body] or [op |-> "saturate", body].  probe is  *)
(* "none", "until" (run unless a probe matches) or "assert" (probe only).  *)
(* Source paths and iteration numbers only label the steps; left out.      *)
(***************************************************************************)
EXTENDS Integers, Sequences

CONSTANTS
    Control,    \* the program's control list
    None,       \* no Run is under way
    Sets        \* rulesets

VARIABLES
    tasks,      \* the stack of continuations, top last
    steps,      \* finished Runs: the ruleset and whether the graph changed
    running     \* the ruleset of the Run under way, or None

------------------------------------------------------------------------------
Eval(node) == [task |-> "eval", node |-> node]
Repeat(body, count, next, start) ==
    [task |-> "repeat", body |-> body, count |-> count, next |-> next,
     start |-> start]
Saturate(body, start) == [task |-> "saturate", body |-> body, start |-> start]

(* The stack on which the first of the nodes is on top. *)
Pushed(nodes) ==
    [i \in 1..Len(nodes) |-> Eval(nodes[Len(nodes) + 1 - i])]

InitSchedule ==
    /\ tasks = Pushed(Control)
    /\ steps = <<>>
    /\ running = None

Top == tasks[Len(tasks)]
Rest == SubSeq(tasks, 1, Len(tasks) - 1)
Popping(kind) == running = None /\ tasks # <<>> /\ Top.task = kind
Evaluating(op) == Popping("eval") /\ Top.node.op = op
ChangedSince(start) == \E i \in (start + 1)..Len(steps) : steps[i].changed

------------------------------------------------------------------------------
(* run(): the Run itself is somebody else's step; EndRun follows it.        *)
EvalRun ==
    /\ Evaluating("run")
    /\ Top.node.probe # "assert"
    /\ running' = Top.node.set
    /\ tasks' = Rest
    /\ UNCHANGED steps

(* The probe of an `until` found something, or that of an assert did; an    *)
(* assert that finds nothing ends the program.                              *)
EvalProbe ==
    /\ Evaluating("run")
    /\ Top.node.probe # "none"
    /\ tasks' = Rest
    /\ UNCHANGED <<steps, running>>

EvalSequence ==
    /\ Evaluating("sequence")
    /\ tasks' = Rest \o Pushed(Top.node.children)
    /\ UNCHANGED <<steps, running>>

EvalRepeat ==
    /\ Evaluating("repeat")
    /\ tasks' = IF Top.node.count > 0
                THEN Append(Rest, Repeat(Top.node.body, Top.node.count, 0,
                                         Len(steps)))
                ELSE Rest
    /\ UNCHANGED <<steps, running>>

EvalSaturate ==
    /\ Evaluating("saturate")
    /\ tasks' = Rest \o << Saturate(Top.node.body, Len(steps)),
                           Eval(Top.node.body) >>
    /\ UNCHANGED <<steps, running>>

(* Mutant: the loop runs once more after its count is reached. *)
RepeatAgainOneMore ==
    /\ Popping("repeat")
    /\ tasks' =
        IF (Top.next > 0 /\ ~ChangedSince(Top.start)) \/ Top.next > Top.count
        THEN Rest
        ELSE Rest \o << Repeat(Top.body, Top.count, Top.next + 1, Len(steps)),
                        Eval(Top.body) >>
    /\ UNCHANGED <<steps, running>>

(* A repeat also ends early, after a pass that changed nothing. *)
RepeatAgain ==
    /\ Popping("repeat")
    /\ tasks' =
        IF (Top.next > 0 /\ ~ChangedSince(Top.start)) \/ Top.next = Top.count
        THEN Rest
        ELSE Rest \o << Repeat(Top.body, Top.count, Top.next + 1, Len(steps)),
                        Eval(Top.body) >>
    /\ UNCHANGED <<steps, running>>

(* Mutant: every pass is measured from the start of the first. *)
SaturateAgainFromFirst ==
    /\ Popping("saturate")
    /\ tasks' = IF ChangedSince(Top.start)
                THEN Rest \o << Top, Eval(Top.body) >>
                ELSE Rest
    /\ UNCHANGED <<steps, running>>

SaturateAgain ==
    /\ Popping("saturate")
    /\ tasks' = IF ChangedSince(Top.start)
                THEN Rest \o << Saturate(Top.body, Len(steps)), Eval(Top.body) >>
                ELSE Rest
    /\ UNCHANGED <<steps, running>>

Interpret ==
    \/ EvalRun \/ EvalProbe
    \/ EvalSequence \/ EvalRepeat \/ EvalSaturate
    \/ RepeatAgain \/ SaturateAgain

(* Mutant: a Run that changed nothing leaves no step. *)
EndRunIfChanged(changed) ==
    /\ running # None
    /\ steps' = IF changed
                THEN Append(steps, [ruleset |-> running, changed |-> changed])
                ELSE steps
    /\ running' = None
    /\ UNCHANGED tasks

EndRun(changed) ==
    /\ running # None
    /\ steps' = Append(steps, [ruleset |-> running, changed |-> changed])
    /\ running' = None
    /\ UNCHANGED tasks

Finished == tasks = <<>> /\ running = None
==============================================================================
