----------------------------- MODULE ScheduleRuns -----------------------------
(***************************************************************************)
(* The schedule with Runs and probes that answer anything: a log of the    *)
(* answers, kept as history, is compared with what the control list        *)
(* denotes.                                                                *)
(***************************************************************************)
EXTENDS Schedule, FiniteSets

CONSTANTS
    MaxChanges,     \* bound: Runs that report a change
    MaxRuns         \* bound: Runs, more than MaxChanges of them leave room for

VARIABLE log            \* the answers so far, in order

runsVars == <<tasks, steps, running, log>>

Answer(kind, set, yes) == [kind |-> kind, set |-> set, yes |-> yes]

InitRuns == InitSchedule /\ log = <<>>

(* A Run starts; an `until` node has probed first, and found nothing. *)
Start ==
    /\ Len(steps) < MaxRuns
    /\ EvalRun
    /\ log' = IF Top.node.probe = "until"
              THEN Append(log, Answer("probe", Top.node.set, FALSE))
              ELSE log

Skip ==
    /\ EvalProbe
    /\ log' = Append(log, Answer("probe", Top.node.set, TRUE))

Finish(changed) ==
    /\ changed => Cardinality({i \in DOMAIN steps : steps[i].changed}) < MaxChanges
    /\ EndRun(changed)
    /\ log' = Append(log, Answer("run", running, changed))

Unroll ==
    /\ EvalSequence \/ EvalRepeat \/ EvalSaturate \/ RepeatAgain \/ SaturateAgain
    /\ UNCHANGED log

NextRuns ==
    \/ Start \/ Skip \/ Unroll
    \/ \E changed \in BOOLEAN : Finish(changed)

(* execute() is one thread that loops until the stack is empty. *)
SpecRuns == InitRuns /\ [][NextRuns]_runsVars /\ WF_runsVars(NextRuns)

------------------------------------------------------------------------------
(* What a node denotes, by recursion on the node and not on a stack: the    *)
(* number of answers consumed when it is done, having started after the     *)
(* first i; Cut when the log ends inside it, Wrong when the log holds an    *)
(* answer the node does not ask for.                                        *)
Cut == Len(log) + 1
Wrong == Len(log) + 2

Take(i, kind, set) ==
    IF i >= Len(log) THEN IF i = Len(log) THEN Cut ELSE i
    ELSE IF log[i + 1].kind = kind /\ log[i + 1].set = set THEN i + 1
    ELSE Wrong

DenoteRun(node, i) ==
    IF node.probe = "none" \/ i >= Len(log) THEN Take(i, "run", node.set)
    ELSE LET j == Take(i, "probe", node.set)
         IN  IF j = Wrong \/ log[j].yes THEN j
             ELSE IF node.probe = "assert" THEN Wrong
             ELSE Take(j, "run", node.set)

RECURSIVE Denote(_, _), DenoteAll(_, _), Passes(_, _, _)
DenoteAll(nodes, i) ==
    IF nodes = <<>> \/ i > Len(log) THEN i
    ELSE DenoteAll(Tail(nodes), Denote(Head(nodes), i))
(* At most `left` passes over the body (-1: no limit), ended by a pass in   *)
(* which no Run changed the graph.                                          *)
Passes(body, left, i) ==
    IF left = 0 THEN i
    ELSE LET j == Denote(body, i)
         IN  IF j > Len(log) THEN j
             ELSE IF \E n \in (i + 1)..j : log[n].kind = "run" /\ log[n].yes
                  THEN Passes(body, left - 1, j)
                  ELSE j
Denote(node, i) ==
    IF i > Len(log) THEN i
    ELSE CASE node.op = "run"      -> DenoteRun(node, i)
           [] node.op = "sequence" -> DenoteAll(node.children, i)
           [] node.op = "repeat"   -> Passes(node.body, node.count, i)
           [] node.op = "saturate" -> Passes(node.body, -1, i)

(* The stack machine runs exactly the Runs the control list denotes, in     *)
(* order, each loop left by the Runs of its last pass alone: it finishes    *)
(* only where the denotation does, and asks for a Run or a probe only where *)
(* the denotation wants one (execute_until).                                *)
FollowsControl ==
    LET done == DenoteAll(Control, 0)
    IN  /\ done # Wrong
        /\ Finished => done = Len(log)
        /\ (Evaluating("run") \/ running # None) => done = Cut

(* When Runs stop reporting changes, every saturation and repeat is left:   *)
(* no pass is measured against Runs of an earlier pass (Task::Saturate).    *)
ScheduleEnds == <>Finished
==============================================================================
