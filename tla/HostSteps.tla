------------------------------ MODULE HostSteps ------------------------------
(***************************************************************************)
(* What the set-up and clean-up functions of the C programs are made of: a *)
(* function is a sequence of steps, each of which creates a resource, ends *)
(* one, or makes some other call that can fail.                            *)
(*                                                                         *)
(*   does    "get", "put", "call", "exit", which ends the process, or      *)
(*           "wait", which only a failure (a signal) ends                  *)
(*   what    the resource created or ended                                 *)
(*   on      the resources it is made of or attached to                    *)
(*   sets    the handles the program holds once the step succeeded         *)
(*   if      the handles without which the step is passed over             *)
(*   fails   whether the code handles, or ignores, a failure               *)
(*   resume  how many steps further the code goes on after a failure; 0    *)
(*           when it leaves the function                                   *)
(*   undo    the steps left to run when it leaves                          *)
(*   loses   the resources no one holds a handle on after a failure        *)
(***************************************************************************)
EXTENDS Naturals, Sequences

Step(does, what) ==
    [does |-> does, what |-> what, on |-> {}, sets |-> {}, if |-> {},
     fails |-> TRUE, resume |-> 0, undo |-> << >>, loses |-> {}]

\* "Get" a resource: on failure the function is left.
Get(what, on) ==
    [Step("get", what) EXCEPT !.on = on, !.sets = {what}]

\* Part of an object whose pointer the caller gets only when all is made.
GetPart(what, on) == [Get(what, on) EXCEPT !.sets = {}]

\* A call that creates nothing but can fail.
Call(what, on) == [Step("call", what) EXCEPT !.on = on]

\* "Put" a resource if it was created; on failure go on.
Put(what) == [Step("put", what) EXCEPT !.if = {what}, !.resume = 1]

\* Put it without looking at the handle.
PutAnyway(what) == [Put(what) EXCEPT !.if = {}]

\* A call that is known to fail.
Refuse == Step("wait", "refusal")

\* The last step of a process that gives up.
Exit == [Step("exit", "process") EXCEPT !.fails = FALSE]

\* A step whose failure the callee does not report.
Sure(step) == [step EXCEPT !.fails = FALSE]

\* Calls to functions: a guard on all steps, or what is left to run when the
\* called function reports a failure.
When(handle, steps) ==
    [i \in DOMAIN steps |-> [steps[i] EXCEPT !.if = {handle}]]
OrElse(steps, undo) ==
    [i \in DOMAIN steps |-> [steps[i] EXCEPT !.undo = @ \o undo]]

\* A function that stops at its first failure and reports it to a caller that
\* goes on: the rest of its steps are passed over.
StopAtFailure(steps) ==
    [i \in DOMAIN steps |->
        [steps[i] EXCEPT !.resume = Len(steps) + 1 - i]]
==============================================================================
