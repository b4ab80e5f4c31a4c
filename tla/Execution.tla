------------------------------- MODULE Execution -------------------------------
(*****************************************************************************)
(* Running the blocks that UIRGen generates for a function: a machine whose  *)
(* events are the effects of the program and the ways its conditions go.     *)
(*****************************************************************************)
EXTENDS UIRGen

CONSTANT MaxOutcomes  \* conditions of a run that may go any way

VARIABLES
  function,  \* the function that runs; 0 is none
  at,        \* the block and the instruction that comes next
  trace,     \* the events so far
  returned

Event(name, way) == [name |-> name, way |-> way]
running == <<function, at, trace, returned>>

Outcomes == SelectSeq(trace, LAMBDA event : event.way # 0)
Instructions(b) == blocks[b].code
Current == Instructions(at.block)[at.index]
To(b) == [block |-> b, index |-> 1]

ExecutionInit ==
  /\ Init
  /\ function = 0 /\ at = To(0) /\ trace = <<>> /\ returned = FALSE

Generate == Next /\ UNCHANGED running

Call ==
  /\ Generated /\ function = 0
  /\ \E f \in DOMAIN functions : function' = f /\ at' = To(functions[f].entry)
  /\ UNCHANGED <<vars, trace, returned>>

Runs(op) ==
  /\ Generated /\ function # 0 /\ ~returned
  /\ at.index <= Len(Instructions(at.block)) /\ Current.op = op
  /\ UNCHANGED <<vars, function>>

Effect ==
  /\ Runs("do")
  /\ trace' = Append(trace, Event(Current.name, 0))
  /\ at' = [at EXCEPT !.index = @ + 1]
  /\ UNCHANGED returned

Jump ==
  /\ Runs("br")
  /\ at' = To(Current.targets[1])
  /\ UNCHANGED <<trace, returned>>

(* A condition goes any way; once there were many, it goes the last one,     *)
(* which leaves loops.                                                       *)
Decide ==
  /\ Runs("condbr") \/ Runs("switch")
  /\ \E way \in DOMAIN Current.targets :
       /\ Len(Outcomes) < MaxOutcomes \/ way = Len(Current.targets)
       /\ trace' = Append(trace, Event(Current.name, way))
       /\ at' = To(Current.targets[way])
  /\ UNCHANGED returned

Finish ==
  /\ Runs("return")
  /\ trace' = Append(trace, Event(Current.name, 0))
  /\ returned' = TRUE
  /\ UNCHANGED at

ExecutionNext == Generate \/ Call \/ Effect \/ Jump \/ Decide \/ Finish

ExecutionSpec ==
  /\ ExecutionInit /\ [][ExecutionNext]_<<vars, running>>
  /\ WF_<<vars, running>>(ExecutionNext)

-------------------------------------------------------------------------------
(* Every program is generated and runs to a return, so that no block is left *)
(* without a terminator and no deferred statement is injected without end.   *)
EveryRunReturns == <>returned

(* A running function stays in its own blocks, and in a tidy program there   *)
(* is always an instruction to run, up to its return.                        *)
RunsInItsBlocks ==
  function # 0 =>
    /\ at.block \in DOMAIN blocks /\ blocks[at.block].owner = function
    /\ AllTidy => at.index \in DOMAIN Instructions(at.block)
    /\ returned => Current.op = "return"

===============================================================================
