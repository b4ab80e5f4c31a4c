------------------------------ MODULE Resolution ------------------------------
(*****************************************************************************)
(* What the analysis of a program promises, whatever the order in which it   *)
(* finds the declarations: each is started at most once; it becomes known,   *)
(* for good, only after all it needs are known; and the analysis ends        *)
(* successfully only if nothing was complained about and all it started are  *)
(* known (but for those that are only ever interpreted).                     *)
(*****************************************************************************)
CONSTANT Declaration

VARIABLES
  needs,      \* what one must know before a declaration is known (fixed)
  exempt,     \* declarations that comptime only interprets (fixed)
  started,    \* the declarations whose analysis has begun
  known,      \* those whose type (and value) others may use
  complained, \* an error was reported
  outcome     \* "run", "done" or "aborted"

pvars == <<needs, exempt, started, known, complained, outcome>>

Start ==
  /\ needs \in [Declaration -> SUBSET Declaration]
  /\ exempt \subseteq Declaration
  /\ started = {} /\ known = {}
  /\ complained = FALSE
  /\ outcome = "run"

(* One step of the analysis: it may begin a declaration, publish one and     *)
(* complain, at once; it takes nothing back.                                 *)
Progress ==
  /\ outcome = "run" /\ outcome' = "run"
  /\ \/ started' = started
     \/ \E d \in Declaration \ started : started' = started \cup {d}
  /\ \/ known' = known
     \/ \E d \in started' \ known :
          known' = known \cup {d} /\ needs[d] \subseteq known'
  /\ complained' \in {complained, TRUE}
  /\ UNCHANGED <<needs, exempt>>

Succeed ==
  /\ outcome = "run" /\ ~complained
  /\ started \ exempt \subseteq known
  /\ outcome' = "done"
  /\ UNCHANGED <<needs, exempt, started, known, complained>>

Fail ==
  /\ outcome = "run" /\ complained
  /\ outcome' = "done"
  /\ UNCHANGED <<needs, exempt, started, known, complained>>

Abort ==
  /\ outcome = "run"
  /\ outcome' = "aborted"
  /\ UNCHANGED <<needs, exempt, started, known, complained>>

Resolve == Start /\ [][Progress \/ Succeed \/ Fail \/ Abort]_pvars

===============================================================================
