----------------------------- MODULE SagaLibrary -----------------------------
(***************************************************************************)
(* The in-process saga orchestrator of the shared library: it runs the     *)
(* steps of a saga one after the other in the caller's goroutine, retries  *)
(* a step that fails, writes the instance to its store after each step,    *)
(* and when a step gives up or the saga's deadline passes runs the         *)
(* compensations of the completed steps in reverse.  Writes that fail are  *)
(* logged.  After a crash a caller may resume the saga from the stored     *)
(* instance.  A step's data is that it was learnt.                         *)
(***************************************************************************)
EXTENDS Integers, FiniteSets

CONSTANTS
  Length,        \* number of steps
  Compensable,   \* steps with a compensation
  Retries,
  MaxCrashes,    \* bound on crashes
  MaxLost        \* bound on updates that fail

ASSUME LibraryAssumption ==
  /\ Length \in Nat /\ Compensable \subseteq 1..Length
  /\ Retries \in Nat /\ MaxCrashes \in Nat /\ MaxLost \in Nat

VARIABLES
  stored,   \* the instance in the store
  runner,   \* the goroutine that executes or resumes the saga
  takes,    \* steps whose effect stands
  crashes,
  lost      \* how many updates failed

libVars == <<stored, runner, takes, crashes, lost>>

LibStep == 1..Length
NoInstance == [status |-> "none"]
NewInstance == [status |-> "pending", current |-> 1, results |-> [s \in LibStep |-> "none"], data |-> {}]
LibInstance ==
  [status : {"pending", "running", "completed", "compensating", "compensated"}, current : 1..(Length + 1),
   results : [LibStep -> {"none", "completed", "failed", "compensated"}], data : SUBSET LibStep]
Resting == [at |-> "resting"]
\* "undo" counts down the steps to compensate; "late" is a context that has ended.
Running ==
  [at : {"start", "check", "try", "record", "compensate", "undo", "finish"}, instance : LibInstance,
   tries : 0..Retries, undo : 0..Length, ok : BOOLEAN, late : BOOLEAN]

LibraryTypeOK ==
  /\ stored \in LibInstance \union {NoInstance}
  /\ runner \in Running \union {Resting}
  /\ takes \subseteq LibStep
  /\ crashes \in 0..MaxCrashes
  /\ lost \in 0..MaxLost

LibraryInit ==
  /\ stored = NoInstance
  /\ runner = Resting
  /\ takes = {}
  /\ crashes = 0
  /\ lost = 0

Inst == runner.instance
Begins(inst, at) ==
  runner' = [at |-> at, instance |-> inst, tries |-> 0, undo |-> Length, ok |-> FALSE, late |-> FALSE]

\* store.Update, whose failure is only logged.
Store(inst) ==
  \/ stored' = inst /\ UNCHANGED lost
  \/ lost < MaxLost /\ lost' = lost + 1 /\ UNCHANGED stored

(***************************************************************************)
(* Executing                                                               *)
(***************************************************************************)
Execute ==
  /\ stored = NoInstance
  /\ runner = Resting
  /\ stored' = NewInstance
  /\ Begins(NewInstance, "start")
  /\ UNCHANGED <<takes, crashes, lost>>

\* Resume goes on with a saga that was interrupted; one that has ended is left.
Resume ==
  /\ runner = Resting
  /\ stored # NoInstance
  /\ \/ stored.status \in {"pending", "running"} /\ Begins(stored, "start")
     \/ stored.status = "compensating" /\ Begins(stored, "compensate")
  /\ UNCHANGED <<stored, takes, crashes, lost>>

StartSteps ==
  /\ runner # Resting /\ runner.at = "start"
  /\ LET inst == [Inst EXCEPT !.status = "running"]
     IN Store(inst) /\ runner' = [runner EXCEPT !.at = "check", !.instance = inst]
  /\ UNCHANGED <<takes, crashes>>

\* Before each step the context is looked at; a completed step is passed over.
CheckStep ==
  /\ runner # Resting /\ runner.at = "check"
  /\ LET i == Inst.current
     IN runner' =
          IF i > Length THEN [runner EXCEPT !.at = "finish", !.ok = TRUE]
          ELSE IF runner.late THEN [runner EXCEPT !.at = "compensate"]
          ELSE IF Inst.results[i] = "completed" THEN [runner EXCEPT !.instance.current = i + 1]
          ELSE [runner EXCEPT !.at = "try", !.tries = 0]
  /\ UNCHANGED <<stored, takes, crashes, lost>>

\* One attempt: a step that fails may have taken effect.
TryStep ==
  /\ runner # Resting /\ runner.at = "try"
  /\ \/ takes' = takes \union {Inst.current} /\ runner' = [runner EXCEPT !.at = "record", !.ok = TRUE]
     \/ /\ \/ takes' = takes \union {Inst.current}
           \/ UNCHANGED takes
        /\ runner' = IF runner.tries < Retries THEN [runner EXCEPT !.tries = @ + 1]
                     ELSE [runner EXCEPT !.at = "record", !.ok = FALSE]
  /\ UNCHANGED <<stored, crashes, lost>>

\* The instance is stored with the result, and learns the step's data after that.
RecordStep ==
  /\ runner # Resting /\ runner.at = "record"
  /\ LET i == Inst.current
         inst == [Inst EXCEPT !.results[i] = IF runner.ok THEN "completed" ELSE "failed"]
     IN /\ Store(inst)
        /\ runner' =
             IF runner.ok
             THEN [runner EXCEPT !.at = "check", !.instance = [inst EXCEPT !.data = @ \union {i}, !.current = i + 1]]
             ELSE [runner EXCEPT !.at = "compensate", !.instance = inst]
  /\ UNCHANGED <<takes, crashes>>

\* The saga's deadline passes or its caller gives up.
ContextEnds ==
  /\ runner # Resting
  /\ ~runner.late
  /\ runner' = [runner EXCEPT !.late = TRUE]
  /\ UNCHANGED <<stored, takes, crashes, lost>>

(***************************************************************************)
(* Compensating                                                            *)
(***************************************************************************)
\* Mutant: the saga is first compensated and then marked as compensating.
MarkLate ==
  /\ runner # Resting /\ runner.at = "compensate"
  /\ runner' = [runner EXCEPT !.at = "undo", !.undo = Length, !.instance.status = "compensating"]
  /\ UNCHANGED <<stored, takes, crashes, lost>>

MarkCompensating ==
  /\ runner # Resting /\ runner.at = "compensate"
  /\ LET inst == [Inst EXCEPT !.status = "compensating"]
     IN Store(inst) /\ runner' = [runner EXCEPT !.at = "undo", !.undo = Length, !.instance = inst]
  /\ UNCHANGED <<takes, crashes>>

\* The compensation runs under the saga's context; one that fails is logged.
UndoStep ==
  /\ runner # Resting /\ runner.at = "undo"
  /\ LET i == runner.undo
     IN IF i = 0 THEN UNCHANGED takes /\ runner' = [runner EXCEPT !.at = "finish", !.ok = FALSE]
        ELSE IF Inst.results[i] # "completed" \/ i \notin Compensable
        THEN UNCHANGED takes /\ runner' = [runner EXCEPT !.undo = i - 1]
        ELSE \/ /\ takes' = takes \ {i}
                /\ runner' = [runner EXCEPT !.undo = i - 1, !.instance.results[i] = "compensated"]
             \/ /\ \/ takes' = takes \ {i}
                   \/ UNCHANGED takes
                /\ runner' = [runner EXCEPT !.undo = i - 1, !.instance.results[i] = "failed"]
  /\ UNCHANGED <<stored, crashes, lost>>

Finish ==
  /\ runner # Resting /\ runner.at = "finish"
  /\ Store([Inst EXCEPT !.status = IF runner.ok THEN "completed" ELSE "compensated"])
  /\ runner' = Resting
  /\ UNCHANGED <<takes, crashes>>

Crash ==
  /\ runner # Resting
  /\ crashes < MaxCrashes
  /\ crashes' = crashes + 1
  /\ runner' = Resting
  /\ UNCHANGED <<stored, takes, lost>>

LibraryNext ==
  \/ Execute \/ Resume \/ StartSteps \/ CheckStep \/ TryStep \/ RecordStep
  \/ ContextEnds \/ MarkCompensating \/ UndoStep \/ Finish \/ Crash

LibrarySpec == LibraryInit /\ [][LibraryNext]_libVars

(***************************************************************************)
(* Properties                                                              *)
(***************************************************************************)
\* What the store says of an ended saga is so, whatever crashes, resumptions,
\* retries and deadlines came before: of a completed saga every step stands, unless
\* an update was lost, and of a compensated one no step that is recorded as
\* compensated stands and no step that could be undone is left completed.
EndsAsStored ==
  /\ stored.status = "completed" /\ lost = 0 => takes = LibStep
  /\ stored.status = "compensated" =>
       \A s \in LibStep :
         /\ stored.results[s] = "compensated" => s \notin takes
         /\ stored.results[s] = "completed" => s \notin Compensable
=============================================================================
