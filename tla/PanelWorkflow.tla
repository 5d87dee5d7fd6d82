---------------------------- MODULE PanelWorkflow ----------------------------
(***************************************************************************)
(* PanelWorkflowRunner: public/app/features/workflow/state, started by     *)
(* PanelModel.runWorkflow.  One run of a workflow that the initial states  *)
(* choose among all workflows over a set of state definitions.  A step is  *)
(* one turn of the loop of states(): the call is synchronous, nothing      *)
(* interleaves with it, and a loop that never leaves blocks the page.      *)
(* The data of the states only matters to the filters, which may throw     *)
(* (JqFilter says when); it never decides where the run goes next.         *)
(***************************************************************************)
EXTENDS Naturals, FiniteSets

CONSTANTS Names,      \* names a workflow may use for its states
          StateDefs,  \* the definitions a state may have
          EventKinds, \* the kinds its event definitions may have
          NoName      \* no transition, no start

(* A state: its type, for an operation "sequential" when the runner takes   *)
(* its actionMode and "parallel" when it does not; its transition          *)
(* (nextState); its end: "none", "plain" (true), "terminate" (an object    *)
(* with terminate) or "open" (an object without); whether its transition   *)
(* or end has produceEvents; whether it filters its data.                  *)
StateDef ==
  [type: {"inject", "sequential", "parallel", "switch", "other"},
   transition: Names \cup {NoName},
   end: {"none", "plain", "terminate", "open"},
   produce: BOOLEAN,
   filter: BOOLEAN]

ASSUME PanelWorkflowAssumption ==
  /\ NoName \notin Names
  /\ StateDefs \subseteq StateDef

VARIABLES
  defs,       \* workflow.states by name: a function from some of Names
  start,      \* workflow.start
  kinds,      \* the kinds of workflow.events
  pc,         \* "idle", "running", "done" or "failed"
  error,      \* why it failed
  current,    \* currentState
  terminate,
  visited,    \* the names of the states executed to their end
  published   \* the names of the states whose events were published

workflow == <<defs, start, kinds>>
vars == <<defs, start, kinds, pc, error, current, terminate, visited, published>>

Errors == {"none", "eventKind", "noStart", "noEnd", "notFound", "both", "type", "mode",
           "filter", "noTransition"}

Init ==
  /\ \E present \in SUBSET Names : defs \in [present -> StateDefs]
  /\ start \in Names \cup {NoName}
  /\ kinds \in SUBSET EventKinds
  /\ pc = "idle"
  /\ error = "none"
  /\ current = NoName
  /\ terminate = FALSE
  /\ visited = {}
  /\ published = {}

-----------------------------------------------------------------------------
(* transitionOrEnd: a switch state has neither for the runner.             *)
Transition(d) == IF d.type = "switch" THEN NoName ELSE d.transition
End(d)        == IF d.type = "switch" THEN "none" ELSE d.end

HasEnd == \E n \in DOMAIN defs : End(defs[n]) # "none"

(* Mutant: the error is only noted. *)
FailSilently(e) ==
  /\ pc' = pc
  /\ error' = e

Fail(e) ==
  /\ pc' = "failed"
  /\ error' = e

(* start() and the checks of events() and states() before the loop.  A     *)
(* workflow is known to have an end by any of its states that has one.     *)
Start ==
  /\ pc = "idle"
  /\ \/ kinds \ {"consumed"} # {} /\ Fail("eventKind") /\ UNCHANGED current
     \/ /\ kinds \subseteq {"consumed"}
        /\ \/ start = NoName /\ Fail("noStart") /\ UNCHANGED current
           \/ start # NoName /\ ~HasEnd /\ Fail("noEnd") /\ UNCHANGED current
           \/ /\ start # NoName /\ HasEnd
              /\ pc' = "running"
              /\ current' = start
              /\ UNCHANGED error
  /\ UNCHANGED <<workflow, terminate, visited, published>>

(* A name that is no state, and what makes state() throw before its end.   *)
Defect(n) ==
  IF n \notin DOMAIN defs THEN {"notFound"}
  ELSE LET d == defs[n] IN
    IF Transition(d) # NoName /\ End(d) # "none" THEN {"both"}
    ELSE IF d.type \in {"switch", "other"} THEN {"type"}
    ELSE IF d.type = "parallel" THEN {"mode"}
    ELSE {}

StateFails ==
  /\ pc = "running"
  /\ ~terminate
  /\ \/ \E e \in Defect(current) : Fail(e)
     \/ Defect(current) = {} /\ defs[current].filter /\ Fail("filter")
  /\ UNCHANGED <<workflow, current, terminate, visited, published>>

(* Mutant: an end of either form terminates. *)
TerminatesAnyEnd(d) == Transition(d) = NoName /\ End(d) # "none"

(* Whether the end of a state makes it the last one.                       *)
Terminates(d) == Transition(d) = NoName /\ End(d) \in {"plain", "terminate"}

(* Mutants: a state is executed only once; the lack of a transition is not noticed. *)
StateRunsOnce ==
  /\ pc = "running"
  /\ ~terminate
  /\ Defect(current) = {}
  /\ LET d == defs[current]
         next == IF Transition(d) = NoName THEN current ELSE Transition(d)
     IN
     /\ visited' = visited \cup {current}
     /\ published' = IF d.produce /\ (Transition(d) # NoName \/ End(d) \in {"terminate", "open"})
                     THEN published \cup {current} ELSE published
     /\ current' = next
     /\ terminate' = Terminates(d)
     /\ IF ~Terminates(d) /\ next \in visited'
        THEN Fail("noTransition")
        ELSE UNCHANGED <<pc, error>>
  /\ UNCHANGED workflow

StateRunsAgain ==
  /\ pc = "running"
  /\ ~terminate
  /\ Defect(current) = {}
  /\ LET d == defs[current]
         next == IF Transition(d) = NoName THEN current ELSE Transition(d)
     IN
     /\ visited' = visited \cup {current}
     /\ published' = IF d.produce /\ (Transition(d) # NoName \/ End(d) \in {"terminate", "open"})
                     THEN published \cup {current} ELSE published
     /\ current' = next
     /\ terminate' = Terminates(d)
     /\ UNCHANGED <<pc, error>>
  /\ UNCHANGED workflow

(* state(), then stateTransition or stateEnd and the events they produce.  *)
(* A plain transition or end has no produceEvents.                         *)
StateRuns ==
  /\ pc = "running"
  /\ ~terminate
  /\ Defect(current) = {}
  /\ LET d == defs[current]
         next == IF Transition(d) = NoName THEN current ELSE Transition(d)
     IN
     /\ visited' = visited \cup {current}
     /\ published' = IF d.produce /\ (Transition(d) # NoName \/ End(d) \in {"terminate", "open"})
                     THEN published \cup {current} ELSE published
     /\ current' = next
     /\ terminate' = Terminates(d)
     /\ IF ~Terminates(d) /\ next = current
        THEN Fail("noTransition")
        ELSE UNCHANGED <<pc, error>>
  /\ UNCHANGED workflow

(* Mutant: the loop does not look at terminate, only at the transition. *)
FinishUnreached ==
  /\ pc = "running"
  /\ terminate \/ current \in visited
  /\ pc' = "done"
  /\ UNCHANGED <<workflow, error, current, terminate, visited, published>>

(* The loop ends: while (!this.terminate).                                 *)
Finish ==
  /\ pc = "running"
  /\ terminate
  /\ pc' = "done"
  /\ UNCHANGED <<workflow, error, current, terminate, visited, published>>

Next == Start \/ StateFails \/ StateRuns \/ Finish

Spec == Init /\ [][Next]_vars

(* JavaScript runs the call to its end.                                    *)
FairSpec == Spec /\ WF_vars(Next)

-----------------------------------------------------------------------------
TypeOK ==
  /\ \E present \in SUBSET Names : defs \in [present -> StateDefs]
  /\ start \in Names \cup {NoName}
  /\ kinds \subseteq EventKinds
  /\ pc \in {"idle", "running", "done", "failed"}
  /\ error \in Errors
  /\ pc = "failed" <=> error # "none"
  /\ current \in Names \cup {NoName}
  /\ terminate \in BOOLEAN
  /\ visited \subseteq DOMAIN defs
  /\ published \subseteq visited

(* Each state of R can be executed and leads, elsewhere, into R or ends.   *)
Sound(R) ==
  \A n \in R : /\ Defect(n) = {}
               /\ ~defs[n].filter
               /\ Terminates(defs[n]) \/ Transition(defs[n]) \in R \ {n}

(* A workflow whose states, as far as its transitions lead from its start, *)
(* are well defined never fails, however often it returns to a state and   *)
(* whatever its unreachable states are.                                    *)
SoundNeverFails ==
  /\ kinds \subseteq {"consumed"}
  /\ HasEnd
  /\ \E R \in SUBSET Names : start \in R /\ Sound(R)
  => pc # "failed"

(* A run only ends well in a state that terminates the workflow: one that  *)
(* has an end, and not an end object without terminate.                    *)
DoneAtEnd ==
  pc = "done" => /\ current \in visited
                 /\ defs[current].end \in {"plain", "terminate"}
                 /\ \A n \in visited \ {current} : Transition(defs[n]) # NoName

(* The check that some state has an end does not help a workflow whose     *)
(* transitions never lead to one: it does not end well.                    *)
EndMustBeReached ==
  (\E R \in SUBSET DOMAIN defs :
      start \in R /\ \A n \in R : Transition(defs[n]) \in R)
  => pc # "done"

(* No transitions lead back to a state: some rank falls along all of them. *)
Acyclic ==
  \E rank \in [Names -> 1..Cardinality(Names)] :
    \A n \in DOMAIN defs : LET t == Transition(defs[n]) IN
      t \notin {NoName, n} => rank[t] < rank[n]

(* Without such a cycle the synchronous loop ends and frees the page.      *)
AcyclicEnds == Acyclic => <>(pc \in {"done", "failed"})
=============================================================================
