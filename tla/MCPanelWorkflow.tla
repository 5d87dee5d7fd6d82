--------------------------- MODULE MCPanelWorkflow ---------------------------
(***************************************************************************)
(* An instance of PanelWorkflow: all workflows of three states with every  *)
(* transition and end, and every other way in which a state can be         *)
(* defined with one transition and end each.                               *)
(***************************************************************************)
EXTENDS PanelWorkflow

Def(type, transition, end, produce, filter) ==
  [type |-> type, transition |-> transition, end |-> end, produce |-> produce, filter |-> filter]

(* The definitions that decide where a run goes.                           *)
PathDefs ==
  {Def("inject", t, e, FALSE, FALSE) :
     t \in Names \cup {NoName}, e \in {"none", "terminate"}}

OtherDefs ==
  {Def(type, NoName, "plain", FALSE, FALSE) : type \in {"sequential", "parallel", "switch", "other"}}
  \cup {Def("inject", NoName, e, TRUE, FALSE) : e \in {"plain", "open"}}
  \cup {Def("inject", NoName, "terminate", FALSE, TRUE)}
  \cup {Def("sequential", t, "none", TRUE, FALSE) : t \in Names}

Defs == PathDefs \cup OtherDefs
=============================================================================
