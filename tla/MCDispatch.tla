----------------------------- MODULE MCDispatch -----------------------------
(***************************************************************************)
(* NodeDispatch and NodeAdmission for TLC.  They share no state: every     *)
(* behaviour is one of the component that active names, the other resting  *)
(* in its initial state.  Admission may come to rest at its bounds;        *)
(* dispatch may not.                                                       *)
(***************************************************************************)
EXTENDS NodeDispatch, NodeAdmission, TLC

VARIABLE active

suiteVars == <<active, vars, admissionVars>>

SuiteInit == active \in {"dispatch", "admission"} /\ Init /\ AdmissionInit

SuiteNext ==
    \/ active = "dispatch" /\ Next /\ UNCHANGED <<active, admissionVars>>
    \/ active = "admission" /\ AdmissionNext /\ UNCHANGED <<active, vars>>
    \/ active = "admission" /\ UNCHANGED suiteVars

SuiteSpec == SuiteInit /\ [][SuiteNext]_suiteVars

-----------------------------------------------------------------------------
(* Constants.                                                              *)

CONSTANTS n1, n2

Data == <<"srv", "data">>
MCGrant == (n1 :> {"system.inspect", "fs.read", "fs.write"}) @@ (n2 :> {"fs.write"})
MCRoots == (n1 :> <<Data>>) @@ (n2 :> << <<"opt">>, <<"srv">> >>)
MCRequest ==
    {[capability |-> "system.inspect", path |-> <<>>, content |-> "none", node |-> n1],
     [capability |-> "fs.read", path |-> <<"..", "srv", ".", "data">>, content |-> "none", node |-> NoNode],
     [capability |-> "fs.write", path |-> Data \o <<"..", "f">>, content |-> "c", node |-> n2]}

Symmetry == Permutations(Session) \cup Permutations(Job)
=============================================================================
