---------------------------- MODULE MCTurnLoop ----------------------------
(* A finite instance of TurnLoop: one reading and one mutating tool, two   *)
(* names of one record, a round with and without authorization.            *)
EXTENDS TurnLoop

CONSTANTS get, pay, byName, byId, none

MCTools == {get, pay}
MCMutating == {pay}
MCChains == {{get}, {get, pay}}
MCArgs == {byName, byId}
MCAliases == {<< byName, byId >>}

(* A payment alters what is read of the record it names by its id.         *)
MCAffects == { p \in Call \X Call : p[1].tool = pay /\ p[1].args = byId /\ p[2].args = byId }

MCPriors ==
  { << [tool |-> get, args |-> byId, success |-> TRUE, changed |-> FALSE,
        shows |-> FALSE, via |-> "action"] >> }
=============================================================================
