------------------------------- MODULE MCCorpusRun -------------------------------
(* Finite instances of CorpusRun: two clients of the teacher in the first  *)
(* round, one deficit in a top-up round.                                   *)
EXTENDS CorpusRun

CONSTANTS c1, c2, fits, schema, state

(* A shard whose rows pass, too few of them for a second split; one whose  *)
(* rows fail one contract; and one whose rows fail several.                *)
MCInitialContents ==
  {[train |-> {fits}, val |-> {}], [train |-> {schema}, val |-> {schema}],
   [train |-> {schema, state}, val |-> {schema, state}]}
MCTopUpContents == {[train |-> {fits}, val |-> {}], [train |-> {schema}, val |-> {}]}
=============================================================================
