------------------------------ MODULE MCMcpServer ------------------------------
(***************************************************************************)
(* The MCP server on small instances: an engineer, who may propose for qa, *)
(* and a lead, who may propose for production with the engineer's or       *)
(* nobody's approval; a rewrite of a qa file and an insert into the        *)
(* production SLO catalogue.                                               *)
(***************************************************************************)
EXTENDS McpServer, TLC

CONSTANTS s1, s2, eng, lead, rewrite, insert, wide

OneSession == {s1}
TwoSessions == {s1, s2}

BothByLead == [s \in Sessions |-> lead]

EveryCapability == [p \in Principals |-> Capabilities]
GrantedBy == [p \in Principals |-> IF p = lead THEN {"qa", "prod"} ELSE {"qa"}]
Targets == [c \in Changes |->
  IF c = insert THEN {"prod"} ELSE IF c = wide THEN {"qa", "staging"} ELSE {"qa"}]

Limits    == [k \in Capabilities |-> 2]
TwoTicks  == [k \in Capabilities |-> 2]

Interchangeable == Permutations(Sessions)

===============================================================================
