----------------------------- MODULE MCPipeline -----------------------------
(***************************************************************************)
(* Instances of Pipeline for TLC.                                           *)
(***************************************************************************)
EXTENDS Pipeline, TLC

CONSTANT p1

const_OnePipeline == {p1}

const_OneName == [p \in {p1} |-> "quick-start"]

predefined(n) == [name |-> n, predefined |-> n, custom |-> "nil"]

custom(n, v) == [name |-> n, predefined |-> "nil", custom |-> v]

\* A spec of three tasks, the same in another version and order, one with a
\* template that there is not, and one with a custom task without an image.
const_Specs ==
  {<<predefined("git-clone"), custom("cat", "v1"), predefined("go-test")>>,
   <<predefined("git-clone"), predefined("go-test"), custom("cat", "v2")>>,
   <<predefined("git-clone"), predefined("go-fmt")>>,
   <<predefined("git-clone"), custom("cat", "")>>}
=============================================================================
