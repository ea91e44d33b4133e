-------------------------------- MODULE MCRun --------------------------------
(* Model-checking instance of AgentRun: the plugin chain and the sessions a  *)
(* run may find: an empty one, and one an aborted run left with one of two   *)
(* calls answered.                                                           *)
EXTENDS AgentRun

OtherThenHitl == <<"other", "hitl">>

Sessions ==
    {<<>>, <<Message("assistant", {<<0, 1>>, <<0, 2>>}), Message("tool", {<<0, 1>>})>>}
=============================================================================
