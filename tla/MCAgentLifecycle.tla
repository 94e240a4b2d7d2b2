-------------------------- MODULE MCAgentLifecycle --------------------------
(* AgentLifecycle with two pod CIDRs and two shims at a time.              *)
EXTENDS AgentLifecycle
=============================================================================
