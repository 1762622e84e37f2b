---------------------------- MODULE MCAgentRuntime ----------------------------
(* Invoke with the attempts and rounds of the code, two sizes of responses  *)
(* and up to two tool_use blocks in one.                                    *)
EXTENDS AgentRuntime
=============================================================================
