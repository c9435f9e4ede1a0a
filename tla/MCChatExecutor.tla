----------------------------- MODULE MCChatExecutor -----------------------------
(* Instances of ChatExecutor for TLC.                                      *)
EXTENDS ChatExecutor, TLC

AllProtocols == {"claude", "openai", "responses", "buffered"}
==============================================================================
