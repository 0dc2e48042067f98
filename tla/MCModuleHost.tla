----------------------------- MODULE MCModuleHost -----------------------------
(* ModuleHost on the pipeline of MCPipeline: an instrumented, a certified and *)
(* an unsupported allocation domain, and a domain no Unit declares.          *)
EXTENDS ModuleHost, MCPipeline

MCEvidence == [rust |-> "instrumented", gpu |-> "certified", io |-> "unsupported"]
MCProbeLists ==
  {<<>>, <<"rust">>, <<"gpu", "rust">>, <<"io", "rust">>, <<"rust", "rust">>, <<"rust", "other">>}
==============================================================================
