--------------------------- MODULE MCModuleRuntime ---------------------------
(* ModuleRuntime on the pipeline of MCPipeline. *)
EXTENDS ModuleRuntime, MCPipeline
==============================================================================
