------------------------------ MODULE MCLoading ------------------------------
(* Loading a Module Definition and building it: the parser's tree, the          *)
(* definition resolved from one, the registries and the prepared inputs.        *)
EXTENDS MCUnitRegistry, MCPreparedInputs, MCYamlDefinition

(* The four share no variable, so a property of one holds in their product      *)
(* exactly if it holds with the others at rest: part names the one that moves,  *)
(* and the sum of the state spaces is checked.                               *)
VARIABLE part

MCInit ==
  /\ RegistryInit /\ InputsInit /\ SyntaxInit /\ DefinitionInit
  /\ part \in {"registry", "inputs", "syntax", "definition"}
  /\ part # "definition" => bounds = [host |-> <<>>, adapters |-> <<>>]

MCNext ==
  /\ UNCHANGED part
  /\ \/ part = "registry" /\ RegistryNext /\ UNCHANGED <<inputVars, syntaxVars, definitionVars>>
     \/ part = "inputs" /\ InputsNext /\ UNCHANGED <<registryVars, syntaxVars, definitionVars>>
     \/ part = "syntax" /\ SyntaxNext /\ UNCHANGED <<registryVars, inputVars, definitionVars>>
     \/ part = "definition" /\ LoadDocument /\ UNCHANGED <<registryVars, inputVars, syntaxVars>>

MCSpec == MCInit /\ [][MCNext]_<<registryVars, inputVars, syntaxVars, definitionVars, part>>
==============================================================================
