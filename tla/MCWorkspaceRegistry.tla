------------------------- MODULE MCWorkspaceRegistry -------------------------
(***************************************************************************)
(* Two workspaces over two roots, and three codebases: enough to close a   *)
(* codebase that both workspaces belong to.                                *)
(***************************************************************************)
EXTENDS WorkspaceRegistry, TLC

IdentifierSymmetry == Permutations(Workspaces) \cup Permutations(Codebases)
                      \cup Permutations(Roots) \cup Permutations(Ops)

\* What the registry does after one of the named incidents is another run's question.
UntilIncident == incidents = {}

=============================================================================
