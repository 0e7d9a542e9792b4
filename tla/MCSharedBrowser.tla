-------------------------- MODULE MCSharedBrowser --------------------------
(* An open that takes any process and one that requires the sandbox.        *)
EXTENDS SharedBrowser

CONSTANTS a, r

MCPair == [o \in {a, r} |-> IF o = r THEN "require" ELSE "auto"]
=============================================================================
