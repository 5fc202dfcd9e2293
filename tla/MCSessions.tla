----------------------------- MODULE MCSessions -----------------------------
(* Sessions of one server: a workspace that contains a repository.         *)
EXTENDS Sessions

CONSTANTS ws, repo

MCLocated == [s \in Session |-> IF s \in Worker THEN repo ELSE ws]
MCNested == [r \in Root |-> IF r = ws THEN {repo} ELSE {}]
=============================================================================
