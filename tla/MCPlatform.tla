----------------------------- MODULE MCPlatform -----------------------------
(***************************************************************************)
(* Sources with their builds, an egress policy with its credential, and    *)
(* identity with one mix of operations in flight at a time.  They share no *)
(* row: a behaviour exercises the one that Init chooses.                   *)
(***************************************************************************)
EXTENDS AgentSources, Identity, EgressPolicies, TLC

VARIABLE part

Archive(slug, semver, safe) == [slug |-> slug, semver |-> semver, safe |-> safe]
MCArchives == {Archive("s1", "1", TRUE), Archive("s1", "1", FALSE), Archive("s2", "2", TRUE)}

Mixes == [accounts |-> {"login", "read", "logout"},
          keys |-> {"key", "insert", "revoke", "read", "project"},
          tenants |-> {"organization", "role", "project", "logout"}]

Init ==
  /\ SourceInit /\ IdentityInit /\ PolicyInit
  /\ part \in DOMAIN Mixes \cup {"sources", "policies"}

Next ==
  /\ UNCHANGED part
  /\ \/ part = "sources" /\ SourceNext /\ UNCHANGED <<identityVars, policyVars>>
     \/ part = "policies" /\ PolicyNext /\ UNCHANGED <<sourceVars, identityVars>>
     \/ /\ part \in DOMAIN Mixes /\ IdentityNext /\ UNCHANGED <<sourceVars, policyVars>>
        /\ \A c \in Clients : call'[c].op \in Mixes[part] \cup {"none"}

Spec == Init /\ [][Next]_<<part, sourceVars, identityVars, policyVars>>

\* The parts use the same model values for their callers, and for objects and sessions,
\* so that one group of permutations serves all.
Alike == Permutations(Callers) \cup Permutations(Objects)
=============================================================================
