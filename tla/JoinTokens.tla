------------------------------ MODULE JoinTokens ------------------------------
(***************************************************************************)
(* Teleport provision tokens as internal/pkg/teleport/token.go uses them.  *)
(*                                                                         *)
(* A token's name is a fresh UUID; here it is the token's position in the  *)
(* sequence of all tokens ever upserted, so no two tokens share a name.    *)
(* The token store of the Teleport auth server is external.                *)
(***************************************************************************)
EXTENDS KubeAgentValues

\* "live": stored, Expiry() after now.  "expired": still stored, Expiry()
\* passed.  "gone": no longer listed by GetTokens.
ProvisionToken ==
    [cluster : RegisterNames, roles : RoleLists, state : {"live", "expired", "gone"}]

\* What TeleportClient.GetTokens returns, as positions.
GetTokens(toks) == {i \in 1..Len(toks) : toks[i].state # "gone"}

\* The stored tokens whose label `cluster` is the register name.
Labelled(toks, registerName) ==
    {i \in GetTokens(toks) : toks[i].cluster = registerName}

\* Mutant: a token with more roles than expected will do.
containsRolesAtLeast(tokenRoles, expectedRoles) ==
    \A j \in 1..Len(expectedRoles) :
        \E i \in 1..Len(tokenRoles) : tokenRoles[i] = expectedRoles[j]

containsRoles(tokenRoles, expectedRoles) ==
    /\ Len(tokenRoles) = Len(expectedRoles)
    /\ \A j \in 1..Len(expectedRoles) :
         \E i \in 1..Len(tokenRoles) : tokenRoles[i] = expectedRoles[j]

IsTokenValid(toks, registerName, token, expectedRoles) ==
    /\ token \in Labelled(toks, registerName)
    /\ toks[token].state = "live"
    /\ containsRoles(toks[token].roles, expectedRoles)

\* The token GenerateToken upserts: 720h validity, labels set before the upsert.
NewProvisionToken(registerName, roles) ==
    [cluster |-> registerName, roles |-> roles, state |-> "live"]

=============================================================================
