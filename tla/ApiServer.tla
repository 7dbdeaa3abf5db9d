----------------------------- MODULE ApiServer -----------------------------
(***************************************************************************)
(* The API's processes: wallet sign-in (AuthChallenges), the owner's       *)
(* requests and the calls with API keys (ApiKeys) over several servers,    *)
(* and the readiness checks of one server with the provider calls they     *)
(* make (ProviderCalls).                                                   *)
(*                                                                         *)
(* The three share nothing that changes but the owner's token, so a        *)
(* behaviour takes the requests of one of them, its traffic; an owner      *)
(* whose traffic starts after the sign-in holds a token already.           *)
(***************************************************************************)
EXTENDS ApiKeys, ProviderCalls

VARIABLES
    traffic,    \* the requests this behaviour takes
    requests    \* how many requests, and changes around them, there have been

vars == <<authVars, appVars, callVars, providerVars, traffic, requests>>

Init ==
    /\ AuthInit /\ KeysInit /\ ProviderInit
    /\ traffic \in {"sign-in", "keys", "readiness"}
    /\ signedIn = (traffic = "keys")
    /\ requests = 0

Arrives(kind) ==
    /\ traffic = kind
    /\ requests < MaxRequests /\ requests' = requests + 1
    /\ UNCHANGED traffic
Id == requests + 1

\* /auth/challenge and /auth/verify
SignIn ==
    /\ Arrives("sign-in")
    /\ \E server \in Servers :
          \/ createChallenge(server)
          \/ \E n \in Nonces : BeginVerify(Id, server, n)
    /\ UNCHANGED <<appVars, callVars, providerVars>>

\* The routes behind requireAuth.
OwnerRequest ==
    /\ Arrives("keys") /\ Authenticated
    /\ \/ createAppForOwner(Id)
       \/ createApiKeyForOwner(Id)
       \/ \E status \in Statuses : updateAppForOwner(Id, status)
       \/ \E key \in KeyIds : revokeApiKeyForOwner(Id, key)
    /\ UNCHANGED <<authVars, callVars, providerVars>>

\* The routes behind requireApiKey.
KeyRequest ==
    /\ Arrives("keys")
    /\ \E server \in Servers, key \in KeyIds : BeginCall(Id, server, key)
    /\ UNCHANGED <<authVars, appVars, providerVars>>

\* /ready: checkSettlementReadiness asks the node and the indexer; each is a
\* request to the provider "ckb".
ReadinessCheck ==
    /\ Arrives("readiness")
    /\ Execute(Id)
    /\ UNCHANGED <<authVars, appVars, callVars>>

\* What happens around the requests counts as one, so that a behaviour has few.
StoreChanges ==
    \/ /\ Arrives("sign-in")
       /\ \E p \in Places : Expires(p)
       /\ UNCHANGED <<appVars, callVars, providerVars>>
    \/ /\ Arrives("keys")
       /\ LimiterChanges
       /\ UNCHANGED <<authVars, appVars, providerVars>>

Step ==
    /\ \/ VerifyStep /\ UNCHANGED <<appVars, callVars, providerVars>>
       \/ OwnerStep /\ UNCHANGED <<authVars, callVars, providerVars>>
       \/ CallStep /\ UNCHANGED <<authVars, providerVars>>
       \/ ProviderStep /\ UNCHANGED <<authVars, appVars, callVars>>
    /\ UNCHANGED <<traffic, requests>>

Next == SignIn \/ OwnerRequest \/ KeyRequest \/ ReadinessCheck \/ StoreChanges \/ Step

Spec == Init /\ [][Next]_vars

(* Sessions, rows, calls and counters keep their types, within their       *)
(* bounds.                                                                 *)
TypeOK == AuthTypeOK /\ KeysTypeOK /\ ProviderTypeOK /\ requests \in 0..MaxRequests
=============================================================================
