--------------------------- MODULE AuthChallenges ---------------------------
(***************************************************************************)
(* Wallet authentication for one address: authService.ts over the stores   *)
(* of authChallengeStore.ts.                                               *)
(*                                                                         *)
(* A challenge is its nonce, counted from 1; 0 is no challenge.  Without   *)
(* Redis every server keeps its own challenges.  An expired challenge is   *)
(* the same as none: Redis drops it, the memory store at its next get.     *)
(* What a wallet's signature proves is taken as given: the check of a      *)
(* verification passes or fails.                                           *)
(***************************************************************************)
EXTENDS Naturals

CONSTANTS
    Servers,        \* API processes
    MaxChallenges   \* bound: challenges created

ASSUME ChallengesBounded == MaxChallenges \in Nat

VARIABLES
    redis,      \* is config.redisUrl set?
    challenge,  \* the challenge in each store
    created,    \* how many challenges have been created
    verifying,  \* calls of verifyChallenge in progress
    tokens,     \* how many tokens each challenge was turned into
    signedIn    \* does the owner hold a token of an earlier sign-in?

authVars == <<redis, challenge, created, verifying, tokens, signedIn>>

Nonces == 1..MaxChallenges
Places == Servers \cup {"redis"}
Place(server) == IF redis THEN "redis" ELSE server

AuthInit ==
    /\ redis \in BOOLEAN
    /\ challenge = [p \in Places |-> 0]
    /\ created = 0
    /\ verifying = {}
    /\ tokens = [n \in Nonces |-> 0]
    /\ signedIn \in BOOLEAN

\* A new challenge takes the place of the address's last one.
createChallenge(server) ==
    /\ created < MaxChallenges
    /\ created' = created + 1
    /\ challenge' = [challenge EXCEPT ![Place(server)] = created + 1]
    /\ UNCHANGED <<redis, verifying, tokens, signedIn>>

Expires(place) ==
    /\ challenge[place] # 0
    /\ challenge' = [challenge EXCEPT ![place] = 0]
    /\ UNCHANGED <<redis, created, verifying, tokens, signedIn>>

\* verifyChallenge: the store holds the message that was signed ...
BeginVerify(id, server, n) ==
    /\ challenge[Place(server)] = n
    /\ verifying' = verifying \cup {[id |-> id, server |-> server, n |-> n, pc |-> "signature"]}
    /\ UNCHANGED <<redis, challenge, created, tokens, signedIn>>

\* ... the signature is checked, which takes a while ...
CheckSignature(v) ==
    /\ v.pc = "signature"
    /\ \E next \in {{}, {[v EXCEPT !.pc = "consume"]}} : verifying' = (verifying \ {v}) \cup next
    /\ UNCHANGED <<redis, challenge, created, tokens, signedIn>>

Issue(v) ==
    /\ tokens' = [tokens EXCEPT ![v.n] = @ + 1]
    /\ verifying' = verifying \ {v}

Refuse(v) == verifying' = verifying \ {v} /\ UNCHANGED <<challenge, tokens>>

\* A seeded fault: the challenge is taken without comparing it.
ConsumeMutDelete(v) ==
    /\ redis /\ v.pc = "consume"
    /\ challenge' = [challenge EXCEPT !["redis"] = 0]
    /\ Issue(v)
    /\ UNCHANGED <<redis, created, signedIn>>

\* ... and the challenge consumed.  Redis compares and deletes in one script.
ConsumeRedis(v) ==
    /\ redis /\ v.pc = "consume"
    /\ IF challenge["redis"] = v.n
       THEN challenge' = [challenge EXCEPT !["redis"] = 0] /\ Issue(v)
       ELSE Refuse(v)
    /\ UNCHANGED <<redis, created, signedIn>>

\* The memory store awaits its own get before it deletes: other calls may come
\* between.
ConsumeGet(v) ==
    /\ ~redis /\ v.pc = "consume"
    /\ IF challenge[v.server] = v.n
       THEN /\ verifying' = (verifying \ {v}) \cup {[v EXCEPT !.pc = "delete"]}
            /\ UNCHANGED <<challenge, tokens>>
       ELSE Refuse(v)
    /\ UNCHANGED <<redis, created, signedIn>>

ConsumeDelete(v) ==
    /\ v.pc = "delete"
    /\ challenge' = [challenge EXCEPT ![v.server] = 0]
    /\ Issue(v)
    /\ UNCHANGED <<redis, created, signedIn>>

VerifyStep ==
    \E v \in verifying :
        CheckSignature(v) \/ ConsumeRedis(v) \/ ConsumeGet(v) \/ ConsumeDelete(v)

\* requireAuth: some token of the address.
Authenticated == signedIn \/ \E n \in Nonces : tokens[n] > 0

AuthTypeOK ==
    /\ challenge \in [Places -> 0..MaxChallenges]
    /\ created \in 0..MaxChallenges
    /\ \A v \in verifying : v.n \in 1..created /\ v.pc \in {"signature", "consume", "delete"}

(* With Redis, a token comes from the address's latest challenge and from  *)
(* its first use: of two verifications of one signed message, checked at   *)
(* the same time or by two servers, only one gets a token, and none when a *)
(* newer challenge was asked for in between.                               *)
LatestChallengeOnce ==
    [][\A n \in Nonces :
          (redis /\ tokens'[n] # tokens[n]) => n = created /\ tokens[n] = 0]_tokens
=============================================================================
