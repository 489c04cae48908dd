------------------------------ MODULE WalletAuth ------------------------------
(***************************************************************************)
(* Wallet sign-in for one wallet: NonceController.issueNonce and            *)
(* AuthService.verifyWallet (apps/api/src/auth).  Nonce and failure counter *)
(* are two Redis keys of the wallet; a verification reads and deletes them  *)
(* with separate awaited commands, between which other verifications and    *)
(* new nonces come.                                                        *)
(***************************************************************************)
EXTENDS Integers, FiniteSets

CONSTANTS Verifiers,     \* verification requests, each made once
          MaxNonce,      \* bound on the nonces issued
          MaxAttempts,   \* MAX_NONCE_ATTEMPTS
          NonceTtl       \* 120 s, in ticks

ASSUME AuthAssumption == MaxNonce \in Nat /\ MaxAttempts \in Nat \ {0, 1} /\ NonceTtl \in Nat \ {0}

VARIABLES nonce,         \* [id, ttl]: the stored nonce, id = 0 when the key is absent
          attempts,      \* [n, ttl]: the failure counter, n = 0 when absent, ttl = 0 when it has none
          lastNonce,     \* the nonces issued so far are 1..lastNonce
          verif,         \* [request |-> [at, nonce, ttl]]
          authLost       \* history: a verification was cut off after it had counted a failure

authVars == <<nonce, attempts, lastNonce, verif, authLost>>

NoNonce == [id |-> 0, ttl |-> 0]
NoAttempts == [n |-> 0, ttl |-> 0]

AuthInit == /\ nonce = NoNonce /\ attempts = NoAttempts /\ lastNonce = 0
            /\ verif = [v \in Verifiers |-> [at |-> "none", nonce |-> 0, ttl |-> 0]]
            /\ authLost = FALSE

Goes(v, at) == verif' = [verif EXCEPT ![v].at = at]

(* issueNonce: SET with EX replaces the nonce; the counter of failures stays. *)
IssueNonce ==
  /\ lastNonce < MaxNonce
  /\ lastNonce' = lastNonce + 1
  /\ nonce' = [id |-> lastNonce + 1, ttl |-> NonceTtl]
  /\ UNCHANGED <<attempts, verif, authLost>>

(* verifyWallet up to the first command after its GET: unknown, mismatch, signature. *)
Present(v) ==
  \E n \in 1..lastNonce, signed \in BOOLEAN :
    /\ verif[v].at = "none"
    /\ verif' = [verif EXCEPT ![v] =
         [at |-> CASE nonce.id = 0              -> "refused"
                   [] nonce.id = n /\ signed    -> "consume"
                   [] OTHER                     -> "count",
          nonce |-> n, ttl |-> 0]]
    /\ UNCHANGED <<nonce, attempts, lastNonce, authLost>>

(* Variant: the limit is passed, not reached. *)
PastLimit(n) == n > MaxAttempts
AtLimit(n) == n >= MaxAttempts
IsFirst(n) == n = 1

(* registerFailedAttempt: INCR, and for the first failure TTL and EXPIRE. *)
CountFailure(v) ==
  /\ verif[v].at = "count"
  /\ attempts' = [attempts EXCEPT !.n = @ + 1]
  /\ Goes(v, CASE IsFirst(attempts.n + 1) -> "ttl"
               [] AtLimit(attempts.n + 1) -> "purge"
               [] OTHER                   -> "refused")
  /\ UNCHANGED <<nonce, lastNonce, authLost>>

ReadNonceTtl(v) ==
  /\ verif[v].at = "ttl"
  /\ verif' = [verif EXCEPT ![v].at = "arm", ![v].ttl = IF nonce.ttl > 0 THEN nonce.ttl ELSE NonceTtl]
  /\ UNCHANGED <<nonce, attempts, lastNonce, authLost>>

ArmAttempts(v) ==
  /\ verif[v].at = "arm"
  /\ attempts' = IF attempts.n = 0 THEN attempts ELSE [attempts EXCEPT !.ttl = verif[v].ttl]
  /\ Goes(v, IF AtLimit(1) THEN "purge" ELSE "refused")
  /\ UNCHANGED <<nonce, lastNonce, authLost>>

(* At the limit: DEL of the nonce, whichever is stored by now, then DEL of the counter. *)
PurgeNonce(v) == /\ verif[v].at = "purge" /\ nonce' = NoNonce /\ Goes(v, "purge2")
                 /\ UNCHANGED <<attempts, lastNonce, authLost>>
PurgeAttempts(v) == /\ verif[v].at = "purge2" /\ attempts' = NoAttempts /\ Goes(v, "refused")
                    /\ UNCHANGED <<nonce, lastNonce, authLost>>

(* Success: DEL of the nonce, DEL of the counter, then the token. *)
ConsumeNonce(v) ==
  /\ verif[v].at = "consume"
  /\ nonce' = NoNonce /\ Goes(v, "clear")
  /\ UNCHANGED <<attempts, lastNonce, authLost>>
ClearAttempts(v) == /\ verif[v].at = "clear" /\ attempts' = NoAttempts /\ Goes(v, "token")
                    /\ UNCHANGED <<nonce, lastNonce, authLost>>

(* A command fails, or the process dies: the request ends where it is. *)
CutOff(v) ==
  /\ verif[v].at \notin {"none", "refused", "token", "cut"}
  /\ authLost' = (authLost \/ verif[v].at \in {"ttl", "arm", "purge", "purge2"})
  /\ Goes(v, "cut")
  /\ UNCHANGED <<nonce, attempts, lastNonce>>

AuthTick ==
  /\ nonce.ttl > 0 \/ attempts.ttl > 0
  /\ nonce' = IF nonce.ttl <= 1 THEN NoNonce ELSE [nonce EXCEPT !.ttl = @ - 1]
  /\ attempts' = CASE attempts.ttl = 0 -> attempts
                   [] attempts.ttl = 1 -> NoAttempts
                   [] OTHER            -> [attempts EXCEPT !.ttl = @ - 1]
  /\ UNCHANGED <<lastNonce, verif, authLost>>

VerifyStep(v) == \/ CountFailure(v) \/ ReadNonceTtl(v) \/ ArmAttempts(v) \/ PurgeNonce(v)
                 \/ PurgeAttempts(v) \/ ConsumeNonce(v) \/ ClearAttempts(v)
AuthNext == \/ IssueNonce \/ AuthTick
            \/ \E v \in Verifiers : Present(v) \/ VerifyStep(v) \/ CutOff(v)

AuthSpec == AuthInit /\ [][AuthNext]_authVars

(***************************************************************************)
(* Properties                                                              *)
(***************************************************************************)

(* "Atomically delete the nonce so it cannot be reused" (auth.service.ts:60): of the            *)
(* verifications that present one nonce, however they overlap, at most one gets its token.      *)
NonceSingleUse ==
  \A v, w \in Verifiers :
    verif[v].at = "token" /\ verif[w].at = "token" /\ verif[v].nonce = verif[w].nonce => v = w

(* A counter at its limit has somebody about to remove the nonce, unless he was cut off.      *)
LockoutPending ==
  attempts.n >= MaxAttempts => authLost \/ \E v \in Verifiers : verif[v].at \in {"purge", "purge2"}

(* Unless a verification was cut off, a failure counter without expiry is about to get one:   *)
(* old failures do not count against the nonces of another day.                               *)
FailuresFade ==
  attempts.n > 0 /\ attempts.ttl = 0 =>
    authLost \/ \E v \in Verifiers : verif[v].at \in {"ttl", "arm"}

(* The failure counter neither stays at its limit nor stays for ever.                         *)
AuthInv == LockoutPending /\ FailuresFade
=============================================================================
