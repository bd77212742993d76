------------------------ MODULE WebhookVerification ------------------------
(***************************************************************************)
(* The way of a webhook to its handler (bank-link.service.ts handleWebhook,*)
(* plaid.provider.ts verifyWebhook), before that of an update webhook,     *)
(* WebhookDedup.                                                           *)
(*                                                                         *)
(* Plaid signs each request, a repeated one anew, and changes its key from *)
(* time to time.  The server keeps one key, the last that a request asked  *)
(* for, whichever requests are in progress; a request whose verification   *)
(* fails is answered with a 401, and Plaid repeats it.                     *)
(***************************************************************************)
EXTENDS WebhookDedup, Sequences

CONSTANTS
    MaxAge,    \* maxTokenAge
    CacheTTL,  \* JWK_CACHE_TTL_MS
    MaxKeys    \* bound on Plaid's keys

ASSUME VerificationAssumption ==
    /\ MaxAge \in Nat
    /\ CacheTTL \in Nat
    /\ MaxKeys \in Nat \ {0}

VARIABLES
    keys,    \* Plaid's keys: each was used from one time to another
    cache,   \* cachedJwk
    gate     \* requests that are verified

gateVars == <<keys, cache, gate>>
allVars == <<vars, gateVars>>

NoKey == [kid |-> 0, expiredAt |-> {}, cachedAt |-> 0]
Open == [pc |-> "none", hook |-> NoHook, kid |-> 0, iat |-> 0, key |-> 0, at |-> 0]

GateTypeOK ==
    /\ \A k \in DOMAIN keys : keys[k].from \in Nat /\ keys[k].expiredAt \subseteq Nat
    /\ cache.kid \in Nat /\ cache.expiredAt \subseteq Nat /\ cache.cachedAt \in Nat
    /\ \A h \in Handlers :
          /\ gate[h].pc \in {"none", "fetch", "verify"}
          /\ gate[h].pc # "none" =>
                /\ pc[h] = "idle"
                /\ gate[h].hook \in hooks
                /\ gate[h].kid \in DOMAIN keys

GateInit ==
    /\ Init
    /\ keys = <<[from |-> 0, expiredAt |-> {}]>>
    /\ cache = NoKey
    /\ gate = [h \in Handlers |-> Open]

(* Plaid goes over to a new key; the old one is expired.                   *)
RotateKey ==
    /\ Len(keys) < MaxKeys
    /\ keys' = Append([keys EXCEPT ![Len(keys)].expiredAt = {now}],
                      [from |-> now, expiredAt |-> {}])
    /\ UNCHANGED <<vars, cache, gate>>

SignsAt(k, t) == keys[k].from <= t /\ \A e \in keys[k].expiredAt : t <= e

Step(h, record) == gate' = [gate EXCEPT ![h] = record]

(* Mutant: whichever key is cached                                         *)
CachedAny(kid) ==
    /\ cache # NoKey
    /\ \A e \in cache.expiredAt : e > now
    /\ now < cache.cachedAt + CacheTTL

(* isCacheValid                                                            *)
Cached(kid) ==
    /\ cache.kid = kid
    /\ \A e \in cache.expiredAt : e > now
    /\ now < cache.cachedAt + CacheTTL

(* A request arrives that was signed at some time since its webhook: the   *)
(* key is the cached one, if that is valid.                                *)
Arrive(h, w, kid, iat) ==
    /\ pc[h] = "idle" /\ gate[h].pc = "none"
    /\ w.at <= iat /\ iat <= now
    /\ SignsAt(kid, iat)
    /\ LET arrived == [Open EXCEPT !.hook = w, !.kid = kid, !.iat = iat]
       IN  Step(h, IF Cached(kid) THEN [arrived EXCEPT !.pc = "verify", !.key = cache.kid]
                   ELSE [arrived EXCEPT !.pc = "fetch", !.at = now])
    /\ UNCHANGED <<vars, keys, cache>>

(* webhookVerificationKeyGet; cachedAt is the time before the call.        *)
FetchKey(h) ==
    /\ gate[h].pc = "fetch"
    /\ LET kid == gate[h].kid
       IN  /\ cache' = [kid |-> kid, expiredAt |-> keys[kid].expiredAt,
                        cachedAt |-> gate[h].at]
           /\ Step(h, [gate[h] EXCEPT !.pc = "verify", !.key = kid, !.at = 0])
    /\ UNCHANGED <<vars, keys>>

Authentic(g) == g.key = g.kid /\ now <= g.iat + MaxAge

(* jwtVerify accepts; handleWebhook calls the handler.                     *)
Accept(h) ==
    /\ gate[h].pc = "verify"
    /\ Authentic(gate[h])
    /\ Step(h, Open)
    /\ Deliver(h, gate[h].hook)
    /\ UNCHANGED <<keys, cache>>

Refuse(h) ==
    /\ gate[h].pc = "verify"
    /\ ~Authentic(gate[h])
    /\ Step(h, Open)
    /\ UNCHANGED <<vars, keys, cache>>

(* The key cannot be fetched, or the request ends with the process.        *)
VerifyFails(h) ==
    /\ gate[h].pc # "none"
    /\ Fault
    /\ Step(h, Open)
    /\ UNCHANGED <<now, plaidVars, synced, acked, rows, handlerVars, keys, cache>>

(* The process starts again, with nothing cached.                          *)
Restart ==
    /\ \A h \in Handlers : pc[h] = "idle" /\ gate[h].pc = "none"
    /\ Fault
    /\ cache' = NoKey
    /\ UNCHANGED <<now, plaidVars, synced, acked, rows, handlerVars, keys, gate>>

GateStep(h) ==
    \/ \E w \in hooks, kid \in DOMAIN keys, iat \in 0..now : Arrive(h, w, kid, iat)
    \/ FetchKey(h)
    \/ Accept(h)
    \/ Refuse(h)
    \/ VerifyFails(h)

GateNext ==
    \/ \E h \in Handlers : GateStep(h) \/ (HandlerStep(h) /\ UNCHANGED gateVars)
    \/ Tick /\ UNCHANGED gateVars
    \/ (\E i \in Items \cup Unknown, ty \in Types : Change(i, ty)) /\ UNCHANGED gateVars
    \/ RotateKey
    \/ Restart

GateSpec == GateInit /\ [][GateNext]_allVars

-----------------------------------------------------------------------------
(* Properties.                                                             *)

(* A webhook that Plaid signed is refused only if it was signed too long   *)
(* ago: neither a new key of Plaid's, nor a request that replaces the      *)
(* cached key while another one is verified, nor a key that is expired     *)
(* when the webhook signed with it arrives turns it down (verifyWebhook).  *)
GenuineAccepted ==
    [][\A h \in Handlers : Refuse(h) => now > gate[h].iat + MaxAge]_allVars
=============================================================================
