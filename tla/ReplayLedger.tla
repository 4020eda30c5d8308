---------------------------- MODULE ReplayLedger ----------------------------
(***************************************************************************)
(* The replay ledger of the signed control plane (ejsGhVerifyRequestV1_,   *)
(* ejsGhCheckReplayV1_ and ejsGhCleanupReplayLedgerV1_ of                  *)
(* google_native/apps_script_zero_cost/EjsGitHubGatewayV1.gs): two markers *)
(* for every request it accepts, one under the request id and one under    *)
(* the nonce, kept in Script Properties until the request expires.         *)
(*                                                                         *)
(* doPost reads the clock once, when the request arrives, and takes the    *)
(* script lock later (up to 10 s later), so the time a delivery works with *)
(* may be behind the time at which others have cleaned the ledger.         *)
(*                                                                         *)
(* A message is any signed request that exists; it may be delivered any    *)
(* number of times, concurrently and late.  Hashes are opaque: identity    *)
(* stands for identity_hash, which covers payload, and payload for         *)
(* payload_hash.  Signature and schema checks keep no state and are not    *)
(* modelled; the messages here have passed them.                           *)
(***************************************************************************)
EXTENDS Integers, FiniteSets

CONSTANTS Delivery,    \* concurrent executions of doPost
          RequestIds, Nonces, Payloads, Identities,
          Signed,      \* the signed messages that may be delivered
          MaxEntries,  \* MAX_REPLAY_ENTRIES
          MaxTTL,      \* MAX_TTL_MS
          MaxSkew,     \* MAX_CLOCK_SKEW_MS
          MaxTime,     \* bound on the clock
          Nil

Message == [request_id: RequestIds, nonce: Nonces, payload: Payloads,
            identity: Identities, created: Nat, expires: Nat]

(* A marker is the message it was made for and the time it was made. *)
Marker == [made_for: Signed, created_at: Nat]

ASSUME SignedAssumption ==
    /\ Signed \subseteq Message
    /\ \A m, n \in Signed : m.identity = n.identity => m.payload = n.payload
    /\ Nil \notin Signed \cup Marker
    /\ MaxEntries \in Nat /\ MaxTTL \in Nat /\ MaxSkew \in Nat /\ MaxTime \in Nat

VARIABLES
    now,      \* the clock
    reqs,     \* reqs[i]: the marker under request id i, or Nil
    nonces,   \* nonces[n]: the marker under nonce n, or Nil
    stage,    \* stage[d]: "idle", "waiting" for the lock, "fresh", "replay", "refused"
    message,  \* message[d]: the message delivered, or Nil
    nowMs,    \* nowMs[d]: the time doPost read when it arrived
    granted   \* history: the messages answered with exact_replay = false

replayVars == <<now, reqs, nonces, stage, message, nowMs, granted>>

ReplayInit ==
    /\ now = 0
    /\ reqs = [i \in RequestIds |-> Nil] /\ nonces = [n \in Nonces |-> Nil]
    /\ stage = [d \in Delivery |-> "idle"]
    /\ message = [d \in Delivery |-> Nil]
    /\ nowMs = [d \in Delivery |-> 0]
    /\ granted = {}

-----------------------------------------------------------------------------

Tick == now < MaxTime /\ now' = now + 1
        /\ UNCHANGED <<reqs, nonces, stage, message, nowMs, granted>>

(* ejsGhVerifyRequestV1_: lifetime, clock skew and expiry at time t. *)
InTime(m, t) ==
    /\ m.expires - m.created \in 1 .. MaxTTL
    /\ m.created =< t + MaxSkew
    /\ t =< m.expires

(* A message arrives and passes the time checks; others change nothing. *)
Arrive(d, m) ==
    /\ stage[d] = "idle" /\ InTime(m, now)
    /\ stage' = [stage EXCEPT ![d] = "waiting"]
    /\ message' = [message EXCEPT ![d] = m]
    /\ nowMs' = [nowMs EXCEPT ![d] = now]
    /\ UNCHANGED <<now, reqs, nonces, granted>>

(* Mutant: a marker goes at its expiry, when its request may still come. *)
ExpiredAtOnce(mark, t) == mark.made_for.expires =< t

Expired(mark, t) == mark.made_for.expires < t

Cleaned(f, t) == [k \in DOMAIN f |-> IF f[k] # Nil /\ Expired(f[k], t) THEN Nil ELSE f[k]]

Entries(f) == Cardinality({k \in DOMAIN f : f[k] # Nil})

(* Mutant: GD004_REPLAY_LEDGER_FULL one entry too late. *)
FullTooLate(rs, ns) == Entries(rs) + Entries(ns) > MaxEntries

Full(rs, ns) == Entries(rs) + Entries(ns) >= MaxEntries

(* GD004_REQUEST_ID_PAYLOAD_COLLISION and GD004_NONCE_REPLAY_COLLISION. *)
RequestCollides(r, m) == r # Nil /\ r.made_for.identity # m.identity

NonceCollides(n, m) ==
    n # Nil /\ (n.made_for.request_id # m.request_id \/ n.made_for.payload # m.payload)

(* ejsGhCheckReplayV1_ under the script lock: expired markers go first, a   *)
(* ledger that is still full refuses, then collisions are refused, then the *)
(* missing markers are made.                                                *)
CheckReplay(d) ==
    LET m  == message[d]
        t  == nowMs[d]
        rs == Cleaned(reqs, t)
        ns == Cleaned(nonces, t)
        mark == [made_for |-> m, created_at |-> t]
        full == Full(rs, ns)
        collides == RequestCollides(rs[m.request_id], m) \/ NonceCollides(ns[m.nonce], m)
        known == rs[m.request_id] # Nil \/ ns[m.nonce] # Nil
    IN  /\ stage[d] = "waiting"
        /\ \/ /\ full \/ collides
              /\ reqs' = rs /\ nonces' = ns
              /\ stage' = [stage EXCEPT ![d] = "refused"]
              /\ UNCHANGED granted
           \/ /\ ~full /\ ~collides
              /\ reqs' = [rs EXCEPT ![m.request_id] = IF @ = Nil THEN mark ELSE @]
              /\ nonces' = [ns EXCEPT ![m.nonce] = IF @ = Nil THEN mark ELSE @]
              /\ stage' = [stage EXCEPT ![d] = IF known THEN "replay" ELSE "fresh"]
              /\ granted' = IF known THEN granted ELSE granted \cup {m}
        /\ UNCHANGED <<now, message, nowMs>>

(* The lock is not obtained in 10 s, or the execution is cut short. *)
GiveUp(d) ==
    /\ stage[d] = "waiting"
    /\ stage' = [stage EXCEPT ![d] = "refused"]
    /\ UNCHANGED <<now, reqs, nonces, message, nowMs, granted>>

(* The answer leaves and the execution is over. *)
Respond(d) ==
    /\ stage[d] \in {"fresh", "replay", "refused"}
    /\ stage' = [stage EXCEPT ![d] = "idle"]
    /\ message' = [message EXCEPT ![d] = Nil]
    /\ nowMs' = [nowMs EXCEPT ![d] = 0]
    /\ UNCHANGED <<now, reqs, nonces, granted>>

ReplayNext ==
    \/ Tick
    \/ \E d \in Delivery :
          (\E m \in Signed : Arrive(d, m)) \/ CheckReplay(d) \/ GiveUp(d) \/ Respond(d)

ReplaySpec == ReplayInit /\ [][ReplayNext]_replayVars

-----------------------------------------------------------------------------
(* Properties. *)

ReplayTypeOK ==
    /\ now \in 0 .. MaxTime
    /\ reqs \in [RequestIds -> Marker \cup {Nil}]
    /\ nonces \in [Nonces -> Marker \cup {Nil}]
    /\ stage \in [Delivery -> {"idle", "waiting", "fresh", "replay", "refused"}]
    /\ message \in [Delivery -> Signed \cup {Nil}]
    /\ nowMs \in [Delivery -> Nat]
    /\ granted \subseteq Signed

(* A request id and a nonce keep their meaning while the request that       *)
(* introduced them is still valid: whatever is accepted under either until  *)
(* then, by any execution and however late, is the same request and is      *)
(* called a replay (lines 122-141; "same payload is replay/no-op").         *)
OneMeaning ==
    [][\A d \in Delivery : \A g \in granted :
          stage[d] = "waiting" /\ stage'[d] \in {"fresh", "replay"} /\ now =< g.expires
          => /\ g.request_id = message[d].request_id =>
                    stage'[d] = "replay" /\ g.identity = message[d].identity
             /\ g.nonce = message[d].nonce =>
                    stage'[d] = "replay" /\ g.request_id = message[d].request_id]_replayVars

(* The ledger is checked for room once and then takes up to two markers, so *)
(* one entry more than MAX_REPLAY_ENTRIES is its true size (lines 100-140). *)
EntriesBounded == Entries(reqs) + Entries(nonces) =< MaxEntries + 1
=============================================================================
