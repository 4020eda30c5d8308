--------------------------- MODULE MCReplayLedger ---------------------------
(* Request i1 is signed twice with the same payload and fresh nonces (a      *)
(* retry) and once with another payload; i2 reuses a nonce of i1, i3 does    *)
(* not, and one lives longer than a request may.  Room for three entries, so  *)
(* the ledger also fills up.                                                 *)
EXTENDS ReplayLedger

CONSTANTS d1, d2, i1, i2, i3, n1, n2, n3, x, y

mcRequestIds == {i1, i2, i3}
mcNonces     == {n1, n2, n3}
mcPayloads   == {x, y}

mcMessage(i, n, payload, created, ttl) ==
    [request_id |-> i, nonce |-> n, payload |-> payload, identity |-> <<i, payload>>,
     created |-> created, expires |-> created + ttl]

mcIdentities == mcRequestIds \X mcPayloads
mcSigned == {mcMessage(i1, n1, x, 0, 1), mcMessage(i1, n2, x, 1, 2),
             mcMessage(i1, n3, y, 1, 2), mcMessage(i2, n1, x, 1, 1),
             mcMessage(i3, n3, x, 2, 2), mcMessage(i2, n2, y, 1, 3)}
=============================================================================
