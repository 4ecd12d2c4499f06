----------------------------- MODULE MCServices -----------------------------
(***************************************************************************)
(* Seven parts of the system that share no state, checked in one run: each *)
(* behaviour is one of one part, chosen at the start, while the others     *)
(* stay in their initial states.                                           *)
(***************************************************************************)
EXTENDS Idempotency, RateLimiter, SagaLibrary, Sessions, Outbox, EventCache, AuditLog

CONSTANTS a1, a2, a3, x, y, q1, q2, u1, u2, c1, c2, b1, p1, p2, r1, s1, s2, v1, v2, e1, e2, e3, e4

VARIABLE focus

MCAttempt == {a1, a2, a3}
MCContent == {x, y}
MCRequest == {q1, q2}
MCCompensable == {1, 2}
MCUser == {u1, u2}
MCCall == {c1, c2}
MCBooking == {b1}
MCPoller == {p1, p2}
MCRetrier == {r1}
MCSlug == {s1, s2}
MCVisit == {v1, v2}
MCEntry == {e1, e2, e3, e4}

vars == <<focus, idemVars, rateVars, libVars, sessionVars, outboxVars, cacheVars, auditVars>>

Parts ==
  {"idempotency", "rate limiter", "saga library", "sessions", "outbox", "event cache", "audit log"}

MCInit ==
  /\ focus \in Parts
  /\ IdemInit /\ RateInit /\ LibraryInit /\ SessionsInit /\ OutboxInit /\ EventCacheInit /\ AuditInit
  /\ focus # "rate limiter" => shared

MCNext ==
  /\ UNCHANGED focus
  /\ \/ focus = "idempotency" /\ IdemNext
        /\ UNCHANGED <<rateVars, libVars, sessionVars, outboxVars, cacheVars, auditVars>>
     \/ focus = "rate limiter" /\ RateNext
        /\ UNCHANGED <<idemVars, libVars, sessionVars, outboxVars, cacheVars, auditVars>>
     \/ focus = "saga library" /\ LibraryNext
        /\ UNCHANGED <<idemVars, rateVars, sessionVars, outboxVars, cacheVars, auditVars>>
     \/ focus = "sessions" /\ SessionsNext
        /\ UNCHANGED <<idemVars, rateVars, libVars, outboxVars, cacheVars, auditVars>>
     \/ focus = "outbox" /\ OutboxNext
        /\ UNCHANGED <<idemVars, rateVars, libVars, sessionVars, cacheVars, auditVars>>
     \/ focus = "event cache" /\ EventCacheNext
        /\ UNCHANGED <<idemVars, rateVars, libVars, sessionVars, outboxVars, auditVars>>
     \/ focus = "audit log" /\ AuditNext
        /\ UNCHANGED <<idemVars, rateVars, libVars, sessionVars, outboxVars, cacheVars>>

MCSpec == MCInit /\ [][MCNext]_vars

\* The type invariants of the parts: what each keeps is what its operations
\* leave there.
ServicesTypeOK ==
  /\ IdemTypeOK /\ RateTypeOK /\ LibraryTypeOK /\ SessionsTypeOK /\ OutboxTypeOK
  /\ EventCacheTypeOK /\ AuditTypeOK
=============================================================================
