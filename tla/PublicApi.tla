------------------------------ MODULE PublicApi ------------------------------
(* The keys of the public API of one workspace: how they are made and        *)
(* revoked (api-keys.controller.ts), and the guard that admits requests by   *)
(* them, so many in a window of time (api-key.guard.ts).  The counts are in  *)
(* memory and go with the process.                                           *)
EXTENDS Naturals, FiniteSets

CONSTANTS ApiKeys, NoKey,     \* ApiKey rows that may be made
          KeyLimit,           \* 5
          Window, Budget,     \* RATE_LIMIT_WINDOW_MS, RATE_LIMIT_MAX_REQUESTS
          KeyRequests,        \* requests of the dashboard and of clients, handled at the same time
          MaxTime, MaxReboots \* bounds: the clock, restarts of the process

ASSUME PublicApiAssumption ==
    /\ NoKey \notin ApiKeys /\ IsFiniteSet(KeyRequests) /\ IsFiniteSet(ApiKeys)
    /\ {MaxTime, MaxReboots} \subseteq Nat /\ {KeyLimit, Budget, Window} \subseteq Nat \ {0}

VARIABLES
    issued, retired,   \* ApiKey rows, and those that were deleted
    barred,            \* Tenant.isSuspended
    bucket,            \* requestCounts; a count of 0 for a key that is not in it
    kreq,              \* what each request is about
    clock, reboots,
    admitted           \* history: the requests let through: key, time and how many before it
apiVars == <<issued, retired, barred, bucket, kreq, clock, reboots, admitted>>

NoBucket == [count |-> 0, start |-> 0]
NoKeyRequest == [pc |-> "idle", key |-> NoKey]

ApiInit ==
    /\ issued = {} /\ retired = {} /\ barred = FALSE
    /\ bucket = [k \in ApiKeys |-> NoBucket]
    /\ kreq = [r \in KeyRequests |-> NoKeyRequest]
    /\ clock = 0 /\ reboots = 0 /\ admitted = {}

Proceed(r, pc, k) == kreq' = [kreq EXCEPT ![r] = [pc |-> pc, key |-> k]]
Over(r) == kreq' = [kreq EXCEPT ![r] = NoKeyRequest]

----------------------------------------------------------------------------
(* ApiKeysController                                                         *)

CountUpTo(r, limit) ==
    /\ kreq[r].pc = "idle" /\ ~barred /\ Cardinality(issued) < limit
    /\ Proceed(r, "create", NoKey)
    /\ UNCHANGED <<issued, retired, barred, bucket, clock, reboots, admitted>>

\* Seeded fault: one key too many.
CountKeysLoosely(r) == CountUpTo(r, KeyLimit + 1)

CountKeys(r) == CountUpTo(r, KeyLimit)

CreateKey(r, k) ==
    /\ kreq[r].pc = "create" /\ k \notin issued \cup retired
    /\ issued' = issued \cup {k}
    /\ Over(r)
    /\ UNCHANGED <<retired, barred, bucket, clock, reboots, admitted>>

FindKey(r, k) ==
    /\ kreq[r].pc = "idle" /\ ~barred /\ k \in issued
    /\ Proceed(r, "delete", k)
    /\ UNCHANGED <<issued, retired, barred, bucket, clock, reboots, admitted>>

\* A key that another request has deleted is an error; its count stays in memory.
DeleteKey(r) ==
    /\ kreq[r].pc = "delete"
    /\ issued' = issued \ {kreq[r].key}
    /\ retired' = retired \cup {kreq[r].key}
    /\ Over(r)
    /\ UNCHANGED <<barred, bucket, clock, reboots, admitted>>

----------------------------------------------------------------------------
(* ApiKeyGuard.canActivate                                                   *)

LookUp(r, k) ==
    /\ kreq[r].pc = "idle" /\ k \in issued /\ ~barred
    /\ Proceed(r, "admit", k)
    /\ UNCHANGED <<issued, retired, barred, bucket, clock, reboots, admitted>>

Closed(b) == b.count = 0 \/ clock - b.start >= Window

Counted(b) == IF Closed(b) THEN [count |-> 1, start |-> clock] ELSE [b EXCEPT !.count = @ + 1]

\* Seeded fault: the count is compared before it is increased.
PassesBefore(b) == Counted(b).count <= Budget + 1

Passes(b) == Counted(b).count <= Budget

\* What comes after the look-up is not interrupted: the count is not raced.  A count above the budget is
\* never looked at again, so it stops there.
Admit(r) ==
    LET k == kreq[r].key
        b == bucket[k]
    IN  /\ kreq[r].pc = "admit"
        /\ bucket' = [bucket EXCEPT ![k] = IF Passes(b) THEN Counted(b) ELSE b]
        /\ admitted' = IF Passes(b)
                       THEN admitted \cup {[key |-> k, at |-> clock, nth |-> Cardinality({a \in admitted : a.key = k})]}
                       ELSE admitted
        /\ Over(r)
        /\ UNCHANGED <<issued, retired, barred, clock, reboots>>

----------------------------------------------------------------------------
Tick ==
    /\ clock < MaxTime /\ clock' = clock + 1
    /\ UNCHANGED <<issued, retired, barred, bucket, kreq, reboots, admitted>>

Bar ==
    /\ barred' = ~barred
    /\ UNCHANGED <<issued, retired, bucket, kreq, clock, reboots, admitted>>

Reboot ==
    /\ reboots < MaxReboots /\ reboots' = reboots + 1
    /\ bucket' = [k \in ApiKeys |-> NoBucket]
    /\ kreq' = [r \in KeyRequests |-> NoKeyRequest]
    /\ UNCHANGED <<issued, retired, barred, clock, admitted>>

ApiNext ==
    \/ \E r \in KeyRequests : \/ CountKeys(r) \/ DeleteKey(r) \/ Admit(r)
                              \/ \E k \in ApiKeys : CreateKey(r, k) \/ FindKey(r, k) \/ LookUp(r, k)
    \/ Tick \/ Bar \/ Reboot

ApiSpec == ApiInit /\ [][ApiNext]_apiVars

----------------------------------------------------------------------------
ApiTypeOK ==
    /\ issued \subseteq ApiKeys /\ retired \subseteq ApiKeys /\ issued \cap retired = {} /\ barred \in BOOLEAN
    /\ bucket \in [ApiKeys -> [count : 0..Budget, start : 0..MaxTime]]
    /\ kreq \in [KeyRequests -> [pc : {"idle", "create", "delete", "admit"}, key : ApiKeys \cup {NoKey}]]
    /\ clock \in 0..MaxTime /\ reboots \in 0..MaxReboots
    /\ \A a \in admitted : a.key \in ApiKeys /\ a.at \in 0..clock

\* Requests that overlap exceed the limit of keys by one each at most (create).
Making == {r \in KeyRequests : kreq[r].pc = "create"}
KeysBounded == Cardinality(issued) + Cardinality(Making) <= KeyLimit + Cardinality(KeyRequests) - 1

\* A fixed window lets a burst at the end of one meet a burst at the begin of the next: over any stretch of
\* time as long as a window twice the budget passes, less the request that opened the first, and a budget more for
\* each restart, but never more than that (canActivate).
Stretch(k, t) == {a \in admitted : a.key = k /\ a.at \in t..(t + Window - 1)}
WindowBounded == \A k \in ApiKeys, t \in 0..MaxTime : Cardinality(Stretch(k, t)) <= (2 + reboots) * Budget - 1
=============================================================================
