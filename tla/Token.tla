-------------------------------- MODULE Token ---------------------------------
(***************************************************************************)
(* The life of the token secret that Prometheus uses to scrape through     *)
(* kube-rbac-proxy.  Two controllers of the operator share it: the PMI     *)
(* controller creates the secret (UWMSecretTokenReconciler), annotated     *)
(* with the token's expiration; the TokenExpiry controller deletes it two  *)
(* refresh intervals before that, so that the first one makes a new one.   *)
(*                                                                         *)
(* Time is discrete.  A controller does not react at once: a request that  *)
(* became ready, or a change the informer has to deliver, is dealt with    *)
(* within Lag, retries of failed calls and restarts of the operator        *)
(* included.  Each set of pending work below holds the times since which   *)
(* it is due; time does not pass them by more than Lag.                    *)
(***************************************************************************)
EXTENDS Naturals

CONSTANTS
  TTL,          \* TokenTTL
  Refresh,      \* Config.TokenRefreshInterval
  Buffer,       \* uwmTokenExpirationBuffer
  Retry,        \* TokenExpiry's delay after an annotation it cannot parse
  Lag,          \* the longest reaction time
  OpenShift,    \* Config.Cluster = k8s.OpenShift
  MaxTime,      \* bound: the clock
  MaxMeddling   \* bound: edits of the secret by users, restarts

ASSUME TimesAssumption ==
  /\ TTL \in Nat /\ Refresh \in Nat /\ Buffer \in Nat /\ Retry \in Nat /\ Lag \in Nat
  /\ Lag > 0 /\ Lag <= Refresh /\ Retry <= Refresh /\ TTL >= Refresh + Lag
ASSUME TokenBoundsAssumption ==
  OpenShift \in BOOLEAN /\ MaxTime \in Nat /\ MaxMeddling \in Nat

VARIABLES
  now,
  wanted,       \* the PMI asks for rbac and user workload monitoring is on
  token,        \* the secret as the API server has it
  seen,         \* the secret as the informer cache has it
  sync,         \* since when the informer has changes to deliver
  te,           \* when the TokenExpiry controller looks at the secret
  busy,         \* the request for which TokenExpiry is about to delete the secret
  pmi,          \* since when the PMI controller has a request
  missing,      \* history: since when the secret is wanted and missing
  meddling      \* edits and restarts so far

vars == <<now, wanted, token, seen, sync, te, busy, pmi, missing, meddling>>

\* The annotation is the token's expiration, or was removed or damaged.  The API
\* server is taken to grant the lifetime requestToken asks for, which is the one
\* AnnotateWithExpiration counts with: the code does not read what was granted.
Missing == [exists |-> FALSE, ann |-> "none", exp |-> 0]
Tokens == [exists : BOOLEAN, ann : {"good", "none", "bad"}, exp : Nat]

Init ==
  /\ now = 0 /\ wanted \in BOOLEAN
  /\ token = Missing /\ seen = Missing
  /\ sync = {} /\ te = {} /\ busy = {}
  /\ pmi = {0} /\ missing = 0 /\ meddling = 0

\* The secret changes; the informer has to deliver it.
Change(t) ==
  /\ token' = t
  /\ sync' = IF sync = {} THEN {now} ELSE sync
  /\ missing' = IF token.exists /\ ~t.exists THEN now ELSE missing

Unchanged == UNCHANGED <<token, sync, missing>>

(***************************************************************************)
(* The PMI controller: UWMSecretTokenReconciler.                           *)
(***************************************************************************)
\* NewPowerMonitorUWMTokenSecret and AnnotateWithExpiration of a new token.
NewToken == [exists |-> TRUE, ann |-> "good", exp |-> now + TTL]

\* The check against the annotation, with a buffer.
Fresh(t) == t.ann = "good" /\ ~(now + Buffer > t.exp)

\* A missing annotation makes the reconciler dereference nil (controller-runtime
\* recovers the panic) and a damaged one stops the run: both are retried.
Unreadable(t) == t.exists /\ t.ann \in {"none", "bad"}

UWMSecretTokenReconciler ==
  /\ pmi # {}
  /\ IF ~wanted
     THEN /\ IF token.exists THEN Change(Missing) ELSE Unchanged
          /\ pmi' = {}
     ELSE \/ Unreadable(seen) /\ Unchanged /\ pmi' = {now}
          \/ seen.exists /\ Fresh(seen) /\ Unchanged /\ pmi' = {}
          \/ ~Unreadable(seen) /\ ~(seen.exists /\ Fresh(seen))
             /\ Change(NewToken) /\ pmi' = {}
  /\ UNCHANGED <<now, wanted, seen, te, busy, meddling>>

(***************************************************************************)
(* The TokenExpiry controller.                                             *)
(***************************************************************************)
\* isSecretExpired that waits for the token to expire.
IsSecretExpiredAtEnd(t) == t.ann = "good" /\ now > t.exp

\* isSecretExpired
IsSecretExpired(t) == t.ann = "good" /\ now + 2 * Refresh > t.exp

\* Requests that wait for their time are taken with those that are ready.
LaterNone == {}

\* The requests left in the work queue once those that are ready are taken.
Later == {d \in te : d > now}

\* RequeueAfter: a request that is already waiting for less is kept instead.
RequeueAfter(delay) == te' = IF Later = {} THEN {now + delay} ELSE Later

\* Reconcile, up to the deletion.
TokenExpiryReconcile ==
  /\ \E d \in te : d <= now
  /\ busy = {}
  /\ \/ ~seen.exists /\ te' = Later /\ UNCHANGED busy
     \/ /\ seen.exists /\ (seen.ann = "none" \/ IsSecretExpired(seen))
        /\ te' = Later /\ busy' = te \ Later
     \/ seen.exists /\ seen.ann = "bad" /\ RequeueAfter(Retry) /\ UNCHANGED busy
     \/ /\ seen.exists /\ seen.ann = "good" /\ ~IsSecretExpired(seen)
        /\ RequeueAfter(Refresh) /\ UNCHANGED busy
  /\ UNCHANGED <<now, wanted, token, seen, sync, pmi, missing, meddling>>

\* deleteResources: the secret is deleted by name, whatever it is by now.
DeleteExpired ==
  /\ busy # {} /\ busy' = {}
  /\ IF token.exists THEN Change(Missing) ELSE Unchanged
  /\ UNCHANGED <<now, wanted, seen, te, pmi, meddling>>

(***************************************************************************)
(* Informers, users, restarts and time.                                    *)
(***************************************************************************)
\* The PMI controller does not watch the secrets it owns.
SyncCacheUnwatched ==
  /\ sync # {} /\ sync' = {}
  /\ seen' = token
  /\ te' = IF token.exists THEN te \cup {now} ELSE te
  /\ UNCHANGED <<now, wanted, token, busy, pmi, missing, meddling>>

\* The informer delivers the changes: an existing secret is a request for
\* TokenExpiry (its predicate drops deletions); the PMI controller watches the
\* secrets it owns on OpenShift only.
SyncCache ==
  /\ sync # {} /\ sync' = {}
  /\ seen' = token
  /\ te' = IF token.exists THEN te \cup {now} ELSE te
  /\ pmi' = IF OpenShift THEN pmi \cup {now} ELSE pmi
  /\ UNCHANGED <<now, wanted, token, busy, missing, meddling>>

\* Another request for the PMI.
Wake ==
  /\ pmi = {} /\ pmi' = {now}
  /\ UNCHANGED <<now, wanted, token, seen, sync, te, busy, missing, meddling>>

Meddle == meddling < MaxMeddling /\ meddling' = meddling + 1

\* The spec turns rbac or user workload monitoring on or off.
EditSpec ==
  /\ Meddle
  /\ wanted' = ~wanted /\ pmi' = pmi \cup {now}
  /\ missing' = IF wanted THEN missing ELSE now
  /\ UNCHANGED <<now, token, seen, sync, te, busy>>

\* A user removes or damages the annotation, or deletes the secret.
EditSecret ==
  /\ token.exists /\ token.ann = "good" /\ Meddle
  /\ \/ Change([token EXCEPT !.ann = "none"])
     \/ Change([token EXCEPT !.ann = "bad"])
     \/ Change(Missing)
  /\ UNCHANGED <<now, wanted, seen, te, busy, pmi>>

\* The operator restarts: delayed requests are lost, the secret and the PMI are
\* listed.  What was due stays due.
Restart ==
  /\ Meddle
  /\ seen' = token /\ sync' = {} /\ busy' = {}
  /\ te' = IF token.exists THEN (te \ Later) \cup busy \cup sync \cup {now} ELSE {}
  /\ pmi' = pmi \cup sync \cup {now}
  /\ UNCHANGED <<now, wanted, token, missing>>

\* Time passes unless something has been due for Lag.
Tick ==
  /\ now < MaxTime /\ now' = now + 1
  /\ \A d \in te \cup busy \cup pmi \cup sync : now < d + Lag
  /\ UNCHANGED <<wanted, token, seen, sync, te, busy, pmi, missing, meddling>>

Next ==
  \/ UWMSecretTokenReconciler \/ TokenExpiryReconcile \/ DeleteExpired
  \/ SyncCache \/ Wake \/ EditSpec \/ EditSecret \/ Restart \/ Tick

Spec == Init /\ [][Next]_vars

(***************************************************************************)
(* Properties.                                                             *)
(***************************************************************************)
\* The variables have the shape the code gives them.
TypeOK ==
  /\ now \in Nat /\ wanted \in BOOLEAN
  /\ token \in Tokens /\ seen \in Tokens
  /\ sync \subseteq 0 .. now /\ busy \subseteq 0 .. now /\ pmi \subseteq 0 .. now
  /\ te \in SUBSET Nat
  /\ missing \in 0 .. now /\ meddling \in 0 .. MaxMeddling

\* No expired token is left in use: unless a user damaged the annotation, the two
\* controllers have replaced a token by the time it expires, through restarts,
\* stale caches, edits of the spec and of the secret.
NeverExpired == token.exists /\ token.ann # "bad" => now <= token.exp

\* On OpenShift a token that is wanted is missing for two reaction times at most:
\* whoever deletes it, the PMI controller hears of it and makes a new one.
RestoredInTime ==
  OpenShift /\ wanted /\ ~token.exists => now <= missing + 2 * Lag
===============================================================================
