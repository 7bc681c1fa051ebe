----------------------------- MODULE TokenProofs ------------------------------
(***************************************************************************)
(* Proof that the token secret never holds an expired token and is soon    *)
(* replaced when it is deleted, for every lifetime, refresh interval and   *)
(* reaction time that TimesAssumption allows.                              *)
(***************************************************************************)
EXTENDS Token, TLAPS

(***************************************************************************)
(* The inductive invariant.                                                *)
(***************************************************************************)
\* Nothing is overdue, and no look at the secret is further away than Refresh.
OnTime ==
  /\ \A d \in te \cup busy \cup pmi \cup sync : now <= d + Lag
  /\ \A d \in te : d <= now + Refresh

\* The informer has yet to deliver the creation of the token.
Announced == \E d \in sync : d + TTL <= token.exp

\* What TokenExpiry reads, if it reads something else than the token, is older
\* than the token, and the token's creation is on its way.
ReadsOlder ==
  token.exists /\ token.ann # "bad" /\
    (~seen.exists \/ seen.ann = "bad" \/ seen.exp # token.exp) => Announced

\* TokenExpiry looks at the token a refresh interval before it expires.
Watched ==
  token.exists /\ token.ann # "bad" =>
    Announced \/ \E d \in te \cup busy : d + Refresh <= token.exp

\* The informer has yet to deliver a deletion; a wanted token that is missing is
\* about to be noticed or has been.
Noticed ==
  /\ seen.exists /\ ~token.exists => sync # {}
  /\ OpenShift /\ wanted /\ ~token.exists =>
       /\ seen.exists => \E d \in sync : d <= missing
       /\ (\E d \in sync : d <= missing) \/ (\E d \in pmi : d <= missing + Lag)

Inv == TypeOK /\ OnTime /\ ReadsOlder /\ Watched /\ Noticed /\ NeverExpired

\* Initially there is no token and the PMI has a request.
LEMMA InitInv == Init => Inv
  BY TimesAssumption, TokenBoundsAssumption
     DEF Init, Inv, TypeOK, OnTime, ReadsOlder, Watched, Noticed, NeverExpired, Missing,
         Tokens

(***************************************************************************)
(* Changes of the secret.                                                  *)
(***************************************************************************)
\* What a change leaves to be delivered.
LEMMA ChangeFacts ==
  ASSUME TypeOK, NEW t, Change(t)
  PROVE  /\ token' = t
         /\ sync' \subseteq 0 .. now /\ sync' # {}
         /\ \A d \in sync : d \in sync'
         /\ \A d \in sync' : d \in sync \/ d = now
         /\ missing' \in 0 .. now
         /\ ~t.exists /\ token.exists => missing' = now
         /\ ~t.exists /\ ~token.exists => missing' = missing
  BY DEF Change, TypeOK

\* The secret is deleted.
LEMMA DeletionInv ==
  ASSUME Inv, token.exists, Change(Missing), UNCHANGED <<now, seen>>,
         wanted' = wanted, te' = te, busy' \in {busy, {}}, pmi' \in {pmi, {}},
         meddling' \in 0 .. MaxMeddling
  PROVE  Inv'
<1>1. TypeOK
  BY DEF Inv
<1>2. /\ token' = Missing /\ sync' \subseteq 0 .. now /\ sync' # {}
      /\ \A d \in sync' : d \in sync \/ d = now
      /\ missing' = now /\ ~Missing.exists /\ Missing \in Tokens
  BY <1>1, ChangeFacts DEF Missing, Tokens
<1>3. TypeOK'
  BY <1>1, <1>2 DEF TypeOK
<1>4. OnTime'
  BY <1>1, <1>2, TimesAssumption DEF Inv, OnTime, TypeOK
<1>5. ReadsOlder' /\ Watched' /\ NeverExpired'
  BY <1>2 DEF ReadsOlder, Watched, NeverExpired
<1>6. Noticed'
  <2>1. \E d \in sync' : d <= missing'
    <3>1. PICK d \in sync' : TRUE
      BY <1>2
    <3>2. d \in 0 .. now /\ now \in Nat
      BY <1>1, <1>2 DEF TypeOK
    <3> QED BY <1>2, <3>1, <3>2
  <2> QED BY <1>2, <2>1 DEF Noticed
<1> QED BY <1>3, <1>4, <1>5, <1>6 DEF Inv

\* A token is created, or replaced.
LEMMA CreationInv ==
  ASSUME Inv, Change(NewToken), pmi' = {}, UNCHANGED <<now, wanted, seen, te, busy, meddling>>
  PROVE  Inv'
<1>1. TypeOK /\ now \in Nat
  BY DEF Inv, TypeOK
<1>2. /\ token' = NewToken /\ sync' \subseteq 0 .. now /\ sync' # {}
      /\ \A d \in sync' : d \in sync \/ d = now
      /\ missing' \in 0 .. now
  BY <1>1, ChangeFacts
<1>3. NewToken \in Tokens /\ NewToken.exists /\ NewToken.exp = now + TTL
  BY <1>1, TimesAssumption DEF NewToken, Tokens
<1>4. TypeOK'
  BY <1>1, <1>2, <1>3 DEF TypeOK
<1>5. OnTime'
  BY <1>1, <1>2, TimesAssumption DEF Inv, OnTime, TypeOK
<1>6. Announced'
  <2>1. PICK d \in sync' : TRUE
    BY <1>2
  <2>2. d \in 0 .. now
    BY <1>2
  <2>3. d + TTL <= token'.exp
    BY <1>1, <1>2, <1>3, <2>2, TimesAssumption
  <2> QED BY <2>1, <2>3 DEF Announced
<1>7. ReadsOlder' /\ Watched'
  BY <1>6 DEF ReadsOlder, Watched
<1>8. Noticed' /\ NeverExpired'
  BY <1>1, <1>2, <1>3, TimesAssumption DEF Noticed, NeverExpired
<1> QED BY <1>4, <1>5, <1>7, <1>8 DEF Inv

(***************************************************************************)
(* One lemma per action.                                                   *)
(***************************************************************************)
LEMMA UWMSecretTokenInv ==
  ASSUME Inv, UWMSecretTokenReconciler
  PROVE  Inv'
<1>1. UNCHANGED <<now, wanted, seen, te, busy, meddling>> /\ TypeOK
  BY DEF UWMSecretTokenReconciler, Inv
<1>2. CASE Change(Missing) /\ token.exists /\ pmi' = {}
  BY <1>1, <1>2, DeletionInv DEF TypeOK
<1>3. CASE Change(NewToken) /\ pmi' = {}
  BY <1>1, <1>3, CreationInv
<1>4. CASE Unchanged /\ pmi' \in {{now}, {}} /\ (wanted /\ ~token.exists => seen.exists)
  <2>1. UNCHANGED <<token, sync, missing>>
    BY <1>4 DEF Unchanged
  <2>2. TypeOK' /\ OnTime'
    BY <1>1, <1>4, <2>1, TimesAssumption DEF Inv, TypeOK, OnTime
  <2>3. ReadsOlder' /\ Watched' /\ NeverExpired'
    BY <1>1, <2>1 DEF Inv, ReadsOlder, Watched, NeverExpired, Announced
  <2>4. Noticed'
    BY <1>1, <1>4, <2>1 DEF Inv, Noticed
  <2> QED BY <2>2, <2>3, <2>4 DEF Inv
<1>5. CASE ~wanted
  BY <1>2, <1>4, <1>5 DEF UWMSecretTokenReconciler
<1>6. CASE wanted
  BY <1>3, <1>4, <1>6 DEF UWMSecretTokenReconciler, Unreadable
<1> QED BY <1>1, <1>5, <1>6 DEF TypeOK

\* TokenExpiry looks again early enough, or decides to delete.
LEMMA TokenExpiryInv ==
  ASSUME Inv, TokenExpiryReconcile
  PROVE  Inv'
<1>1. UNCHANGED <<now, wanted, token, seen, sync, pmi, missing, meddling>> /\ busy = {}
  BY DEF TokenExpiryReconcile
<1>2. TypeOK /\ OnTime /\ ReadsOlder /\ Watched /\ now \in Nat /\ te \in SUBSET Nat
  BY DEF Inv, TypeOK
<1>3. Later \subseteq te /\ \A d \in te \ Later : d \in 0 .. now
  BY <1>2 DEF Later
<1>4. \/ te' = Later /\ busy' = {} /\ ~seen.exists
      \/ te' = Later /\ busy' = te \ Later
      \/ RequeueAfter(Retry) /\ busy' = {} /\ seen.ann = "bad"
      \/ RequeueAfter(Refresh) /\ busy' = {} /\ seen.ann = "good" /\ ~IsSecretExpired(seen)
  BY <1>1 DEF TokenExpiryReconcile
<1>5. te' \subseteq te \cup {now + Retry, now + Refresh} /\ busy' \subseteq te \ Later
  BY <1>3, <1>4 DEF RequeueAfter
<1>6. TypeOK' /\ OnTime'
  <2>1. te' \in SUBSET Nat /\ busy' \subseteq 0 .. now
    BY <1>2, <1>3, <1>5, TimesAssumption
  <2>2. TypeOK'
    BY <1>1, <1>2, <2>1 DEF TypeOK
  <2>3. OnTime'
    BY <1>1, <1>2, <1>3, <1>5, <2>1, TimesAssumption DEF OnTime
  <2> QED BY <2>2, <2>3
<1>7. ReadsOlder' /\ Noticed' /\ NeverExpired'
  BY <1>1 DEF Inv, ReadsOlder, Announced, Noticed, NeverExpired
<1>8. Watched'
  <2> SUFFICES ASSUME token.exists, token.ann # "bad", ~Announced
               PROVE  \E d \in te' \cup busy' : d + Refresh <= token.exp
    BY <1>1 DEF Watched, Announced
  <2>1. seen.exists /\ seen.ann # "bad" /\ seen.exp = token.exp
    BY <1>2 DEF ReadsOlder
  <2>2. CASE te' = Later /\ busy' = te \ Later
    BY <1>1, <1>2, <1>3, <2>2 DEF Watched
  <2>3. CASE RequeueAfter(Refresh) /\ seen.ann = "good" /\ ~IsSecretExpired(seen)
    <3>1. now + 2 * Refresh <= token.exp /\ token.exp \in Nat
      BY <1>2, <2>1, <2>3, TimesAssumption DEF IsSecretExpired, TypeOK, Tokens
    <3>2. PICK d \in te' : d <= now + Refresh /\ d \in Nat
      BY <1>2, <1>3, <2>3, TimesAssumption DEF RequeueAfter, OnTime
    <3> QED BY <1>2, <3>1, <3>2, TimesAssumption
  <2> QED BY <1>4, <2>1, <2>2, <2>3
<1> QED BY <1>6, <1>7, <1>8 DEF Inv

\* TokenExpiry deletes the secret, which may be a newer one by now.
LEMMA DeleteExpiredInv ==
  ASSUME Inv, DeleteExpired
  PROVE  Inv'
<1>1. UNCHANGED <<now, wanted, seen, te, pmi, meddling>> /\ busy' = {} /\ TypeOK
  BY DEF DeleteExpired, Inv
<1>2. CASE token.exists
  BY <1>1, <1>2, DeletionInv DEF DeleteExpired, TypeOK
<1>3. CASE ~token.exists
  <2>1. UNCHANGED <<token, sync, missing>>
    BY <1>3 DEF DeleteExpired, Unchanged
  <2>2. TypeOK' /\ OnTime'
    BY <1>1, <2>1 DEF Inv, TypeOK, OnTime
  <2>3. ReadsOlder' /\ Watched' /\ NeverExpired' /\ Noticed'
    BY <1>1, <1>3, <2>1 DEF Inv, ReadsOlder, Watched, NeverExpired, Noticed
  <2> QED BY <2>2, <2>3 DEF Inv
<1> QED BY <1>1, <1>2, <1>3 DEF TypeOK

\* The informer delivers: a new token gets its first look, a deletion a request.
LEMMA SyncCacheInv ==
  ASSUME Inv, SyncCache
  PROVE  Inv'
<1>1. /\ UNCHANGED <<now, wanted, token, busy, missing, meddling>>
      /\ sync # {} /\ sync' = {} /\ seen' = token
      /\ te' = IF token.exists THEN te \cup {now} ELSE te
      /\ pmi' = IF OpenShift THEN pmi \cup {now} ELSE pmi
  BY DEF SyncCache
<1>2. /\ TypeOK /\ OnTime /\ Watched /\ Noticed /\ now \in Nat
      /\ sync \subseteq Nat /\ token.exp \in Nat /\ missing \in Nat
  BY DEF Inv, TypeOK, Tokens
<1>3. TypeOK' /\ OnTime'
  BY <1>1, <1>2, TimesAssumption DEF TypeOK, OnTime
<1>4. ReadsOlder' /\ NeverExpired'
  BY <1>1 DEF Inv, ReadsOlder, NeverExpired
<1>5. Watched'
  <2> SUFFICES ASSUME token.exists, token.ann # "bad"
               PROVE  \E d \in te' \cup busy : d + Refresh <= token.exp
    BY <1>1 DEF Watched
  <2>1. CASE Announced
    <3>1. PICK d \in sync : d + TTL <= token.exp
      BY <2>1 DEF Announced
    <3>2. now + Refresh <= token.exp
      BY <1>2, <3>1, TimesAssumption DEF OnTime
    <3> QED BY <1>1, <3>2
  <2>2. CASE \E d \in te \cup busy : d + Refresh <= token.exp
    BY <1>1, <2>2
  <2> QED BY <1>2, <2>1, <2>2 DEF Watched
<1>6. Noticed'
  <2> SUFFICES ASSUME OpenShift, wanted, ~token.exists
               PROVE  \E d \in pmi' : d <= missing + Lag
    BY <1>1 DEF Noticed
  <2>1. CASE \E d \in sync : d <= missing
    <3>1. now <= missing + Lag
      BY <1>2, <2>1, TimesAssumption DEF OnTime
    <3> QED BY <1>1, <3>1
  <2>2. CASE \E d \in pmi : d <= missing + Lag
    BY <1>1, <2>2
  <2> QED BY <1>2, <2>1, <2>2 DEF Noticed
<1> QED BY <1>3, <1>4, <1>5, <1>6 DEF Inv

\* Any other request for the PMI.
LEMMA WakeInv ==
  ASSUME Inv, Wake
  PROVE  Inv'
<1>1. /\ UNCHANGED <<now, wanted, token, seen, sync, te, busy, missing, meddling>>
      /\ pmi = {} /\ pmi' = {now}
  BY DEF Wake
<1>2. TypeOK' /\ OnTime'
  BY <1>1, TimesAssumption DEF Inv, TypeOK, OnTime
<1>3. ReadsOlder' /\ Watched' /\ NeverExpired' /\ Noticed'
  BY <1>1 DEF Inv, ReadsOlder, Watched, Announced, NeverExpired, Noticed
<1> QED BY <1>2, <1>3 DEF Inv

\* The count of interventions stays within its bound.
LEMMA MeddleType ==
  ASSUME TypeOK, Meddle
  PROVE  meddling' \in 0 .. MaxMeddling
  BY TokenBoundsAssumption DEF TypeOK, Meddle

\* The token becomes wanted or unwanted.
LEMMA EditSpecInv ==
  ASSUME Inv, EditSpec
  PROVE  Inv'
<1>1. /\ UNCHANGED <<now, token, seen, sync, te, busy>>
      /\ wanted' = ~wanted /\ pmi' = pmi \cup {now}
      /\ missing' = IF wanted THEN missing ELSE now
  BY DEF EditSpec
<1>2. TypeOK /\ Noticed /\ meddling' \in 0 .. MaxMeddling /\ now \in Nat
  BY MeddleType DEF Inv, EditSpec, TypeOK
<1>3. TypeOK' /\ OnTime'
  BY <1>1, <1>2, TimesAssumption DEF Inv, TypeOK, OnTime
<1>4. ReadsOlder' /\ Watched' /\ NeverExpired'
  BY <1>1 DEF Inv, ReadsOlder, Watched, Announced, NeverExpired
<1>5. Noticed'
  <2> SUFFICES ASSUME ~wanted, ~token.exists
               PROVE  /\ seen.exists => \E d \in sync : d <= now
                      /\ \E d \in pmi' : d <= now + Lag
    BY <1>1, <1>2 DEF Noticed, TypeOK
  <2>1. ASSUME seen.exists PROVE \E d \in sync : d <= now
    <3>1. PICK d \in sync : TRUE
      BY <1>2, <2>1 DEF Noticed
    <3>2. d \in 0 .. now
      BY <1>2 DEF TypeOK
    <3> QED BY <1>2, <3>1, <3>2
  <2>2. \E d \in pmi' : d <= now + Lag
    BY <1>1, <1>2, TimesAssumption
  <2> QED BY <2>1, <2>2
<1> QED BY <1>3, <1>4, <1>5 DEF Inv

\* A user edits or deletes the secret.
LEMMA EditSecretInv ==
  ASSUME Inv, EditSecret
  PROVE  Inv'
<1>1. /\ UNCHANGED <<now, wanted, seen, te, busy, pmi>> /\ token.exists
      /\ token.ann = "good"
  BY DEF EditSecret
<1>2. TypeOK /\ meddling' \in 0 .. MaxMeddling /\ now \in Nat
  BY MeddleType DEF Inv, EditSecret, TypeOK
<1>3. CASE Change(Missing)
  BY <1>1, <1>2, <1>3, DeletionInv
<1>4. ASSUME NEW a \in {"none", "bad"}, Change([token EXCEPT !.ann = a])
      PROVE  Inv'
  <2>1. /\ token' = [token EXCEPT !.ann = a] /\ sync' \subseteq 0 .. now
        /\ \A d \in sync : d \in sync'
        /\ \A d \in sync' : d \in sync \/ d = now
        /\ missing' \in 0 .. now
    BY <1>2, <1>4, ChangeFacts
  <2>2. token' \in Tokens /\ token'.exists /\ token'.exp = token.exp /\ token'.ann = a
    BY <1>1, <1>2, <1>4, <2>1 DEF TypeOK, Tokens
  <2>3. TypeOK' /\ OnTime'
    BY <1>1, <1>2, <2>1, <2>2, TimesAssumption DEF Inv, TypeOK, OnTime
  <2>4. Announced => Announced'
    BY <2>1, <2>2 DEF Announced
  <2>5. ReadsOlder'
    BY <1>1, <2>2, <2>4 DEF Inv, ReadsOlder
  <2>6. Watched'
    BY <1>1, <2>2, <2>4 DEF Inv, Watched
  <2>7. Noticed' /\ NeverExpired'
    BY <1>1, <2>2 DEF Inv, Noticed, NeverExpired
  <2> QED BY <2>3, <2>5, <2>6, <2>7 DEF Inv
<1> QED BY <1>3, <1>4 DEF EditSecret

\* A restart forgets delayed looks and lists the secret instead.
LEMMA RestartInv ==
  ASSUME Inv, Restart
  PROVE  Inv'
<1>1. /\ UNCHANGED <<now, wanted, token, missing>>
      /\ seen' = token /\ sync' = {} /\ busy' = {}
      /\ te' = IF token.exists THEN (te \ Later) \cup busy \cup sync \cup {now} ELSE {}
      /\ pmi' = pmi \cup sync \cup {now}
  BY DEF Restart
<1>2. /\ TypeOK /\ OnTime /\ Watched /\ Noticed /\ now \in Nat /\ te \subseteq Nat
      /\ sync \subseteq Nat /\ busy \subseteq Nat /\ token.exp \in Nat
      /\ missing \in Nat /\ meddling' \in 0 .. MaxMeddling
  BY MeddleType DEF Inv, TypeOK, Tokens, Restart
<1>3. TypeOK' /\ OnTime'
  <2>1. te' \subseteq te \cup busy \cup sync \cup {now}
    BY <1>1
  <2>2. TypeOK'
    <3>1. te' \in SUBSET Nat
      BY <1>2, <2>1
    <3>2. pmi' \subseteq 0 .. now
      BY <1>1, <1>2 DEF TypeOK
    <3> QED BY <1>1, <1>2, <3>1, <3>2 DEF TypeOK
  <2>3. OnTime'
    <3>1. \A d \in te' : d <= now + Refresh
      BY <1>2, <2>1, TimesAssumption DEF TypeOK, OnTime
    <3> QED BY <1>1, <1>2, <2>1, <3>1, TimesAssumption DEF OnTime
  <2> QED BY <2>2, <2>3
<1>4. ReadsOlder' /\ NeverExpired'
  BY <1>1 DEF Inv, ReadsOlder, NeverExpired
<1>5. Watched'
  <2> SUFFICES ASSUME token.exists, token.ann # "bad"
               PROVE  \E d \in te' : d + Refresh <= token.exp
    BY <1>1 DEF Watched
  <2>1. CASE Announced
    <3>1. PICK d \in sync : d + TTL <= token.exp
      BY <2>1 DEF Announced
    <3>2. d + Refresh <= token.exp
      BY <1>2, <3>1, TimesAssumption
    <3> QED BY <1>1, <3>2
  <2>2. CASE \E d \in te \cup busy : d + Refresh <= token.exp
    <3>1. PICK d \in te \cup busy : d + Refresh <= token.exp
      BY <2>2
    <3>2. CASE d \in Later
      <4>1. now + Refresh <= token.exp
        BY <1>2, <3>1, <3>2, TimesAssumption DEF Later
      <4> QED BY <1>1, <4>1
    <3> QED BY <1>1, <3>1, <3>2
  <2> QED BY <1>2, <2>1, <2>2 DEF Watched
<1>6. Noticed'
  <2> SUFFICES ASSUME OpenShift, wanted, ~token.exists
               PROVE  \E d \in pmi' : d <= missing + Lag
    BY <1>1 DEF Noticed
  <2>1. CASE \E d \in sync : d <= missing
    BY <1>1, <1>2, <2>1, TimesAssumption
  <2>2. CASE \E d \in pmi : d <= missing + Lag
    BY <1>1, <2>2
  <2> QED BY <1>2, <2>1, <2>2 DEF Noticed
<1> QED BY <1>3, <1>4, <1>5, <1>6 DEF Inv

\* Time does not pass what is due by more than Lag, and what is due for the token
\* is due early enough.
LEMMA TickInv ==
  ASSUME Inv, Tick
  PROVE  Inv'
<1>1. /\ now' = now + 1
      /\ \A d \in te \cup busy \cup pmi \cup sync : now < d + Lag
      /\ UNCHANGED <<wanted, token, seen, sync, te, busy, pmi, missing, meddling>>
  BY DEF Tick
<1>2. /\ TypeOK /\ OnTime /\ Watched /\ now \in Nat /\ te \subseteq Nat
      /\ sync \subseteq Nat /\ busy \subseteq Nat /\ pmi \subseteq Nat /\ token.exp \in Nat
  BY DEF Inv, TypeOK, Tokens
<1>3. TypeOK'
  BY <1>1, <1>2 DEF TypeOK
<1>4. OnTime'
  BY <1>1, <1>2, TimesAssumption DEF OnTime
<1>5. ReadsOlder' /\ Watched' /\ Noticed'
  BY <1>1 DEF Inv, ReadsOlder, Watched, Announced, Noticed
<1>6. NeverExpired'
  <2> SUFFICES ASSUME token.exists, token.ann # "bad"
               PROVE  now + 1 <= token.exp
    BY <1>1 DEF NeverExpired
  <2>1. CASE \E d \in sync : d + TTL <= token.exp
    BY <1>1, <1>2, <2>1, TimesAssumption
  <2>2. CASE \E d \in te \cup busy : d + Refresh <= token.exp
    BY <1>1, <1>2, <2>2, TimesAssumption
  <2> QED BY <1>2, <2>1, <2>2 DEF Watched, Announced
<1> QED BY <1>3, <1>4, <1>5, <1>6 DEF Inv

(***************************************************************************)
(* The theorems.                                                           *)
(***************************************************************************)
LEMMA NextInv ==
  ASSUME Inv, [Next]_vars
  PROVE  Inv'
<1>1. CASE UNCHANGED vars
  BY <1>1 DEF vars, Inv, TypeOK, OnTime, ReadsOlder, Watched, Announced, Noticed,
              NeverExpired
<1> QED BY <1>1, UWMSecretTokenInv, TokenExpiryInv, DeleteExpiredInv, SyncCacheInv,
        WakeInv, EditSpecInv, EditSecretInv, RestartInv, TickInv DEF Next

\* The inductive invariant holds of every behaviour of the two controllers.
THEOREM Invariance == Spec => []Inv
<1>1. Inv /\ [Next]_vars => Inv'
  BY NextInv
<1> QED BY <1>1, InitInv, PTL DEF Spec

\* Types: whatever is due is due by now, TokenExpiry's delayed looks excepted, and the
\* secrets are ones the reconciler or a user can leave.
THEOREM TypeCorrect == Spec => []TypeOK
<1>1. Inv => TypeOK
  BY DEF Inv
<1> QED BY <1>1, Invariance, PTL

\* No expired token stays in use, for every lifetime and refresh interval such that
\* the reaction time fits into a refresh interval and both into the lifetime.
THEOREM TokenNeverExpired == Spec => []NeverExpired
<1>1. Inv => NeverExpired
  BY DEF Inv
<1> QED BY <1>1, Invariance, PTL

\* On OpenShift a deleted token is back within two reaction times.
THEOREM TokenRestored == Spec => []RestoredInTime
<1>1. Inv => RestoredInTime
  <2> SUFFICES ASSUME Inv, OpenShift, wanted, ~token.exists
               PROVE  now <= missing + 2 * Lag
    BY DEF RestoredInTime
  <2>1. /\ OnTime /\ Noticed /\ now \in Nat /\ missing \in Nat
        /\ sync \subseteq Nat /\ pmi \subseteq Nat
    BY DEF Inv, TypeOK
  <2>2. CASE \E d \in sync : d <= missing
    BY <2>1, <2>2, TimesAssumption DEF OnTime
  <2>3. CASE \E d \in pmi : d <= missing + Lag
    BY <2>1, <2>3, TimesAssumption DEF OnTime
  <2> QED BY <2>1, <2>2, <2>3 DEF Noticed
<1> QED BY <1>1, Invariance, PTL
===============================================================================
