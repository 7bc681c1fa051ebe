-------------------------- MODULE PowerMonitorProofs --------------------------
(***************************************************************************)
(* Proof that the PowerMonitor controller leaves, at rest, an internal of  *)
(* the PM's current generation and a status that mirrors it, and reports a *)
(* PM of another name as invalid, for any number of PMs one after the      *)
(* other, of edits and of faults.  Of the PMI controller only the steps of *)
(* InternalLifecycle are used, which PowerMonitorInternalStepProofs proves *)
(* it to keep to.                                                          *)
(***************************************************************************)
EXTENDS PowerMonitor, TLAPS

(***************************************************************************)
(* The inductive invariant.                                                *)
(***************************************************************************)
\* Version v is not newer than w.
Leq(v, w) == v.uid < w.uid \/ (v.uid = w.uid /\ v.gen <= w.gen)

\* Version v is not newer than the PM p; one that is gone has no generation.
Older(v, p) == v.uid < p.uid \/ (v.uid = p.uid /\ (p.live => v.gen <= p.gen))

\* The cached PM is an earlier state of the PM, and the deletion of one is final.
CacheBehind ==
  /\ ~pm.live => pm.deleted
  /\ pmCache.uid <= pm.uid
  /\ pmCache.uid = pm.uid /\ pm.live =>
       /\ pmCache.live /\ pmCache.gen <= pm.gen
       /\ pmCache.deleted => pm.deleted

\* The internal is only ever made from newer versions, and its cached copy is behind.
MadeInOrder ==
  /\ Older(made, pmCache)
  /\ Leq(icache.made, made)
  /\ run.at # "idle" => Leq(made, run.from) /\ Older(run.from, pmCache)

\* A cleanup is for a PM that is to go.
CleanupIsFinal ==
  /\ run.at # "idle" /\ run.deleted => run.from.uid < pm.uid \/ pm.deleted
  /\ run.at = "wait" => run.deleted

\* A reconcile works from the cached PM unless a newer one is queued.
RunIsCurrent ==
  run.at # "idle" /\ ~queued =>
    /\ pmCache.live /\ run.deleted = pmCache.deleted
    /\ run.from = Version(pmCache.uid, pmCache.gen)

\* The disappearance of an internal that a new PM took over while it was being
\* deleted will be noticed.
TakeoverNoticed ==
  internal.live /\ internal.deleted /\ pm.live /\ ~pm.deleted /\ made.uid = pm.uid =>
    icache.internal.live \/ icache.made # made

Behind == icache # [internal |-> internal, made |-> made]

\* A reconcile that went well so far has made the internal, or its disappearance has
\* yet to be noticed.
InternalMade ==
  run.at \in {"finalizer", "status"} /\ ~run.deleted /\ run.err = NoErr
    /\ (run.at = "status" => ~run.again)
    /\ ~queued /\ pm.live /\ ~pm.deleted /\ run.from.uid = pm.uid =>
  (internal.live /\ made = run.from) \/ (~internal.live /\ Behind)

\* A PM of another name is not reconciled.
InvalidIgnored ==
  /\ ~valid => ~internal.live /\ run.at \in {"idle", "invalid"}
  /\ valid => run.at # "invalid"

\* Nothing but news of the internal will make the controller look at the PM again.
AtRest == run.at = "idle" /\ ~queued /\ pmCache = pm /\ pm.live /\ ~pm.deleted

\* Then the PM shows what the cache says of the internal, which may be behind.
RestMirrored ==
  AtRest /\ valid =>
    /\ \/ internal.live /\ made = Version(pm.uid, pm.gen)
       \/ ~internal.live /\ Behind
    /\ icache.internal.live /\ ~icache.internal.deleted /\ HasStatusChanged(icache.internal)
         => pm.st = Status(pm.gen, icache.internal.ok, icache.made)

\* Or it shows that its name is not reconciled.
RestInvalid == AtRest /\ ~valid => pm.st = Status(pm.gen, FALSE, NoVersion)

Inv ==
  /\ TypeOK /\ CacheBehind /\ MadeInOrder /\ CleanupIsFinal /\ RunIsCurrent
  /\ TakeoverNoticed /\ InternalMade /\ InvalidIgnored /\ RestMirrored /\ RestInvalid

(***************************************************************************)
(* Types.                                                                  *)
(***************************************************************************)
Runs == [at : {"idle", "invalid", "internal", "wait", "finalizer", "status"},
         from : Versions, deleted : BOOLEAN, err : Errors, again : BOOLEAN]

Results == [action : Actions, err : Errors]

\* What the sub-reconcilers return.
LEMMA ResultFacts ==
  /\ Ok \in Results
  /\ \A a \in Actions, e \in Errors : Result(a, e) \in Results
  /\ \A a \in Actions : UpdaterResult("applied", a) = Ok
  /\ \A a \in Actions : \A o \in {"error", "conflict"} :
       UpdaterResult(o, a) \in Results /\ UpdaterResult(o, a) # Ok
  /\ \A a \in Actions : \A o \in {"gone", "timeout", "error"} :
       DeleterResult(o, a) \in Results
  BY DEF Ok, Result, Results, UpdaterResult, DeleterResult, Actions, Errors,
         NoErr, OtherError, SecretNotFoundError

\* The Runner: it goes on without an error only after an Ok, and so it ends without an
\* error and without asking for another run.
LEMMA AdvanceFacts ==
  ASSUME run \in Runs, NEW res \in Results, NEW next \in {"finalizer", "status"},
         Advance(res, next)
  PROVE  /\ run' \in Runs
         /\ run'.at \in {"finalizer", "status"} /\ run'.from = run.from
         /\ run'.deleted = run.deleted
         /\ run'.err = NoErr /\ (run'.at = "status" => ~run'.again) =>
              run.err = NoErr /\ res = Ok
<1>1. CASE EndsRun(res) \/ next = "status"
  <2>1. run' = [run EXCEPT !.at = "status", !.err = RunErr(run.err, res),
                           !.again = RunAgain(run.err, res)]
    BY <1>1 DEF Advance
  <2>2. RunErr(run.err, res) \in Errors /\ RunAgain(run.err, res) \in BOOLEAN
    BY DEF RunErr, RunAgain, LastErr, Runs, Results, Errors
  <2>3. RunErr(run.err, res) = NoErr /\ ~RunAgain(run.err, res) =>
          run.err = NoErr /\ res = Ok
    BY DEF RunErr, RunAgain, LastErr, Results, Ok, Result, Actions
  <2>4. /\ run' \in Runs /\ run'.at = "status" /\ run'.from = run.from
        /\ run'.deleted = run.deleted /\ run'.err = RunErr(run.err, res)
        /\ run'.again = RunAgain(run.err, res)
    BY <2>1, <2>2 DEF Runs
  <2> QED BY <2>3, <2>4
<1>2. CASE ~(EndsRun(res) \/ next = "status")
  <2>1. run' = [run EXCEPT !.at = next, !.err = LastErr(run.err, res)]
    BY <1>2 DEF Advance
  <2>2. LastErr(run.err, res) \in Errors
    BY DEF LastErr, Runs, Results
  <2>3. LastErr(run.err, res) = NoErr => run.err = NoErr /\ res = Ok
    BY <1>2 DEF LastErr, EndsRun, Results, Ok, Result, Actions
  <2> QED BY <2>1, <2>2, <2>3 DEF Runs
<1> QED BY <1>1, <1>2

\* What there is to write into the variables.
LEMMA ValueTypes ==
  /\ Life!Absent \in Internals /\ Life!Created \in Internals
  /\ NoVersion \in Versions /\ Idle \in Runs
  /\ \A u \in 0 .. MaxUid : NoPM(u) \in PMs /\ NewPM(u) \in PMs
<1>1. Life!Absent \in Internals /\ Life!Created \in Internals
  BY DEF Life!Absent, Life!Created, Internals
<1>2. NoVersion \in Versions
  BY PowerMonitorBounds DEF NoVersion, Version, Versions
<1>3. Idle \in Runs
  BY <1>2 DEF Idle, Runs, Errors
<1>4. \A u \in 0 .. MaxUid : NoPM(u) \in PMs /\ NewPM(u) \in PMs
  <2>1. 0 \in 0 .. MaxGen /\ 1 \in 0 .. MaxGen
    BY PowerMonitorBounds
  <2> QED BY <1>2, <2>1 DEF NoPM, NewPM, PMs, NoStatus, Status
<1> QED BY <1>1, <1>2, <1>3, <1>4

\* Steps of the lifecycle keep the internal's type.
LEMMA LifeType ==
  ASSUME internal \in Internals, Life!Next
  PROVE  internal' \in Internals
<1>1. CASE Life!Edit
  <2>1. internal.gen + 1 \in Nat
    BY DEF Internals
  <2> QED BY <1>1, <2>1 DEF Life!Edit, Internals
<1>2. CASE Life!Delete \/ Life!AddFinalizer \/ Life!RemoveFinalizer
  BY <1>2, ValueTypes DEF Life!Delete, Life!AddFinalizer, Life!RemoveFinalizer, Internals
<1>3. CASE Life!Report
  <2>1. PICK ok \in BOOLEAN : internal' = [internal EXCEPT !.og = internal.gen, !.ok = ok]
    BY <1>3 DEF Life!Report
  <2> QED BY <2>1 DEF Internals
<1> QED BY <1>1, <1>2, <1>3 DEF Life!Next, Life!Controller

\* The apply of the internal.
LEMMA AppliedFacts ==
  ASSUME TypeOK, Applied
  PROVE  /\ internal' \in Internals /\ made' = run.from /\ made' \in Versions
         /\ internal'.live
         /\ internal.live => internal'.deleted = internal.deleted
         /\ ~internal.live => ~internal'.deleted
<1>1. internal \in Internals /\ made' = run.from /\ run.from \in Versions
  BY DEF TypeOK, Applied
<1>2. CASE ~internal.live
  <2>1. internal' = Life!Created
    BY <1>2 DEF Applied
  <2> QED BY <1>1, <1>2, <2>1, ValueTypes DEF Life!Created
<1>3. CASE internal.live /\ internal' = internal
  BY <1>1, <1>3
<1>4. CASE internal.live /\ internal' = [internal EXCEPT !.gen = @ + 1]
  <2>1. internal.gen + 1 \in Nat
    BY <1>1 DEF Internals
  <2> QED BY <1>1, <1>4, <2>1 DEF Internals
<1> QED BY <1>1, <1>2, <1>3, <1>4 DEF Applied

\* The count of faults stays within its bound.
LEMMA FaultType ==
  ASSUME faults \in 0 .. MaxFaults, Fault \/ NoFault
  PROVE  faults' \in 0 .. MaxFaults
  BY PowerMonitorBounds DEF Fault, NoFault

(***************************************************************************)
(* Versions.                                                               *)
(***************************************************************************)
\* Uids and generations are numbers.
LEMMA Numbers ==
  ASSUME TypeOK
  PROVE  /\ pm.uid \in Nat /\ pm.gen \in Nat /\ pmCache.uid \in Nat /\ pmCache.gen \in Nat
         /\ \A v \in Versions : v.uid \in Nat /\ v.gen \in Nat
         /\ made \in Versions /\ icache.made \in Versions /\ run.from \in Versions
         /\ run \in Runs
  BY PowerMonitorBounds DEF TypeOK, PMs, Versions, Runs

\* What is not newer than the cached PM is not newer than the PM.
LEMMA OlderThanPM ==
  ASSUME TypeOK, CacheBehind, NEW v \in Versions, Older(v, pmCache)
  PROVE  Older(v, pm)
  BY Numbers DEF CacheBehind, Older

\* The order of versions.
LEMMA LeqOrder ==
  ASSUME TypeOK, NEW v \in Versions, NEW w \in Versions
  PROVE  /\ Leq(v, v)
         /\ Leq(v, w) /\ Leq(w, v) => v = w
         /\ \A u \in Versions : Leq(u, v) /\ Leq(v, w) => Leq(u, w)
         /\ \A p \in PMs : Leq(v, w) /\ Older(w, p) => Older(v, p)
<1>1. \A u \in Versions : u.uid \in Nat /\ u.gen \in Nat
  BY Numbers
<1>2. Leq(v, v) /\ \A u \in Versions : Leq(u, v) /\ Leq(v, w) => Leq(u, w)
  BY <1>1 DEF Leq
<1>3. Leq(v, w) /\ Leq(w, v) => v = w
  BY <1>1 DEF Leq, Versions
<1>4. ASSUME NEW p \in PMs, Leq(v, w), Older(w, p) PROVE Older(v, p)
  <2>1. p.uid \in Nat /\ p.gen \in Nat
    BY PowerMonitorBounds DEF PMs
  <2> QED BY <1>1, <1>4, <2>1 DEF Leq, Older
<1> QED BY <1>2, <1>3, <1>4

(***************************************************************************)
(* Requests: a queued one excuses whatever is to be done.                  *)
(***************************************************************************)
LEMMA QueuedInv ==
  ASSUME Inv, queued' = TRUE, run' \in {run, Idle}, pmCache' \in {pmCache, pm},
         icache' \in {icache, [internal |-> internal, made |-> made]},
         UNCHANGED <<valid, pm, internal, made>>, faults' \in 0 .. MaxFaults
  PROVE  Inv'
<1>1. TypeOK /\ CacheBehind /\ MadeInOrder
  BY DEF Inv
<1>2. /\ Idle \in Runs /\ Idle.at = "idle"
  BY ValueTypes DEF Idle
<1>3. TypeOK'
  BY <1>1, <1>2 DEF TypeOK, Runs
<1>4. CacheBehind'
  BY <1>1, Numbers DEF CacheBehind
<1>5. MadeInOrder'
  <2>1. Older(made, pmCache') /\ (run.at # "idle" => Older(run.from, pmCache'))
    BY <1>1, Numbers, OlderThanPM DEF MadeInOrder
  <2>2. Leq(icache'.made, made)
    BY <1>1, Numbers, LeqOrder DEF MadeInOrder
  <2> QED BY <1>1, <1>2, <2>1, <2>2 DEF MadeInOrder, Older, Leq
<1>6. CleanupIsFinal' /\ RunIsCurrent'
  BY <1>2 DEF Inv, CleanupIsFinal, RunIsCurrent
<1>7. TakeoverNoticed'
  BY DEF Inv, TakeoverNoticed
<1>8. InternalMade' /\ RestMirrored' /\ RestInvalid'
  BY DEF InternalMade, RestMirrored, RestInvalid, AtRest
<1>9. InvalidIgnored'
  BY <1>2 DEF Inv, InvalidIgnored
<1> QED BY <1>3, <1>4, <1>5, <1>6, <1>7, <1>8, <1>9 DEF Inv

\* Deliveries of the caches, the resync and crashes.
LEMMA RequestsInv ==
  ASSUME Inv, SyncPM \/ SyncInternal \/ Wake \/ Crash
  PROVE  Inv'
<1>1. faults' \in 0 .. MaxFaults
  BY FaultType DEF SyncPM, SyncInternal, Wake, Crash, Inv, TypeOK, NoFault
<1> QED BY <1>1, QueuedInv DEF SyncPM, SyncInternal, Wake, Crash

(***************************************************************************)
(* Users.                                                                  *)
(***************************************************************************)
\* An edit or a deletion: the cached PM is behind.
LEMMA ChangedPMInv ==
  ASSUME Inv, UNCHANGED <<valid, pmCache, internal, made, icache, queued, run, faults>>,
         pm' \in PMs, CacheBehind', pm'.uid = pm.uid,
         pm'.live => pm.live, pm.deleted => pm'.deleted, pmCache = pm' => pm'.deleted
  PROVE  Inv'
<1>1. TypeOK'
  BY DEF Inv, TypeOK
<1>2. MadeInOrder' /\ RunIsCurrent' /\ InvalidIgnored'
  BY DEF Inv, MadeInOrder, Older, Leq, RunIsCurrent, InvalidIgnored, Version
<1>3. CleanupIsFinal' /\ TakeoverNoticed'
  BY DEF Inv, CleanupIsFinal, TakeoverNoticed
<1>4. InternalMade'
  BY DEF Inv, InternalMade, Behind
<1>5. RestMirrored' /\ RestInvalid'
  BY DEF RestMirrored, RestInvalid, AtRest
<1> QED BY <1>1, <1>2, <1>3, <1>4, <1>5 DEF Inv

LEMMA EditPMInv ==
  ASSUME Inv, EditPM
  PROVE  Inv'
<1>1. /\ pm.live /\ pm.gen < MaxGen /\ pm' = [pm EXCEPT !.gen = @ + 1]
      /\ UNCHANGED <<valid, pmCache, internal, made, icache, queued, run, faults>>
      /\ pm \in PMs /\ TypeOK /\ CacheBehind
  BY DEF EditPM, Inv, TypeOK
<1>2. pm.gen + 1 \in 0 .. MaxGen
  BY <1>1, Numbers, PowerMonitorBounds
<1>3. /\ pm' \in PMs /\ pm'.uid = pm.uid /\ pm'.live = pm.live /\ pm'.deleted = pm.deleted
      /\ pm'.gen = pm.gen + 1
  BY <1>1, <1>2 DEF PMs
<1>4. CacheBehind'
  BY <1>1, <1>3, Numbers DEF CacheBehind
<1>5. pmCache # pm'
  <2> SUFFICES ASSUME pmCache = pm' PROVE FALSE
    OBVIOUS
  <2>1. pmCache.uid = pm.uid /\ pmCache.gen = pm.gen + 1
    BY <1>3
  <2> QED BY <1>1, <2>1, Numbers DEF CacheBehind
<1> QED BY <1>1, <1>3, <1>4, <1>5, ChangedPMInv

LEMMA DeletePMInv ==
  ASSUME Inv, DeletePM
  PROVE  Inv'
<1>1. /\ pm.live /\ pm' = IF pm.fin THEN [pm EXCEPT !.deleted = TRUE] ELSE NoPM(pm.uid)
      /\ UNCHANGED <<valid, pmCache, internal, made, icache, queued, run, faults>>
      /\ pm \in PMs /\ TypeOK /\ CacheBehind
  BY DEF DeletePM, Inv, TypeOK
<1>2. /\ pm' \in PMs /\ pm'.uid = pm.uid /\ pm'.deleted
      /\ pm'.live => pm'.gen = pm.gen
  <2>1. CASE pm' = [pm EXCEPT !.deleted = TRUE]
    BY <1>1, <2>1 DEF PMs
  <2>2. CASE pm' = NoPM(pm.uid)
    <3>1. pm.uid \in 0 .. MaxUid
      BY <1>1 DEF PMs
    <3> QED BY <2>2, <3>1, ValueTypes DEF NoPM
  <2> QED BY <1>1, <2>1, <2>2
<1>3. CacheBehind'
  BY <1>1, <1>2 DEF CacheBehind
<1> QED BY <1>1, <1>2, <1>3, ChangedPMInv

\* A new PM of the same name: what the cache and the run know is of an older one.
LEMMA CreatePMInv ==
  ASSUME Inv, CreatePM
  PROVE  Inv'
<1>1. /\ ~pm.live /\ pm.uid < MaxUid /\ pm' = NewPM(pm.uid + 1)
      /\ UNCHANGED <<valid, pmCache, internal, made, icache, queued, run, faults>>
      /\ TypeOK /\ CacheBehind /\ MadeInOrder
  BY DEF CreatePM, Inv
<1>2. pm.uid + 1 \in 0 .. MaxUid
  BY <1>1, Numbers, PowerMonitorBounds
<1>3. /\ pm' \in PMs /\ pm'.uid = pm.uid + 1 /\ pm'.live /\ ~pm'.deleted
  BY <1>1, <1>2, ValueTypes DEF NewPM
<1>4. /\ pmCache.uid < pm'.uid /\ made.uid < pm'.uid
      /\ run.at # "idle" => run.from.uid < pm'.uid
  BY <1>1, <1>3, Numbers DEF CacheBehind, MadeInOrder, Older
<1>5. /\ pmCache.uid # pm'.uid /\ made.uid # pm'.uid /\ pmCache.uid <= pm'.uid
      /\ run.at # "idle" => run.from.uid # pm'.uid
  BY <1>3, <1>4, Numbers, <1>1
<1>6. TypeOK'
  BY <1>1, <1>3 DEF TypeOK
<1>7. CacheBehind'
  BY <1>1, <1>3, <1>5 DEF CacheBehind
<1>8. MadeInOrder' /\ RunIsCurrent' /\ InvalidIgnored'
  BY <1>1 DEF Inv, MadeInOrder, Older, Leq, RunIsCurrent, InvalidIgnored, Version
<1>9. CleanupIsFinal' /\ TakeoverNoticed' /\ InternalMade'
  <2>1. CleanupIsFinal'
    BY <1>1, <1>4 DEF Inv, CleanupIsFinal
  <2>2. TakeoverNoticed' /\ InternalMade'
    BY <1>1, <1>5 DEF TakeoverNoticed, InternalMade
  <2> QED BY <2>1, <2>2
<1>10. RestMirrored' /\ RestInvalid'
  BY <1>1, <1>5 DEF RestMirrored, RestInvalid, AtRest
<1> QED BY <1>6, <1>7, <1>8, <1>9, <1>10 DEF Inv

(***************************************************************************)
(* The PMI controller and the garbage collector.                           *)
(***************************************************************************)
\* A step of the lifecycle of an existing internal: if it disappears although it was
\* taken over, the cache is behind.
LEMMA InternalInv ==
  ASSUME Inv, CollectInternal \/ InternalController
  PROVE  Inv'
<1>1. /\ UNCHANGED <<valid, pm, pmCache, made, icache, queued, run, faults>>
      /\ internal \in Internals /\ icache \in [internal : Internals, made : Versions]
      /\ TypeOK
  BY DEF CollectInternal, InternalController, Inv, TypeOK
<1>2. /\ internal.live /\ internal' \in Internals
      /\ \/ internal' = Life!Absent /\ internal.deleted
         \/ internal'.live /\ internal'.deleted = internal.deleted
         \/ ~(pm.live /\ pm.uid = made.uid)
  <2>1. CASE CollectInternal
    <3>1. Life!Delete
      BY <2>1 DEF CollectInternal
    <3> QED BY <1>1, <2>1, <3>1, LifeType DEF CollectInternal, Life!Delete, Life!Next
  <2>2. CASE Life!AddFinalizer \/ Life!RemoveFinalizer
    <3>1. internal' \in Internals
      BY <1>1, <2>2, LifeType DEF Life!Next, Life!Controller
    <3> QED BY <1>1, <2>2, <3>1 DEF Life!AddFinalizer, Life!RemoveFinalizer, Internals
  <2>3. CASE Life!Report
    <3>1. internal' \in Internals
      BY <1>1, <2>3, LifeType DEF Life!Next, Life!Controller
    <3> QED BY <1>1, <2>3, <3>1 DEF Life!Report, Internals
  <2> QED BY <2>1, <2>2, <2>3 DEF InternalController, Life!Controller
<1>3. valid
  BY <1>2 DEF Inv, InvalidIgnored, TypeOK
<1>4. TypeOK'
  BY <1>1, <1>2 DEF TypeOK
<1>5. CacheBehind' /\ MadeInOrder' /\ CleanupIsFinal' /\ RunIsCurrent' /\ InvalidIgnored'
  BY <1>1, <1>3 DEF Inv, CacheBehind, MadeInOrder, Older, Leq, CleanupIsFinal,
                    RunIsCurrent, InvalidIgnored, Version
<1>6. ~Life!Absent.live
  BY DEF Life!Absent
<1>7. TakeoverNoticed'
  BY <1>1, <1>2, <1>6 DEF Inv, TakeoverNoticed
<1>8. ASSUME pm.live, ~pm.deleted, made.uid = pm.uid, internal.live
      PROVE  internal'.live \/ (~internal'.live /\ Behind')
  <2>1. CASE internal' = Life!Absent /\ internal.deleted
    <3>1. icache.internal.live \/ icache.made # made
      BY <1>8, <2>1 DEF Inv, TakeoverNoticed
    <3> QED BY <1>1, <1>6, <2>1, <3>1 DEF Behind
  <2> QED BY <1>2, <1>8, <2>1
<1>9. InternalMade'
  <2> SUFFICES ASSUME run.at \in {"finalizer", "status"}, ~run.deleted, run.err = NoErr,
                      run.at = "status" => ~run.again, ~queued, pm.live, ~pm.deleted,
                      run.from.uid = pm.uid
               PROVE  \/ internal'.live /\ made = run.from
                      \/ ~internal'.live /\ Behind'
    BY <1>1 DEF InternalMade
  <2>1. made = run.from
    BY <1>2 DEF Inv, InternalMade
  <2> QED BY <1>2, <1>8, <2>1
<1>10. RestMirrored' /\ RestInvalid'
  <2>1. RestInvalid'
    BY <1>1, <1>3 DEF RestInvalid
  <2>2. ASSUME AtRest
        PROVE  \/ internal'.live /\ made = Version(pm.uid, pm.gen)
               \/ ~internal'.live /\ Behind'
    <3>1. made = Version(pm.uid, pm.gen) /\ pm.live /\ ~pm.deleted
      BY <1>2, <1>3, <2>2 DEF Inv, RestMirrored, AtRest
    <3>2. made.uid = pm.uid
      BY <3>1 DEF Version
    <3> QED BY <1>2, <1>8, <3>1, <3>2
  <2>3. RestMirrored'
    BY <1>1, <1>3, <2>2 DEF Inv, RestMirrored, AtRest, Version, Status, HasStatusChanged
  <2> QED BY <2>1, <2>3
<1> QED BY <1>4, <1>5, <1>7, <1>9, <1>10 DEF Inv

(***************************************************************************)
(* The steps of a reconcile.                                               *)
(***************************************************************************)
\* What they have in common.
LEMMA RunStepInv ==
  ASSUME Inv, run.at \in {"internal", "wait", "finalizer"},
         run' \in Runs, run'.at \in {"wait", "finalizer", "status"},
         run'.from = run.from, run'.deleted = run.deleted,
         UNCHANGED <<valid, pmCache, icache, queued>>, faults' \in 0 .. MaxFaults,
         pm' \in PMs, internal' \in Internals, made' \in {made, run.from},
         CacheBehind', CleanupIsFinal', TakeoverNoticed', InternalMade'
  PROVE  Inv'
<1>1. TypeOK /\ MadeInOrder
  BY DEF Inv
<1>2. TypeOK'
  BY <1>1, Numbers DEF TypeOK, Runs
<1>3. MadeInOrder'
  <2>1. /\ Older(made, pmCache) /\ Older(run.from, pmCache)
        /\ Leq(icache.made, made) /\ Leq(made, run.from)
    BY <1>1 DEF MadeInOrder
  <2>2. Leq(icache.made, run.from) /\ Leq(run.from, run.from)
    BY <1>1, <2>1, Numbers, LeqOrder
  <2>3. /\ Older(made', pmCache) /\ Leq(icache.made, made') /\ Leq(made', run.from)
    BY <2>1, <2>2
  <2> QED BY <2>1, <2>3 DEF MadeInOrder, Older, Leq
<1>4. RunIsCurrent' /\ InvalidIgnored'
  <2>1. valid
    BY <1>1 DEF Inv, InvalidIgnored, TypeOK
  <2> QED BY <2>1 DEF Inv, RunIsCurrent, InvalidIgnored, Version
<1>5. RestMirrored' /\ RestInvalid'
  BY DEF RestMirrored, RestInvalid, AtRest
<1> QED BY <1>2, <1>3, <1>4, <1>5 DEF Inv

\* The Updater of the internal.
LEMMA UpdateInternalInv ==
  ASSUME Inv, UpdateInternal
  PROVE  Inv'
<1>1. /\ run.at = "internal" /\ ~run.deleted
      /\ UNCHANGED <<valid, pm, pmCache, icache, queued>>
      /\ TypeOK /\ run \in Runs /\ pm \in PMs /\ internal \in Internals
  BY Numbers DEF UpdateInternal, Inv, TypeOK
<1>2. faults' \in 0 .. MaxFaults
  BY FaultType DEF UpdateInternal, Inv, TypeOK
<1>3. PICK res \in Results :
        /\ Advance(res, "finalizer")
        /\ Applied \/ UNCHANGED <<internal, made>>
        /\ res = Ok => Applied
  <2>1. /\ UpdaterResult("applied", "Continue") \in Results
        /\ \A o \in {"error", "conflict"} : /\ UpdaterResult(o, "Continue") \in Results
                                            /\ UpdaterResult(o, "Continue") # Ok
    BY ResultFacts DEF Actions
  <2> QED BY <2>1 DEF UpdateInternal
<1>4. /\ run' \in Runs
      /\ run'.at \in {"finalizer", "status"} /\ run'.from = run.from
      /\ run'.deleted = run.deleted
      /\ run'.err = NoErr /\ (run'.at = "status" => ~run'.again) => Applied
  BY <1>1, <1>3, AdvanceFacts
<1>5. CacheBehind' /\ CleanupIsFinal'
  BY <1>1, <1>4 DEF Inv, CacheBehind, CleanupIsFinal
<1>6. internal' \in Internals /\ made' \in {made, run.from}
  BY <1>1, <1>3, AppliedFacts
<1>7. TakeoverNoticed'
  <2>1. CASE UNCHANGED <<internal, made>>
    BY <1>1, <2>1 DEF Inv, TakeoverNoticed
  <2>2. CASE Applied
    <3> SUFFICES ASSUME internal'.live, internal'.deleted, pm.live, ~pm.deleted,
                        made'.uid = pm.uid, ~icache.internal.live, icache.made = made'
                 PROVE  FALSE
      BY <1>1 DEF TakeoverNoticed
    <3>1. /\ internal.live /\ internal.deleted /\ made' = run.from
      BY <1>1, <2>2, AppliedFacts DEF Internals
    <3>2. Leq(icache.made, made) /\ Leq(made, run.from)
      BY <1>1 DEF Inv, MadeInOrder
    <3>3. made = run.from
      BY <1>1, <3>1, <3>2, Numbers, LeqOrder
    <3> QED BY <3>1, <3>3 DEF Inv, TakeoverNoticed
  <2> QED BY <1>3, <2>1, <2>2
<1>8. InternalMade'
  <2> SUFFICES ASSUME Applied PROVE internal'.live /\ made' = run'.from
    BY <1>4 DEF InternalMade
  <2> QED BY <1>1, <1>4, AppliedFacts
<1> QED BY <1>1, <1>2, <1>4, <1>5, <1>6, <1>7, <1>8, RunStepInv

\* The Deleter of the internal: a PM that is to go has made it.
LEMMA DeleteInternalInv ==
  ASSUME Inv, DeleteInternal \/ AwaitInternal
  PROVE  Inv'
<1>1. /\ run.at \in {"internal", "wait"} /\ run.deleted
      /\ UNCHANGED <<valid, pm, pmCache, made, icache, queued>>
      /\ TypeOK /\ run \in Runs /\ pm \in PMs /\ internal \in Internals
  BY Numbers DEF DeleteInternal, AwaitInternal, Inv, TypeOK, CleanupIsFinal
<1>2. faults' \in 0 .. MaxFaults
  BY FaultType DEF DeleteInternal, AwaitInternal, Inv, TypeOK, NoFault
<1>3. /\ run' \in Runs /\ run'.at \in {"wait", "finalizer", "status"}
      /\ run'.from = run.from /\ run'.deleted = run.deleted
  <2>1. CASE run' = [run EXCEPT !.at = "wait"]
    BY <1>1, <2>1 DEF Runs
  <2>2. CASE \E o \in {"gone", "timeout", "error"} :
               Advance(DeleterResult(o, "Continue"), "finalizer")
    <3>1. \A o \in {"gone", "timeout", "error"} : DeleterResult(o, "Continue") \in Results
      BY ResultFacts DEF Actions
    <3> QED BY <1>1, <2>2, <3>1, AdvanceFacts
  <2> QED BY <2>1, <2>2 DEF DeleteInternal, AwaitInternal
<1>4. internal' = internal \/ Life!Delete
  BY DEF DeleteInternal, AwaitInternal
<1>5. internal' \in Internals
  BY <1>1, <1>4, LifeType DEF Life!Next
<1>6. CacheBehind' /\ CleanupIsFinal' /\ InternalMade'
  BY <1>1, <1>3 DEF Inv, CacheBehind, CleanupIsFinal, InternalMade
<1>7. TakeoverNoticed'
  <2> SUFFICES ASSUME pm.live, ~pm.deleted, made.uid = pm.uid PROVE FALSE
    BY <1>1 DEF TakeoverNoticed
  <2>1. run.from.uid < pm.uid /\ Leq(made, run.from)
    BY <1>1 DEF Inv, CleanupIsFinal, MadeInOrder
  <2> QED BY <1>1, <2>1, Numbers DEF Leq
<1> QED BY <1>1, <1>2, <1>3, <1>5, <1>6, <1>7, RunStepInv

\* The Finalizer: it writes the PM only if it has read its current state.
LEMMA FinalizerInv ==
  ASSUME Inv, Finalizer
  PROVE  Inv'
<1>1. /\ run.at = "finalizer"
      /\ UNCHANGED <<valid, pmCache, internal, made, icache, queued>>
      /\ TypeOK /\ run \in Runs /\ pm \in PMs /\ internal \in Internals
  BY Numbers DEF Finalizer, Inv, TypeOK
<1>2. faults' \in 0 .. MaxFaults
  BY FaultType DEF Finalizer, Inv, TypeOK
<1>3. PICK res \in Results : Advance(res, "status")
  BY ResultFacts DEF Finalizer, Actions, Errors
<1>4. /\ run' \in Runs /\ run'.at \in {"finalizer", "status"}
      /\ run'.from = run.from /\ run'.deleted = run.deleted
      /\ run'.err = NoErr /\ (run'.at = "status" => ~run'.again) => run.err = NoErr
  BY <1>1, <1>3, AdvanceFacts
<1>5. pm' \in {pm, NoPM(pm.uid), [pm EXCEPT !.fin = TRUE]}
  BY DEF Finalizer
<1>6. /\ pm' \in PMs /\ pm'.uid = pm.uid
      /\ pm.deleted => pm'.deleted
      /\ pm'.live => pm.live /\ pm'.gen = pm.gen /\ pm'.deleted = pm.deleted
      /\ ~pm'.live => pm'.deleted
  <2>1. CASE pm' = pm
    BY <1>1, <2>1 DEF Inv, CacheBehind
  <2>2. CASE pm' = [pm EXCEPT !.fin = TRUE]
    <3>1. ~pm.live => pm.deleted
      BY DEF Inv, CacheBehind
    <3> QED BY <1>1, <2>2, <3>1 DEF PMs
  <2>3. CASE pm' = NoPM(pm.uid)
    <3>1. pm.uid \in 0 .. MaxUid
      BY <1>1 DEF PMs
    <3> QED BY <2>3, <3>1, ValueTypes DEF NoPM
  <2> QED BY <1>5, <2>1, <2>2, <2>3
<1>7. CacheBehind'
  BY <1>1, <1>6 DEF Inv, CacheBehind
<1>8. CleanupIsFinal'
  BY <1>1, <1>4, <1>6 DEF Inv, CleanupIsFinal
<1>9. TakeoverNoticed'
  BY <1>1, <1>6 DEF Inv, TakeoverNoticed
<1>10. InternalMade'
  BY <1>1, <1>4, <1>6 DEF Inv, InternalMade, Behind
<1> QED BY <1>1, <1>2, <1>4, <1>6, <1>7, <1>8, <1>9, <1>10, RunStepInv

\* The start: the PM that is read is the cached one.
LEMMA StartInv ==
  ASSUME Inv, Start
  PROVE  Inv'
<1>1. /\ queued' = FALSE /\ UNCHANGED <<valid, pm, pmCache, internal, made, icache, faults>>
      /\ TypeOK /\ CacheBehind /\ pmCache \in PMs /\ Idle \in Runs /\ Idle.at = "idle"
      /\ run = Idle
  BY ValueTypes DEF Start, Inv, TypeOK, Idle
<1>2. CacheBehind' /\ TakeoverNoticed'
  BY <1>1 DEF Inv, CacheBehind, TakeoverNoticed
<1>3. Older(made, pmCache) /\ Leq(icache.made, made)
  BY DEF Inv, MadeInOrder
<1>4. CASE ~pmCache.live
  <2>1. run' = Idle
    BY <1>4 DEF Start
  <2>2. TypeOK'
    BY <1>1, <2>1 DEF TypeOK, Runs
  <2>3. MadeInOrder' /\ CleanupIsFinal' /\ RunIsCurrent' /\ InternalMade'
    BY <1>1, <1>3, <2>1
    DEF MadeInOrder, Older, Leq, CleanupIsFinal, RunIsCurrent, InternalMade
  <2>4. InvalidIgnored'
    BY <1>1, <2>1 DEF Inv, InvalidIgnored
  <2>5. RestMirrored' /\ RestInvalid'
    BY <1>1, <1>4 DEF RestMirrored, RestInvalid, AtRest
  <2> QED BY <1>2, <2>2, <2>3, <2>4, <2>5 DEF Inv
<1>5. CASE pmCache.live
  <2> DEFINE at   == IF valid THEN "internal" ELSE "invalid"
             from == Version(pmCache.uid, pmCache.gen)
  <2>1. run' = [Idle EXCEPT !.at = at, !.from = from, !.deleted = pmCache.deleted]
    BY <1>5 DEF Start
  <2>2. /\ from \in Versions /\ from.uid = pmCache.uid /\ from.gen = pmCache.gen
        /\ pmCache.deleted \in BOOLEAN
    BY <1>1 DEF Version, Versions, PMs
  <2>3. /\ run' \in Runs /\ run'.at = at /\ run'.from = from
        /\ run'.deleted = pmCache.deleted
    <3> HIDE DEF from
    <3> QED BY <1>1, <2>1, <2>2 DEF Runs
  <2>4. TypeOK'
    BY <1>1, <2>3 DEF TypeOK, Runs
  <2>5. MadeInOrder'
    <3>1. Leq(made, from) /\ Older(from, pmCache)
      <4> HIDE DEF from
      <4> QED BY <1>1, <1>3, <1>5, <2>2, Numbers DEF Older, Leq
    <3> QED BY <1>1, <1>3, <2>3, <3>1 DEF MadeInOrder, Older, Leq
  <2>6. CleanupIsFinal'
    <3>1. pmCache.deleted => pmCache.uid < pm.uid \/ pm.deleted
      BY <1>1, Numbers DEF CacheBehind
    <3> HIDE DEF from
    <3> QED BY <1>1, <2>2, <2>3, <3>1 DEF CleanupIsFinal
  <2>7. RunIsCurrent' /\ InternalMade' /\ RestMirrored' /\ RestInvalid'
    BY <1>1, <1>5, <2>3 DEF RunIsCurrent, InternalMade, RestMirrored, RestInvalid, AtRest
  <2>8. InvalidIgnored'
    BY <1>1, <2>3 DEF Inv, InvalidIgnored
  <2> QED BY <1>2, <2>4, <2>5, <2>6, <2>7, <2>8 DEF Inv
<1> QED BY <1>4, <1>5

(***************************************************************************)
(* The end of a reconcile.                                                 *)
(***************************************************************************)
\* What its kinds have in common: only the status of the PM is written.
LEMMA EndInv ==
  ASSUME Inv, run' = Idle, queued' \in BOOLEAN,
         UNCHANGED <<valid, pmCache, internal, made, icache>>, faults' \in 0 .. MaxFaults,
         pm' \in PMs, pm'.live = pm.live, pm'.uid = pm.uid, pm'.gen = pm.gen,
         pm'.deleted = pm.deleted, RestMirrored', RestInvalid'
  PROVE  Inv'
<1>1. Idle \in Runs /\ Idle.at = "idle"
  BY ValueTypes DEF Idle
<1>2. TypeOK'
  BY <1>1 DEF Inv, TypeOK, Runs
<1>3. CacheBehind' /\ TakeoverNoticed'
  BY DEF Inv, CacheBehind, TakeoverNoticed
<1>4. MadeInOrder' /\ CleanupIsFinal' /\ RunIsCurrent' /\ InternalMade'
  BY <1>1 DEF Inv, MadeInOrder, Older, Leq, CleanupIsFinal, RunIsCurrent, InternalMade
<1>5. InvalidIgnored'
  BY <1>1 DEF Inv, InvalidIgnored
<1> QED BY <1>2, <1>3, <1>4, <1>5 DEF Inv

\* The write of the status: without an error it is the status of the cached PM.
LEMMA WriteStatusFacts ==
  ASSUME TypeOK, NEW st \in [og : 0 .. MaxGen, ok : BOOLEAN, from : Versions],
         WriteStatus(st)
  PROVE  /\ run' = Idle /\ queued' \in BOOLEAN /\ faults' \in 0 .. MaxFaults
         /\ pm' \in PMs /\ pm'.live = pm.live /\ pm'.uid = pm.uid /\ pm'.gen = pm.gen
         /\ pm'.deleted = pm.deleted
         /\ ~queued' => /\ pm'.st = st /\ pmCache = pm
                        /\ ~queued /\ run.err = NoErr /\ ~run.again
<1>1. run' = Idle /\ queued' \in BOOLEAN /\ faults' \in 0 .. MaxFaults
  BY FaultType DEF WriteStatus, End, TypeOK
<1>2. pm' \in {pm, [pm EXCEPT !.st = st]} /\ pm \in PMs
  BY DEF WriteStatus, TypeOK
<1>3. /\ pm' \in PMs /\ pm'.live = pm.live /\ pm'.uid = pm.uid /\ pm'.gen = pm.gen
      /\ pm'.deleted = pm.deleted
  BY <1>2 DEF PMs
<1>4. ~queued' => /\ pm' = [pm EXCEPT !.st = st] /\ pmCache = pm
                  /\ ~queued /\ run.err = NoErr /\ ~run.again
  BY DEF WriteStatus, End
<1>5. [pm EXCEPT !.st = st].st = st
  BY <1>2 DEF PMs
<1> QED BY <1>1, <1>3, <1>4, <1>5

\* A reconcile that ends without another one to come has made the internal.
LEMMA InternalMadeAtEnd ==
  ASSUME Inv, run.at = "status", ~queued, run.err = NoErr, ~run.again, pmCache = pm,
         pm.live, ~pm.deleted
  PROVE  \/ internal.live /\ made = Version(pm.uid, pm.gen)
         \/ ~internal.live /\ Behind
<1>1. ~run.deleted /\ run.from = Version(pm.uid, pm.gen)
  BY DEF Inv, RunIsCurrent
<1>2. run.from.uid = pm.uid
  BY <1>1 DEF Version
<1> QED BY <1>1, <1>2 DEF Inv, InternalMade

\* updatePowerMonitorStatus.
LEMMA UpdateStatusInv ==
  ASSUME Inv, UpdateStatus
  PROVE  Inv'
<1>1. /\ run.at = "status" /\ UNCHANGED <<valid, pmCache, internal, made, icache>>
      /\ TypeOK /\ pm \in PMs /\ pmCache \in PMs
      /\ icache \in [internal : Internals, made : Versions]
  BY DEF UpdateStatus, Inv, TypeOK
<1>2. valid /\ Idle.at = "idle"
  BY <1>1 DEF Inv, InvalidIgnored, TypeOK, Idle
<1>3. RestInvalid'
  BY <1>1, <1>2 DEF RestInvalid
<1> DEFINE skip == \/ ~pmCache.live \/ pmCache.deleted
                   \/ ~icache.internal.live \/ icache.internal.deleted
                   \/ ~HasStatusChanged(icache.internal)
           st   == Status(pmCache.gen, icache.internal.ok, icache.made)
<1>4. CASE skip
  <2>1. End(FALSE) /\ NoFault /\ UNCHANGED pm
    BY <1>4 DEF UpdateStatus
  <2>2. run' = Idle /\ queued' \in BOOLEAN /\ faults' \in 0 .. MaxFaults
    BY <1>1, <2>1, FaultType DEF End, TypeOK
  <2>3. ~queued' => ~queued /\ run.err = NoErr /\ ~run.again
    BY <2>1 DEF End
  <2>4. RestMirrored'
    <3> SUFFICES ASSUME ~queued', pmCache = pm, pm.live, ~pm.deleted
                 PROVE  /\ \/ internal.live /\ made = Version(pm.uid, pm.gen)
                           \/ ~internal.live /\ Behind
                        /\ ~(/\ icache.internal.live /\ ~icache.internal.deleted
                             /\ HasStatusChanged(icache.internal))
      BY <1>1, <2>1 DEF RestMirrored, AtRest, Behind, HasStatusChanged, Version
    <3>1. \/ internal.live /\ made = Version(pm.uid, pm.gen)
          \/ ~internal.live /\ Behind
      BY <1>1, <2>3, InternalMadeAtEnd
    <3> QED BY <1>4, <3>1
  <2> QED BY <1>1, <1>3, <2>1, <2>2, <2>4, EndInv
<1>5. CASE ~skip
  <2>1. WriteStatus(st)
    BY <1>5 DEF UpdateStatus
  <2>2. st \in [og : 0 .. MaxGen, ok : BOOLEAN, from : Versions]
    BY <1>1 DEF Status, PMs, Internals
  <2> HIDE DEF st
  <2>3. /\ run' = Idle /\ queued' \in BOOLEAN /\ faults' \in 0 .. MaxFaults
        /\ pm' \in PMs /\ pm'.live = pm.live /\ pm'.uid = pm.uid /\ pm'.gen = pm.gen
        /\ pm'.deleted = pm.deleted
        /\ ~queued' => /\ pm'.st = st /\ pmCache = pm
                       /\ ~queued /\ run.err = NoErr /\ ~run.again
    BY <1>1, <2>1, <2>2, WriteStatusFacts
  <2>4. RestMirrored'
    <3> SUFFICES ASSUME ~queued', pm.live, ~pm.deleted
                 PROVE  /\ \/ internal.live /\ made = Version(pm.uid, pm.gen)
                           \/ ~internal.live /\ Behind
                        /\ pm'.st = Status(pm.gen, icache.internal.ok, icache.made)
      BY <1>1, <2>3 DEF RestMirrored, AtRest, Behind, Status, Version
    <3>1. \/ internal.live /\ made = Version(pm.uid, pm.gen)
          \/ ~internal.live /\ Behind
      BY <1>1, <2>3, InternalMadeAtEnd
    <3> QED BY <2>3, <3>1 DEF st
  <2> QED BY <1>1, <1>3, <2>3, <2>4, EndInv
<1> QED BY <1>4, <1>5

\* setInvalidStatus.
LEMMA SetInvalidStatusInv ==
  ASSUME Inv, SetInvalidStatus
  PROVE  Inv'
<1>1. /\ run.at = "invalid" /\ UNCHANGED <<valid, pmCache, internal, made, icache>>
      /\ TypeOK /\ pm \in PMs /\ pmCache \in PMs
  BY DEF SetInvalidStatus, Inv, TypeOK
<1>2. ~valid
  BY <1>1 DEF Inv, InvalidIgnored
<1>3. RestMirrored'
  BY <1>1, <1>2 DEF RestMirrored
<1> DEFINE st == Status(pmCache.gen, FALSE, NoVersion)
<1>4. CASE ~pmCache.live \/ pmCache.deleted
  <2>1. End(FALSE) /\ NoFault /\ UNCHANGED pm
    BY <1>4 DEF SetInvalidStatus
  <2>2. run' = Idle /\ queued' \in BOOLEAN /\ faults' \in 0 .. MaxFaults
    BY <1>1, <2>1, FaultType DEF End, TypeOK
  <2>3. RestInvalid'
    BY <1>1, <1>4, <2>1 DEF RestInvalid, AtRest
  <2> QED BY <1>1, <1>3, <2>1, <2>2, <2>3, EndInv
<1>5. CASE ~(~pmCache.live \/ pmCache.deleted)
  <2>1. WriteStatus(st)
    BY <1>5 DEF SetInvalidStatus
  <2>2. st \in [og : 0 .. MaxGen, ok : BOOLEAN, from : Versions]
    BY <1>1, ValueTypes DEF Status, PMs
  <2> HIDE DEF st
  <2>3. /\ run' = Idle /\ queued' \in BOOLEAN /\ faults' \in 0 .. MaxFaults
        /\ pm' \in PMs /\ pm'.live = pm.live /\ pm'.uid = pm.uid /\ pm'.gen = pm.gen
        /\ pm'.deleted = pm.deleted
        /\ ~queued' => pm'.st = st /\ pmCache = pm
    BY <1>1, <2>1, <2>2, WriteStatusFacts
  <2>4. RestInvalid'
    <3>1. ~queued' => pm'.st = Status(pm'.gen, FALSE, NoVersion)
      BY <2>3 DEF st
    <3> QED BY <3>1 DEF RestInvalid, AtRest, Status
  <2> QED BY <1>1, <1>3, <2>3, <2>4, EndInv
<1> QED BY <1>4, <1>5

(***************************************************************************)
(* The theorems.                                                           *)
(***************************************************************************)
\* The operator starts with a new PM that it has not seen.
LEMMA InitInv ==
  ASSUME Init
  PROVE  Inv
<1>1. /\ valid \in BOOLEAN /\ queued = FALSE /\ run = Idle /\ faults = 0
      /\ pm = NewPM(1) /\ pmCache = NoPM(0) /\ internal = Life!Absent /\ made = NoVersion
      /\ icache = [internal |-> Life!Absent, made |-> NoVersion]
  BY DEF Init
<1>2. 0 \in 0 .. MaxUid /\ 1 \in 0 .. MaxUid /\ 0 \in 0 .. MaxFaults
  BY PowerMonitorBounds
<1>3. TypeOK
  BY <1>1, <1>2, ValueTypes DEF TypeOK, Runs
<1>4. CacheBehind
  BY <1>1 DEF CacheBehind, NewPM, NoPM
<1>5. MadeInOrder /\ CleanupIsFinal /\ RunIsCurrent /\ InternalMade
  BY <1>1 DEF MadeInOrder, CleanupIsFinal, RunIsCurrent, InternalMade, Older, Leq, NoPM,
              NoVersion, Version, Idle
<1>6. TakeoverNoticed /\ InvalidIgnored
  BY <1>1 DEF TakeoverNoticed, InvalidIgnored, Life!Absent, Idle
<1>7. RestMirrored /\ RestInvalid
  BY <1>1 DEF RestMirrored, RestInvalid, AtRest, NoPM, NewPM
<1> QED BY <1>3, <1>4, <1>5, <1>6, <1>7 DEF Inv

\* Every step keeps the invariant.
LEMMA NextInv ==
  ASSUME Inv, [Next]_vars
  PROVE  Inv'
<1>1. CASE Operator
  BY <1>1, StartInv, UpdateInternalInv, DeleteInternalInv, FinalizerInv, UpdateStatusInv,
     SetInvalidStatusInv
  DEF Operator
<1>2. CASE SyncPM \/ SyncInternal \/ Wake \/ Crash
  BY <1>2, RequestsInv
<1>3. CASE EditPM \/ DeletePM \/ CreatePM
  BY <1>3, EditPMInv, DeletePMInv, CreatePMInv
<1>4. CASE CollectInternal \/ InternalController
  BY <1>4, InternalInv
<1>5. CASE UNCHANGED vars
  <2>1. UNCHANGED <<valid, pm, pmCache, internal, made, icache, queued, run, faults>>
    BY <1>5 DEF vars
  <2>2. TypeOK' /\ CacheBehind' /\ MadeInOrder' /\ CleanupIsFinal' /\ RunIsCurrent'
    BY <2>1 DEF Inv, TypeOK, CacheBehind, MadeInOrder, Older, Leq, CleanupIsFinal,
                RunIsCurrent, Version
  <2>3. TakeoverNoticed' /\ InternalMade' /\ InvalidIgnored'
    BY <2>1 DEF Inv, TakeoverNoticed, InternalMade, Behind, InvalidIgnored
  <2>4. RestMirrored' /\ RestInvalid'
    BY <2>1 DEF Inv, RestMirrored, RestInvalid, AtRest, Behind, HasStatusChanged, Version,
                Status
  <2> QED BY <2>2, <2>3, <2>4 DEF Inv
<1> QED BY <1>1, <1>2, <1>3, <1>4, <1>5 DEF Next

\* The inductive invariant holds, whatever the bounds.
THEOREM Invariance == Spec => []Inv
  BY InitInv, NextInv, PTL DEF Spec

\* Types: every PM, version and status the controller writes is one there can be.
THEOREM TypeCorrect == Spec => []TypeOK
<1>1. Inv => TypeOK
  BY DEF Inv
<1> QED BY <1>1, Invariance, PTL

\* At rest the internal is made from the PM's current generation and the PM shows the
\* report on it: no edit, deletion, takeover or lost event leaves an older status behind.
THEOREM StatusIsMirrored == Spec => []StatusMirrored
<1>1. ASSUME Inv, Quiescent, valid
      PROVE  /\ internal.live /\ made = Version(pm.uid, pm.gen)
             /\ ~internal.deleted /\ ~Outdated => pm.st = Status(pm.gen, internal.ok, made)
  <2>1. AtRest /\ ~Behind
    BY <1>1 DEF Quiescent, AtRest, Behind
  <2>2. /\ internal.live /\ made = Version(pm.uid, pm.gen)
        /\ icache.internal.live /\ ~icache.internal.deleted
             /\ HasStatusChanged(icache.internal)
             => pm.st = Status(pm.gen, icache.internal.ok, icache.made)
    BY <1>1, <2>1 DEF Inv, RestMirrored
  <2>3. icache.internal = internal /\ icache.made = made
    BY <2>1 DEF Behind
  <2> QED BY <2>2, <2>3 DEF Outdated, HasStatusChanged
<1>2. Inv => StatusMirrored
  BY <1>1 DEF StatusMirrored
<1> QED BY <1>2, Invariance, PTL

\* At rest a PM of a name that is not reconciled says so in its current generation, and
\* no internal was made for it.
THEOREM InvalidIsReported == Spec => []InvalidReported
<1>1. Inv => InvalidReported
  BY DEF Inv, RestInvalid, InvalidIgnored, AtRest, Quiescent, InvalidReported
<1> QED BY <1>1, Invariance, PTL

(***************************************************************************)
(* What no step does: go back to an older version of the PM.               *)
(***************************************************************************)
\* The status shown was copied from the cached internal or from an earlier state of it,
\* and nothing is made for a PM of another name.
StatusBehind == Leq(pm.st.from, icache.made) /\ (~valid => made = NoVersion)

Forward ==
  /\ Leq(made, made') /\ Leq(icache.made, icache'.made)
  /\ pm'.live /\ pm'.uid = pm.uid => Leq(pm.st.from, pm'.st.from)

\* What a step may write into the status.
LEMMA StatusWritten ==
  ASSUME Inv, [Next]_vars
  PROVE  \/ pm'.st = pm.st
         \/ pm'.st.from = NoVersion /\ (pm'.live /\ pm'.uid = pm.uid => ~valid)
         \/ pm'.st.from = icache.made /\ icache'.made = icache.made
<1>1. /\ pm \in PMs /\ TypeOK
      /\ \A u : NoPM(u).st.from = NoVersion /\ NewPM(u).st.from = NoVersion
      /\ \A u : ~NoPM(u).live /\ NewPM(u).uid = u
  BY DEF Inv, TypeOK, NoPM, NewPM, NoStatus, Status
<1>2. CASE UNCHANGED pm
  BY <1>2
<1>3. CASE Finalizer
  <2>1. pm' \in {pm, NoPM(pm.uid), [pm EXCEPT !.fin = TRUE]}
    BY <1>3 DEF Finalizer
  <2> QED BY <1>1, <2>1 DEF PMs
<1>4. CASE EditPM
  BY <1>1, <1>4 DEF EditPM, PMs
<1>5. CASE DeletePM
  <2>1. pm' \in {NoPM(pm.uid), [pm EXCEPT !.deleted = TRUE]}
    BY <1>5 DEF DeletePM
  <2> QED BY <1>1, <2>1 DEF PMs
<1>6. CASE CreatePM
  <2>1. pm' = NewPM(pm.uid + 1)
    BY <1>6 DEF CreatePM
  <2>2. pm.uid + 1 # pm.uid
    BY <1>1, Numbers
  <2> QED BY <1>1, <2>1, <2>2
<1>7. CASE UpdateStatus
  <2>1. icache' = icache /\ pm' \in {pm, [pm EXCEPT !.st = Status(pmCache.gen,
                                            icache.internal.ok, icache.made)]}
    BY <1>7 DEF UpdateStatus, WriteStatus
  <2> QED BY <1>1, <2>1 DEF PMs, Status
<1>8. CASE SetInvalidStatus
  <2>1. ~valid
    BY <1>8 DEF Inv, InvalidIgnored, SetInvalidStatus
  <2>2. pm' \in {pm, [pm EXCEPT !.st = Status(pmCache.gen, FALSE, NoVersion)]}
    BY <1>8 DEF SetInvalidStatus, WriteStatus
  <2> QED BY <1>1, <2>1, <2>2 DEF PMs, Status
<1>9. \/ UNCHANGED pm \/ Finalizer \/ EditPM \/ DeletePM \/ CreatePM \/ UpdateStatus
      \/ SetInvalidStatus
  BY DEF Next, vars, Operator, Start, UpdateInternal, DeleteInternal, AwaitInternal, SyncPM,
         SyncInternal, Wake, Crash, CollectInternal, InternalController
<1> QED BY <1>2, <1>3, <1>4, <1>5, <1>6, <1>7, <1>8, <1>9

\* What a step may make the internal from, and what the cache learns of it.
LEMMA MadeWritten ==
  ASSUME Inv, [Next]_vars
  PROVE  /\ made' = made \/ (valid /\ made' = run.from /\ Leq(made, run.from))
         /\ icache'.made \in {icache.made, made} /\ valid' = valid
<1>1. made' = made \/ UpdateInternal
  BY DEF Next, vars, Operator, Start, DeleteInternal, AwaitInternal, Finalizer, UpdateStatus,
         SetInvalidStatus, SyncPM, SyncInternal, Wake, Crash, EditPM, DeletePM, CreatePM,
         CollectInternal, InternalController
<1>2. ASSUME UpdateInternal
      PROVE  valid /\ Leq(made, run.from) /\ made' \in {made, run.from}
  <2>1. run.at = "internal" /\ made' \in {made, run.from}
    BY <1>2 DEF UpdateInternal, Applied
  <2> QED BY <2>1 DEF Inv, InvalidIgnored, MadeInOrder, TypeOK
<1>3. /\ \/ icache' = icache
         \/ icache' = [internal |-> internal, made |-> made]
      /\ valid' = valid
  BY DEF Next, vars, Operator, Start, UpdateInternal, DeleteInternal, AwaitInternal, Finalizer,
         UpdateStatus, SetInvalidStatus, SyncPM, SyncInternal, Wake, Crash, EditPM, DeletePM,
         CreatePM, CollectInternal, InternalController
<1> QED BY <1>1, <1>2, <1>3

\* Every step goes forward.
LEMMA ForwardStep ==
  ASSUME Inv, Inv', StatusBehind, [Next]_vars
  PROVE  Forward /\ StatusBehind'
<1>1. /\ TypeOK /\ made \in Versions /\ icache.made \in Versions /\ icache'.made \in Versions
      /\ pm.st.from \in Versions /\ pm'.st.from \in Versions /\ NoVersion \in Versions
  BY Numbers, ValueTypes DEF Inv, TypeOK, PMs
<1>2. Leq(icache.made, made)
  BY DEF Inv, MadeInOrder
<1>3. Leq(made, made') /\ Leq(icache.made, icache'.made) /\ (~valid' => made' = NoVersion)
  BY <1>1, <1>2, MadeWritten, LeqOrder DEF StatusBehind
<1>4. Leq(pm.st.from, icache.made) /\ Leq(pm.st.from, icache'.made)
  BY <1>1, <1>3, LeqOrder DEF StatusBehind
<1>5. \A v \in Versions : Leq(NoVersion, v)
  <2>1. \A v \in Versions : v.uid \in Nat /\ v.gen \in Nat
    BY <1>1, Numbers
  <2> QED BY <2>1 DEF Leq, NoVersion, Version
<1>6. CASE pm'.st = pm.st
  BY <1>1, <1>3, <1>4, <1>6, LeqOrder DEF Forward, StatusBehind, Leq
<1>7. CASE pm'.st.from = icache.made /\ icache'.made = icache.made
  <2>1. Leq(pm.st.from, pm'.st.from) /\ Leq(pm'.st.from, icache'.made)
    BY <1>1, <1>4, <1>7, LeqOrder
  <2> QED BY <1>3, <2>1 DEF Forward, StatusBehind, Leq
<1>8. CASE pm'.st.from = NoVersion /\ (pm'.live /\ pm'.uid = pm.uid => ~valid)
  <2>1. Leq(pm'.st.from, icache'.made)
    BY <1>1, <1>5, <1>8
  <2>2. ~valid => Leq(pm.st.from, NoVersion)
    <3>1. ~valid => made = NoVersion
      BY DEF StatusBehind
    <3> QED BY <1>1, <1>2, <1>4, <3>1, LeqOrder
  <2> QED BY <1>3, <1>8, <2>1, <2>2 DEF Forward, StatusBehind, Leq
<1> QED BY <1>6, <1>7, <1>8, StatusWritten

\* Neither the internal's spec nor the status of a PM ever goes back to an older version
\* of the PM, although both are written from caches that lag, by runs that outlive edits,
\* deletions and re-creations of the PM.
THEOREM NeverGoesBack == Spec => [][Forward]_vars
<1>1. Init => StatusBehind
  <2> SUFFICES ASSUME Init PROVE StatusBehind
    OBVIOUS
  <2>1. pm.st.from = NoVersion /\ icache.made = NoVersion /\ made = NoVersion
    BY DEF Init, NewPM, NoStatus, Status
  <2> QED BY <2>1 DEF StatusBehind, Leq, NoVersion, Version
<1>2. Inv /\ Inv' /\ StatusBehind /\ [Next]_vars => Forward /\ StatusBehind'
  BY ForwardStep
<1> QED BY <1>1, <1>2, Invariance, PTL DEF Spec

(***************************************************************************)
(* The other half of the composition: PowerMonitorInternal takes the PMI   *)
(* to be edited and deleted as InternalLifecycle says, until it is gone.   *)
(***************************************************************************)
Recreate == ~internal.live /\ internal' = Life!Created

\* As a client of the lifecycle the controller only creates an internal that is not
\* there, edits and deletes: applying it over one that is being deleted is an edit, and
\* the PMI controller alone writes the finalizer and the status.
THEOREM LifecycleRespected == Spec => [][Life!Next \/ Recreate]_internal
<1>1. ASSUME [Next]_vars
      PROVE  [Life!Next \/ Recreate]_internal
  <2>1. CASE UpdateInternal
    BY <2>1 DEF UpdateInternal, Applied, Recreate, Life!Next, Life!Edit
  <2>2. CASE DeleteInternal \/ CollectInternal
    BY <2>2 DEF DeleteInternal, CollectInternal, Life!Next
  <2>3. CASE InternalController
    BY <2>3 DEF InternalController, Life!Next
  <2>4. \/ UNCHANGED internal
        \/ UpdateInternal \/ DeleteInternal \/ CollectInternal \/ InternalController
    BY <1>1 DEF Next, vars, Operator, Start, AwaitInternal, Finalizer, UpdateStatus,
                SetInvalidStatus, SyncPM, SyncInternal, Wake, Crash, EditPM, DeletePM,
                CreatePM
  <2> QED BY <2>1, <2>2, <2>3, <2>4
<1> QED BY <1>1, PTL DEF Spec
===============================================================================
