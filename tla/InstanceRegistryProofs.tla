------------------------ MODULE InstanceRegistryProofs ------------------------
(***************************************************************************)
(* Proofs about InstanceRegistry for any set of instances and processes    *)
(* and any number of slots: its types, that fresh reservations never share *)
(* a slot, and that, as long as the lock orders everything that happens,   *)
(* claims never share a slot and a boot finds its slot to itself.          *)
(***************************************************************************)
EXTENDS InstanceRegistry, TLAPS

\* A process that runs works on an instance, and knows its slot once Allocate
\* is over.
RuntimeInv ==
    \A p \in Procs :
        /\ pc[p] # "off" => rt[p].inst \in Instances
        /\ pc[p] \notin {"off", "scan", "take"} => rt[p].slot \in Slots

\* Between reading the registry and saving a claim a process has the lock.
LockInv == \A p \in Procs : pc[p] = "take" => lock = p

FreshHolds(i) == /\ HasManifest(i)
                 /\ manifest[i].status = "reserved" /\ manifest[i].fresh

\* What a process has read covers the fresh reservations of the others.
TakenInv ==
    \A p \in Procs : pc[p] = "take" =>
        \A i \in Instances \ {rt[p].inst} :
            FreshHolds(i) => manifest[i].slot \in taken[p]

\* The rest holds as long as the lock orders everything that happens.  A
\* process works on an instance alone.
Busy(p) == pc[p] \notin {"off", "ready"}
WorkersAlone ==
    ~bypassed =>
        \A p, q \in Procs : p # q /\ Busy(p) /\ Busy(q) => rt[p].inst # rt[q].inst

\* An Up has a claim of its slot.
UpsClaim ==
    ~bypassed => \A p \in Procs : pc[p] \in InUp => Claims(rt[p].inst, rt[p].slot)

\* What a process has read covers all claims of the others.
ClaimsTaken ==
    ~bypassed =>
        \A p \in Procs : pc[p] = "take" =>
            \A i \in Instances \ {rt[p].inst}, s \in Slots :
                Claims(i, s) => s \in taken[p]

\* No other instance has a port of a claimed slot.
ClaimedSlotsAreOwn ==
    ~bypassed =>
        \A i, j \in Instances, s \in Slots :
            i # j /\ Claims(i, s) => infra[j] # s /\ s \notin svcs[j]

\* The inductive invariant.
IInv == /\ TypeOK /\ RuntimeInv
        /\ LockInv /\ TakenInv /\ FreshReservationsAreExclusive
        /\ WorkersAlone /\ UpsClaim /\ ClaimsTaken
        /\ SlotClaimsDiffer /\ ClaimedSlotsAreOwn

\* What Done and Leave change, TypeOK's part of it.
WorkTypes == /\ pc \in [Procs -> {"off", "ready", "up.cleanup"} \cup InAllocate
                                 \cup InUp \cup InDown]
             /\ rt \in [Procs -> Runtime]
             /\ job \in [Procs -> Job]
             /\ taken \in [Procs -> SUBSET Slots]

\* A step that adds nothing to what is claimed and bound: nobody becomes busy,
\* no claim appears, the manifest of an Up in progress stays, ports are given up.
QuietStep ==
    /\ bypassed => bypassed'
    /\ \A q \in Procs : pc'[q] = "take" =>
          /\ pc[q] = "take" /\ (lock = q => lock' = q)
          /\ taken'[q] = taken[q] /\ rt'[q].inst = rt[q].inst
    /\ \A q \in Procs : Busy(q)' => Busy(q) /\ rt'[q].inst = rt[q].inst
    /\ \A q \in Procs : pc'[q] \in InUp =>
          /\ pc[q] \in InUp /\ rt'[q] = rt[q]
          /\ bypassed' \/ manifest'[rt[q].inst] = manifest[rt[q].inst]
    /\ \A i \in Instances :
          /\ FreshHolds(i)' => FreshHolds(i) /\ manifest'[i] = manifest[i]
          /\ bypassed' \/ \A s \in Slots : Claims(i, s)' => Claims(i, s)
    /\ \A i \in Instances : infra'[i] \in {infra[i], NoSlot} /\ svcs'[i] \subseteq svcs[i]

\* Such a step keeps the invariant when it keeps the types.
LEMMA QuietStepKeeps ==
    ASSUME IInv, TypeOK', RuntimeInv', QuietStep
    PROVE  IInv'
<1> USE SlotsAssumption, SentinelAssumption
<1>1. \A i \in Instances : FreshHolds(i)' => FreshHolds(i) /\ manifest'[i] = manifest[i]
    BY DEF QuietStep, FreshHolds, HasManifest
<1>2. bypassed' \/ \A i \in Instances, s \in Slots : Claims(i, s)' => Claims(i, s)
    BY DEF QuietStep
<1>3. LockInv' /\ TakenInv'
    BY <1>1 DEF IInv, LockInv, TakenInv, QuietStep
<1>4. FreshReservationsAreExclusive'
    BY <1>1 DEF IInv, FreshReservationsAreExclusive, FreshHolds
<1>5. WorkersAlone'
    BY DEF IInv, WorkersAlone, QuietStep
<1>6. UpsClaim'
    BY DEF IInv, UpsClaim, QuietStep, Claims, HasManifest
<1>7. ClaimsTaken'
    BY <1>2 DEF IInv, ClaimsTaken, QuietStep
<1>8. SlotClaimsDiffer'
    BY <1>2 DEF IInv, SlotClaimsDiffer, QuietStep
<1>9. ClaimedSlotsAreOwn'
    BY <1>2 DEF IInv, ClaimedSlotsAreOwn, QuietStep, Slots, NoSlot
<1> QED BY <1>3, <1>4, <1>5, <1>6, <1>7, <1>8, <1>9 DEF IInv

\* The manifests that are saved are manifests.
LEMMA SavedManifests ==
    ASSUME NEW s \in Slots
    PROVE  /\ {Reserved(s), Running(s), Stopped(s)} \subseteq Manifest
           /\ NoManifest \notin {Reserved(s), Running(s), Stopped(s)}
           /\ Reserved(s).slot = s /\ Running(s).slot = s
           /\ Reserved(s).status = "reserved" /\ Reserved(s).fresh
           /\ Running(s).status = "running" /\ Stopped(s).status = "stopped"
<1>1. /\ Reserved(s) \in Manifest /\ Running(s) \in Manifest
      /\ Stopped(s) \in Manifest
    BY DEF Reserved, Running, Stopped, Manifest
<1>2. NoManifest \notin Manifest
    BY SentinelAssumption DEF Manifest, Slots
<1> QED BY <1>1, <1>2 DEF Reserved, Running, Stopped

\* The runtime an operation leaves behind is typed.
LEMMA RuntimeUpdates ==
    ASSUME TypeOK, NEW p \in Procs,
           rt[p].inst \in Instances, rt[p].slot \in Slots,
           NEW s \in {"none", "created", "reserved", "running", "stopped"}
    PROVE  /\ [rt[p] EXCEPT !.status = s] \in Runtime
           /\ [rt[p] EXCEPT !.status = s].inst = rt[p].inst
           /\ [rt[p] EXCEPT !.status = s].slot = rt[p].slot
    BY DEF TypeOK, Runtime

\* The end of an operation: the process is a waiting server or is gone, with
\* the runtime it was left with or none, and no other process is touched.
LEMMA OperationEnds ==
    ASSUME TypeOK, RuntimeInv, NEW p \in Procs, NEW r \in Runtime,
           r.inst \in Instances, r.slot \in Slots,
           Leave(p, r), Done(p)
    PROVE  /\ WorkTypes' /\ RuntimeInv'
           /\ pc'[p] \in {"off", "ready"}
           /\ \A q \in Procs \ {p} : /\ pc'[q] = pc[q] /\ rt'[q] = rt[q]
                                     /\ taken'[q] = taken[q]
<1>1. NoRuntime \in Runtime /\ NoJob \in Job
    BY DEF NoRuntime, Runtime, NoJob, Job, NoSlot
<1>2. CASE job[p].cc
  <2>1. /\ pc' = [pc EXCEPT ![p] = "ready"] /\ rt' = [rt EXCEPT ![p] = r]
        /\ job' = [job EXCEPT ![p].op = "none", ![p].release = FALSE]
        /\ taken' = taken
    BY <1>2 DEF Leave, Done, Goto
  <2>2. job' \in [Procs -> Job]
    BY <2>1 DEF TypeOK, Job
  <2> QED BY <2>1, <2>2 DEF TypeOK, WorkTypes, RuntimeInv
<1>3. CASE ~job[p].cc
  <2>1. /\ pc' = [pc EXCEPT ![p] = "off"] /\ rt' = [rt EXCEPT ![p] = NoRuntime]
        /\ job' = [job EXCEPT ![p] = NoJob]
        /\ taken' = [taken EXCEPT ![p] = {}]
    BY <1>3 DEF Leave, Done, Goto
  <2> QED BY <1>1, <2>1 DEF TypeOK, WorkTypes, RuntimeInv
<1> QED BY <1>2, <1>3

\* A claim that is saved under the lock for a slot that neither the registry
\* nor the probe rejected conflicts with nothing.
LEMMA ClaimIsNew ==
    ASSUME IInv, NEW p \in Procs, NEW s \in Slots, pc[p] = "take",
           FirstCandidate(p, s),
           manifest' = [manifest EXCEPT ![rt[p].inst] = Reserved(s)],
           UNCHANGED <<infra, svcs, bypassed>>
    PROVE  /\ FreshReservationsAreExclusive' /\ SlotClaimsDiffer'
           /\ ClaimedSlotsAreOwn'
<1> DEFINE i == rt[p].inst
<1>1. /\ s \notin taken[p]
      /\ \A j \in Instances : infra[j] # s /\ s \notin svcs[j]
    BY DEF FirstCandidate, Candidates, Bound
<1>2. i \in Instances
    BY DEF IInv, RuntimeInv
<1>3. FreshReservationsAreExclusive'
  <2>1. \A j \in Instances \ {i} : FreshHolds(j) => manifest[j].slot # s
    BY <1>1 DEF IInv, TakenInv
  <2> QED BY <1>2, <2>1, SavedManifests DEF IInv, TypeOK, FreshHolds,
             FreshReservationsAreExclusive, HasManifest
<1>4. \A j \in Instances, t \in Slots :
          Claims(j, t)' => Claims(j, t) \/ (j = i /\ t = s)
    BY <1>2, SavedManifests DEF IInv, TypeOK, Claims, HasManifest
<1>5. ~bypassed => \A j \in Instances \ {i} : ~Claims(j, s)
    BY <1>1 DEF IInv, ClaimsTaken
<1>6. SlotClaimsDiffer'
    BY <1>4, <1>5 DEF IInv, SlotClaimsDiffer
<1>7. ClaimedSlotsAreOwn'
    BY <1>1, <1>4 DEF IInv, ClaimedSlotsAreOwn
<1> QED BY <1>3, <1>6, <1>7


\* The launch of a process with a well-formed runtime (lab.go:776-796, 848;
\* commands/cc.go:36-75)
\* keeps the invariant.
LEMMA LaunchKeeps ==
    ASSUME IInv, NEW p \in Procs, NEW i \in Instances, NEW r, NEW j, NEW label,
           r \in Runtime, r.inst = i, j \in Job,
           \/ label = "scan"
           \/ label \in {"down.stop", "ready"} /\ r.slot \in Slots,
           Launch(p, i, r, j, label)
    PROVE  IInv'
<1> USE SlotsAssumption, SentinelAssumption
<1>1. TypeOK' /\ RuntimeInv'
    BY DEF IInv, TypeOK, RuntimeInv, HasManifest, Manifest, Runtime, Job,
       Slots, NoSlot, InUp, InDown, InAllocate, Launch, Contended, Goto
<1>2. (LockInv /\ TakenInv /\ FreshReservationsAreExclusive)'
    BY <1>1 DEF IInv, TypeOK, RuntimeInv, LockInv, TakenInv,
       FreshReservationsAreExclusive, FreshHolds, HasManifest, Manifest,
       Slots, InUp, Launch, Contended, Goto
<1>3. WorkersAlone'
    BY <1>1 DEF IInv, TypeOK, RuntimeInv, WorkersAlone, Busy, HasManifest,
       Manifest, Slots, InUp, Launch, Contended, Goto
<1>4. UpsClaim'
    BY <1>1 DEF IInv, TypeOK, RuntimeInv, UpsClaim, WorkersAlone, Busy,
       Claims, HasManifest, Manifest, Slots, InUp, Launch, Contended, Goto
<1>5. ClaimsTaken'
    BY <1>1 DEF IInv, TypeOK, RuntimeInv, ClaimsTaken, UpsClaim, LockInv,
       Claims, HasManifest, Manifest, Slots, InUp, Launch, Contended, Goto
<1>6. SlotClaimsDiffer'
    BY <1>1 DEF IInv, TypeOK, RuntimeInv, SlotClaimsDiffer, ClaimsTaken,
       UpsClaim, Claims, HasManifest, Manifest, Slots, InUp, Launch,
       Contended, Goto
<1>7. ClaimedSlotsAreOwn'
    BY <1>1 DEF IInv, TypeOK, RuntimeInv, ClaimedSlotsAreOwn,
       SlotClaimsDiffer, UpsClaim, Claims, HasManifest, Manifest, Slots, InUp,
       Launch, Contended, Goto
<1> QED BY <1>1, <1>2, <1>3, <1>4, <1>5, <1>6, <1>7 DEF IInv

\* Locking and reading the registry (allocator.go:80-91, 148-167)
\* keeps the invariant.
LEMMA AllocateScansKeeps ==
    ASSUME IInv, NEW p \in Procs, AllocateScans(p)
    PROVE  IInv'
<1> USE SlotsAssumption, SentinelAssumption
<1>1. TypeOK' /\ RuntimeInv'
    BY DEF IInv, TypeOK, RuntimeInv, HasManifest, Manifest, Runtime, Job,
       Slots, NoSlot, InUp, InDown, InAllocate, AllocateScans, ActiveSlots,
       IsActiveManifest, HasManifest, Goto
<1>2. (LockInv /\ TakenInv /\ FreshReservationsAreExclusive)'
    BY <1>1 DEF IInv, TypeOK, RuntimeInv, LockInv, TakenInv,
       FreshReservationsAreExclusive, FreshHolds, HasManifest, Manifest,
       Slots, InUp, AllocateScans, ActiveSlots, IsActiveManifest, Goto
<1>3. WorkersAlone'
    BY <1>1 DEF IInv, TypeOK, RuntimeInv, WorkersAlone, Busy, HasManifest,
       Manifest, Slots, InUp, AllocateScans, ActiveSlots, IsActiveManifest,
       Goto
<1>4. UpsClaim'
    BY <1>1 DEF IInv, TypeOK, RuntimeInv, UpsClaim, WorkersAlone, Busy,
       Claims, HasManifest, Manifest, Slots, InUp, AllocateScans, ActiveSlots,
       IsActiveManifest, Goto
<1>5. ClaimsTaken'
    BY <1>1 DEF IInv, TypeOK, RuntimeInv, ClaimsTaken, UpsClaim, LockInv,
       Claims, HasManifest, Manifest, Slots, InUp, AllocateScans, ActiveSlots,
       IsActiveManifest, Goto
<1>6. SlotClaimsDiffer'
    BY <1>1 DEF IInv, TypeOK, RuntimeInv, SlotClaimsDiffer, ClaimsTaken,
       UpsClaim, Claims, HasManifest, Manifest, Slots, InUp, AllocateScans,
       ActiveSlots, IsActiveManifest, Goto
<1>7. ClaimedSlotsAreOwn'
    BY <1>1 DEF IInv, TypeOK, RuntimeInv, ClaimedSlotsAreOwn,
       SlotClaimsDiffer, UpsClaim, Claims, HasManifest, Manifest, Slots, InUp,
       AllocateScans, ActiveSlots, IsActiveManifest, Goto
<1> QED BY <1>1, <1>2, <1>3, <1>4, <1>5, <1>6, <1>7 DEF IInv

\* The claim of a slot (allocator.go:93-132) keeps the invariant.
LEMMA AllocateTakesKeeps ==
    ASSUME IInv, NEW p \in Procs, AllocateTakes(p)
    PROVE  IInv'
<1> USE SlotsAssumption, SentinelAssumption
<1>1. PICK s \in Slots :
          /\ FirstCandidate(p, s)
          /\ rt' = [rt EXCEPT ![p].slot = s,
                              ![p].status = IF job[p].cc THEN @ ELSE "reserved"]
          /\ IF job[p].cc
             THEN /\ UNCHANGED manifest
                  /\ \/ job' = [job EXCEPT ![p].port = s]
                     \/ UNCHANGED job
                  /\ Goto(p, "ready")
             ELSE /\ Save(rt[p].inst, Reserved(s))
                  /\ job' = [job EXCEPT ![p].release = TRUE]
                  /\ Goto(p, "up.check")
    BY DEF AllocateTakes
<1>2. /\ pc[p] = "take" /\ lock = p /\ lock' = Free
      /\ taken' = [taken EXCEPT ![p] = {}]
      /\ UNCHANGED <<infra, svcs, bypassed>>
    BY DEF IInv, LockInv, AllocateTakes
<1> DEFINE i == rt[p].inst
<1>3. i \in Instances /\ rt[p] \in Runtime /\ job[p] \in Job
    BY <1>2 DEF IInv, TypeOK, RuntimeInv
<1>4. /\ rt' \in [Procs -> Runtime] /\ rt'[p].inst = i /\ rt'[p].slot = s
      /\ \A q \in Procs \ {p} : rt'[q] = rt[q]
    BY <1>1, <1>3 DEF IInv, TypeOK, Runtime
<1>5. job' \in [Procs -> Job]
  <2>1. /\ [job[p] EXCEPT !.port = s] \in Job
        /\ [job[p] EXCEPT !.release = TRUE] \in Job
    BY <1>3 DEF Job
  <2>2. \/ job' = job
        \/ job' = [job EXCEPT ![p] = [job[p] EXCEPT !.port = s]]
        \/ job' = [job EXCEPT ![p] = [job[p] EXCEPT !.release = TRUE]]
    BY <1>1
  <2> QED BY <2>1, <2>2 DEF IInv, TypeOK
<1>6. \/ manifest' = manifest /\ pc' = [pc EXCEPT ![p] = "ready"]
      \/ /\ manifest' = [manifest EXCEPT ![i] = Reserved(s)]
         /\ pc' = [pc EXCEPT ![p] = "up.check"]
    BY <1>1 DEF Goto, Save
<1>7. TypeOK'
  <2>1. manifest' \in [Instances -> Manifest \cup {NoManifest}]
    BY <1>3, <1>6, SavedManifests DEF IInv, TypeOK
  <2>2. /\ pc' \in [Procs -> {"off", "ready", "up.cleanup"} \cup InAllocate
                             \cup InUp \cup InDown]
        /\ lock' \in Procs \cup {Free} /\ taken' \in [Procs -> SUBSET Slots]
    BY <1>2, <1>6 DEF IInv, TypeOK, InUp
  <2> QED BY <1>2, <1>4, <1>5, <2>1, <2>2 DEF IInv, TypeOK
<1>8. RuntimeInv'
    BY <1>3, <1>4, <1>6 DEF IInv, TypeOK, RuntimeInv
<1>9. (LockInv /\ TakenInv)'
    BY <1>2, <1>6 DEF IInv, TypeOK, LockInv, TakenInv
<1>10. (FreshReservationsAreExclusive /\ SlotClaimsDiffer /\ ClaimedSlotsAreOwn)'
  <2>1. CASE manifest' = manifest
    BY <1>2, <2>1 DEF IInv, FreshReservationsAreExclusive, SlotClaimsDiffer,
       ClaimedSlotsAreOwn, Claims, HasManifest
  <2>2. CASE manifest' = [manifest EXCEPT ![i] = Reserved(s)]
    BY <1>1, <1>2, <2>2, ClaimIsNew
  <2> QED BY <1>6, <2>1, <2>2
<1>11. WorkersAlone'
    BY <1>2, <1>4, <1>6 DEF IInv, TypeOK, WorkersAlone, Busy
<1>12. UpsClaim'
  <2> SUFFICES ASSUME ~bypassed, NEW q \in Procs, pc'[q] \in InUp
               PROVE  Claims(rt[q].inst, rt[q].slot)'
    BY <1>2 DEF UpsClaim
  <2>1. CASE q = p
    <3>1. manifest'[i] = Reserved(s)
      BY <1>2, <1>3, <1>6, <2>1 DEF IInv, TypeOK, InUp
    <3> QED BY <1>4, <2>1, <3>1, SavedManifests DEF Claims, HasManifest
  <2>2. CASE q # p
    <3>1. /\ rt'[q] = rt[q] /\ pc[q] \in InUp
      BY <1>4, <1>6, <2>2 DEF IInv, TypeOK
    <3>2. rt[q].inst # i
      BY <1>2, <2>2, <3>1 DEF IInv, WorkersAlone, Busy, InUp
    <3>3. Claims(rt[q].inst, rt[q].slot) /\ rt[q].inst \in Instances
      BY <3>1 DEF IInv, UpsClaim, RuntimeInv, InUp
    <3> QED BY <1>6, <3>1, <3>2, <3>3 DEF IInv, TypeOK, Claims, HasManifest
  <2> QED BY <2>1, <2>2
<1>13. ClaimsTaken'
    BY <1>2, <1>6 DEF IInv, TypeOK, ClaimsTaken, LockInv
<1> QED BY <1>7, <1>8, <1>9, <1>10, <1>11, <1>12, <1>13 DEF IInv

\* A failing Allocate (allocator.go:80-135) keeps the invariant.
LEMMA AllocateFailsKeeps ==
    ASSUME IInv, NEW p \in Procs, AllocateFails(p)
    PROVE  IInv'
<1> USE SlotsAssumption, SentinelAssumption
<1>1. /\ pc[p] = "take" /\ lock = p /\ lock' = Free
      /\ pc' = [pc EXCEPT ![p] = "off"] /\ rt' = [rt EXCEPT ![p] = NoRuntime]
      /\ job' = [job EXCEPT ![p] = NoJob] /\ taken' = [taken EXCEPT ![p] = {}]
      /\ UNCHANGED <<infra, svcs, bypassed>>
    BY DEF IInv, LockInv, AllocateFails, Goto
<1>2. \/ manifest' = manifest
      \/ \E s \in Slots :
            /\ FirstCandidate(p, s)
            /\ manifest' = [manifest EXCEPT ![rt[p].inst] = Reserved(s)]
    BY DEF AllocateFails, Save
<1>3. rt[p].inst \in Instances
    BY <1>1 DEF IInv, RuntimeInv
<1>4. manifest' \in [Instances -> Manifest \cup {NoManifest}]
    BY <1>2, <1>3, SavedManifests DEF IInv, TypeOK
<1>5. NoRuntime \in Runtime /\ NoJob \in Job
    BY DEF NoRuntime, Runtime, NoJob, Job, NoSlot
<1>6. TypeOK' /\ RuntimeInv'
    BY <1>1, <1>4, <1>5 DEF IInv, TypeOK, RuntimeInv
<1>7. (FreshReservationsAreExclusive /\ SlotClaimsDiffer /\ ClaimedSlotsAreOwn)'
  <2>1. CASE manifest' = manifest
    BY <1>1, <2>1 DEF IInv, FreshReservationsAreExclusive, SlotClaimsDiffer,
       ClaimedSlotsAreOwn, Claims, HasManifest
  <2>2. ASSUME NEW s \in Slots, FirstCandidate(p, s),
               manifest' = [manifest EXCEPT ![rt[p].inst] = Reserved(s)]
        PROVE  (FreshReservationsAreExclusive /\ SlotClaimsDiffer
                /\ ClaimedSlotsAreOwn)'
    BY <1>1, <2>2, ClaimIsNew
  <2> QED BY <1>2, <2>1, <2>2
<1>8. (LockInv /\ TakenInv /\ WorkersAlone /\ ClaimsTaken)'
    BY <1>1 DEF IInv, TypeOK, LockInv, TakenInv, WorkersAlone, Busy, ClaimsTaken
<1>9. UpsClaim'
  <2> SUFFICES ASSUME ~bypassed, NEW q \in Procs, pc'[q] \in InUp
               PROVE  Claims(rt[q].inst, rt[q].slot)'
    BY <1>1 DEF UpsClaim
  <2>1. q # p /\ rt'[q] = rt[q] /\ pc[q] \in InUp
    BY <1>1 DEF IInv, TypeOK, InUp
  <2>2. rt[q].inst # rt[p].inst
    BY <1>1, <2>1 DEF IInv, WorkersAlone, Busy, InUp
  <2>3. Claims(rt[q].inst, rt[q].slot) /\ rt[q].inst \in Instances
    BY <2>1 DEF IInv, UpsClaim, RuntimeInv, InUp
  <2> QED BY <1>2, <2>1, <2>2, <2>3 DEF IInv, TypeOK, Claims, HasManifest
<1> QED BY <1>6, <1>7, <1>8, <1>9 DEF IInv

\* The boot of a command center (backend_lab.go:143-151)
\* keeps the invariant.
LEMMA UpBeginsKeeps ==
    ASSUME IInv, NEW p \in Procs, UpBegins(p)
    PROVE  IInv'
<1> USE SlotsAssumption, SentinelAssumption
<1>1. job' \in [Procs -> Job]
  <2>1. \A b \in BOOLEAN : [job[p] EXCEPT !.op = "up", !.release = b] \in Job
    BY DEF IInv, TypeOK, Job
  <2>2. job' = [job EXCEPT ![p] = [job[p] EXCEPT !.op = "up",
                                     !.release = (rt[p].status = "reserved")]]
    BY DEF UpBegins
  <2> QED BY <2>1, <2>2 DEF IInv, TypeOK
<1>2. /\ pc[p] = "ready" /\ pc' = [pc EXCEPT ![p] = "up.check"]
      /\ bypassed' = \/ bypassed
                     \/ Contended(p, rt[p].inst)
                     \/ ~Claims(rt[p].inst, rt[p].slot)
      /\ UNCHANGED <<manifest, lock, infra, svcs, rt, taken>>
    BY DEF UpBegins, Goto
<1>3. TypeOK' /\ RuntimeInv'
    BY <1>1, <1>2 DEF IInv, TypeOK, RuntimeInv, InUp
<1>4. (LockInv /\ TakenInv /\ FreshReservationsAreExclusive)'
    BY <1>2 DEF IInv, TypeOK, LockInv, TakenInv, FreshReservationsAreExclusive,
       FreshHolds, HasManifest
<1>5. WorkersAlone'
    BY <1>2 DEF IInv, TypeOK, WorkersAlone, Busy, Contended
<1>6. UpsClaim'
    BY <1>2 DEF IInv, TypeOK, UpsClaim, Claims, HasManifest, InUp
<1>7. (ClaimsTaken /\ SlotClaimsDiffer /\ ClaimedSlotsAreOwn)'
    BY <1>2 DEF IInv, TypeOK, ClaimsTaken, SlotClaimsDiffer, ClaimedSlotsAreOwn,
       Claims, HasManifest
<1> QED BY <1>3, <1>4, <1>5, <1>6, <1>7 DEF IInv

\* The first check of processes and ports (orchestrator.go:288-321)
\* keeps the invariant.
LEMMA UpChecksKeeps ==
    ASSUME IInv, NEW p \in Procs, UpChecks(p)
    PROVE  IInv'
<1> USE SlotsAssumption, SentinelAssumption
<1>1. TypeOK' /\ RuntimeInv'
    BY DEF IInv, TypeOK, RuntimeInv, HasManifest, Manifest, Runtime, Job,
       Slots, NoSlot, InUp, InDown, InAllocate, UpChecks, Goto
<1>2. QuietStep
    BY DEF IInv, TypeOK, RuntimeInv, QuietStep, Busy, WorkersAlone,
       FreshHolds, Claims, HasManifest, InUp, InDown, UpChecks, Goto
<1> QED BY <1>1, <1>2, QuietStepKeeps

\* The start of the infrastructure (orchestrator.go:355-372)
\* keeps the invariant.
LEMMA UpStartsInfraKeeps ==
    ASSUME IInv, NEW p \in Procs, UpStartsInfra(p)
    PROVE  IInv'
<1> USE SlotsAssumption, SentinelAssumption
<1>1. TypeOK' /\ RuntimeInv'
    BY DEF IInv, TypeOK, RuntimeInv, HasManifest, Manifest, Runtime, Job,
       Slots, NoSlot, InUp, InDown, InAllocate, UpStartsInfra, Goto
<1>2. (LockInv /\ TakenInv /\ FreshReservationsAreExclusive)'
    BY <1>1 DEF IInv, TypeOK, RuntimeInv, LockInv, TakenInv,
       FreshReservationsAreExclusive, FreshHolds, HasManifest, Manifest,
       Slots, InUp, UpStartsInfra, Goto
<1>3. WorkersAlone'
    BY <1>1 DEF IInv, TypeOK, RuntimeInv, WorkersAlone, Busy, HasManifest,
       Manifest, Slots, InUp, UpStartsInfra, Goto
<1>4. UpsClaim'
    BY <1>1 DEF IInv, TypeOK, RuntimeInv, UpsClaim, WorkersAlone, Busy,
       Claims, HasManifest, Manifest, Slots, InUp, UpStartsInfra, Goto
<1>5. ClaimsTaken'
    BY <1>1 DEF IInv, TypeOK, RuntimeInv, ClaimsTaken, UpsClaim, LockInv,
       Claims, HasManifest, Manifest, Slots, InUp, UpStartsInfra, Goto
<1>6. SlotClaimsDiffer'
    BY <1>1 DEF IInv, TypeOK, RuntimeInv, SlotClaimsDiffer, ClaimsTaken,
       UpsClaim, Claims, HasManifest, Manifest, Slots, InUp, UpStartsInfra,
       Goto
<1>7. ClaimedSlotsAreOwn'
    BY <1>1 DEF IInv, TypeOK, RuntimeInv, ClaimedSlotsAreOwn,
       SlotClaimsDiffer, UpsClaim, Claims, HasManifest, Manifest, Slots, InUp,
       UpStartsInfra, Goto
<1> QED BY <1>1, <1>2, <1>3, <1>4, <1>5, <1>6, <1>7 DEF IInv

\* The second check of the ports (orchestrator.go:480-488)
\* keeps the invariant.
LEMMA UpChecksPortsKeeps ==
    ASSUME IInv, NEW p \in Procs, UpChecksPorts(p)
    PROVE  IInv'
<1> USE SlotsAssumption, SentinelAssumption
<1>1. TypeOK' /\ RuntimeInv'
    BY DEF IInv, TypeOK, RuntimeInv, HasManifest, Manifest, Runtime, Job,
       Slots, NoSlot, InUp, InDown, InAllocate, UpChecksPorts, Goto
<1>2. QuietStep
    BY DEF IInv, TypeOK, RuntimeInv, QuietStep, Busy, WorkersAlone,
       FreshHolds, Claims, HasManifest, InUp, InDown, UpChecksPorts, Goto
<1> QED BY <1>1, <1>2, QuietStepKeeps

\* The start of the services (orchestrator.go:490-502)
\* keeps the invariant.
LEMMA UpStartsServicesKeeps ==
    ASSUME IInv, NEW p \in Procs, UpStartsServices(p)
    PROVE  IInv'
<1> USE SlotsAssumption, SentinelAssumption
<1>1. TypeOK' /\ RuntimeInv'
    BY DEF IInv, TypeOK, RuntimeInv, HasManifest, Manifest, Runtime, Job,
       Slots, NoSlot, InUp, InDown, InAllocate, UpStartsServices, Goto
<1>2. (LockInv /\ TakenInv /\ FreshReservationsAreExclusive)'
    BY <1>1 DEF IInv, TypeOK, RuntimeInv, LockInv, TakenInv,
       FreshReservationsAreExclusive, FreshHolds, HasManifest, Manifest,
       Slots, InUp, UpStartsServices, Goto
<1>3. WorkersAlone'
    BY <1>1 DEF IInv, TypeOK, RuntimeInv, WorkersAlone, Busy, HasManifest,
       Manifest, Slots, InUp, UpStartsServices, Goto
<1>4. UpsClaim'
    BY <1>1 DEF IInv, TypeOK, RuntimeInv, UpsClaim, WorkersAlone, Busy,
       Claims, HasManifest, Manifest, Slots, InUp, UpStartsServices, Goto
<1>5. ClaimsTaken'
    BY <1>1 DEF IInv, TypeOK, RuntimeInv, ClaimsTaken, UpsClaim, LockInv,
       Claims, HasManifest, Manifest, Slots, InUp, UpStartsServices, Goto
<1>6. SlotClaimsDiffer'
    BY <1>1 DEF IInv, TypeOK, RuntimeInv, SlotClaimsDiffer, ClaimsTaken,
       UpsClaim, Claims, HasManifest, Manifest, Slots, InUp, UpStartsServices,
       Goto
<1>7. ClaimedSlotsAreOwn'
    BY <1>1 DEF IInv, TypeOK, RuntimeInv, ClaimedSlotsAreOwn,
       SlotClaimsDiffer, UpsClaim, Claims, HasManifest, Manifest, Slots, InUp,
       UpStartsServices, Goto
<1> QED BY <1>1, <1>2, <1>3, <1>4, <1>5, <1>6, <1>7 DEF IInv

\* Saving the running manifest (orchestrator.go:615-653)
\* keeps the invariant.
LEMMA UpSavesKeeps ==
    ASSUME IInv, NEW p \in Procs, UpSaves(p)
    PROVE  IInv'
<1> USE SlotsAssumption, SentinelAssumption
<1> DEFINE r == [rt[p] EXCEPT !.status = "running"]
<1>a. /\ rt[p].inst \in Instances /\ rt[p].slot \in Slots
      /\ r \in Runtime /\ r.inst = rt[p].inst /\ r.slot = rt[p].slot
    BY RuntimeUpdates DEF IInv, TypeOK, RuntimeInv, UpSaves
<1>b. /\ WorkTypes' /\ RuntimeInv' /\ pc'[p] \in {"off", "ready"}
      /\ \A q \in Procs \ {p} : /\ pc'[q] = pc[q] /\ rt'[q] = rt[q]
                                /\ taken'[q] = taken[q]
    BY <1>a, OperationEnds DEF IInv, UpSaves
<1>c. manifest' = [manifest EXCEPT ![rt[p].inst] = Running(rt[p].slot)]
    BY DEF UpSaves, Save
<1>1. TypeOK'
    BY <1>a, <1>b, <1>c, SavedManifests DEF IInv, TypeOK, WorkTypes, UpSaves
<1>d. pc[p] \in InUp /\ UNCHANGED <<lock, infra, svcs, bypassed>>
    BY DEF UpSaves, InUp
<1>e. \A i \in Instances : FreshHolds(i)' => FreshHolds(i) /\ manifest'[i] = manifest[i]
    BY <1>a, <1>c DEF IInv, TypeOK, FreshHolds, HasManifest, Running
<1>f. ~bypassed => \A i \in Instances, s \in Slots : Claims(i, s)' => Claims(i, s)
    BY <1>a, <1>c, <1>d DEF IInv, TypeOK, UpsClaim, Claims, HasManifest, Running
<1>2. (LockInv /\ TakenInv /\ FreshReservationsAreExclusive)'
    BY <1>b, <1>d, <1>e DEF IInv, LockInv, TakenInv,
       FreshReservationsAreExclusive, FreshHolds
<1>3. WorkersAlone'
    BY <1>b, <1>d DEF IInv, WorkersAlone, Busy
<1>4. UpsClaim'
  <2> SUFFICES ASSUME ~bypassed, NEW q \in Procs, pc'[q] \in InUp
               PROVE  Claims(rt[q].inst, rt[q].slot)'
    BY <1>d DEF UpsClaim
  <2>1. q # p /\ rt'[q] = rt[q] /\ pc[q] \in InUp
    BY <1>b DEF InUp
  <2>2. rt[q].inst # rt[p].inst
    BY <1>d, <2>1 DEF IInv, WorkersAlone, Busy, InUp
  <2>3. Claims(rt[q].inst, rt[q].slot) /\ rt[q].inst \in Instances
    BY <2>1 DEF IInv, UpsClaim, RuntimeInv, InUp
  <2> QED BY <1>c, <2>1, <2>2, <2>3 DEF IInv, TypeOK, Claims, HasManifest
<1>5. ClaimsTaken'
    BY <1>b, <1>d, <1>f DEF IInv, ClaimsTaken
<1>6. SlotClaimsDiffer'
    BY <1>d, <1>f DEF IInv, SlotClaimsDiffer
<1>7. ClaimedSlotsAreOwn'
    BY <1>d, <1>f DEF IInv, ClaimedSlotsAreOwn
<1> QED BY <1>b, <1>1, <1>2, <1>3, <1>4, <1>5, <1>6, <1>7 DEF IInv

\* A failing Up (orchestrator.go:212-228, 671-689) keeps the invariant.
LEMMA UpFailsKeeps ==
    ASSUME IInv, NEW p \in Procs, UpFails(p)
    PROVE  IInv'
<1> USE SlotsAssumption, SentinelAssumption
<1> DEFINE r == IF job[p].release THEN [rt[p] EXCEPT !.status = "stopped"]
                ELSE rt[p]
<1>1. /\ rt[p].inst \in Instances /\ rt[p].slot \in Slots
      /\ r \in Runtime /\ r.inst = rt[p].inst /\ r.slot = rt[p].slot
    BY RuntimeUpdates DEF IInv, TypeOK, RuntimeInv, InUp, UpFails
<1>2. /\ WorkTypes' /\ RuntimeInv'
      /\ \/ pc'[p] \in {"off", "ready"}
         \/ pc'[p] = "up.cleanup" /\ rt'[p].inst = rt[p].inst
      /\ \A q \in Procs \ {p} : /\ pc'[q] = pc[q] /\ rt'[q] = rt[q]
                                /\ taken'[q] = taken[q]
  <2>1. CASE Leave(p, r) /\ Done(p)
    BY <1>1, <2>1, OperationEnds DEF IInv
  <2>2. CASE Goto(p, "up.cleanup") /\ rt' = [rt EXCEPT ![p] = r]
             /\ UNCHANGED <<job, taken>>
    BY <1>1, <2>2 DEF IInv, TypeOK, WorkTypes, RuntimeInv, Goto
  <2> QED BY <2>1, <2>2 DEF UpFails
<1>3. \/ manifest' = manifest
      \/ manifest' = [manifest EXCEPT ![rt[p].inst] = Stopped(rt[p].slot)]
      \/ manifest' = [manifest EXCEPT ![rt[p].inst] = Running(rt[p].slot)]
    BY DEF UpFails, ReleaseReservation, Save
<1>u. /\ UNCHANGED <<lock, infra, svcs, bypassed>>
      /\ pc[p] \in InUp
    BY DEF UpFails
<1>4. TypeOK'
    BY <1>1, <1>2, <1>3, <1>u, SavedManifests DEF IInv, TypeOK, WorkTypes
<1>5. QuietStep
  <2>1. \A i \in Instances :
           /\ FreshHolds(i)' => FreshHolds(i) /\ manifest'[i] = manifest[i]
           /\ bypassed' \/ \A s \in Slots : Claims(i, s)' => Claims(i, s)
    BY <1>1, <1>3, <1>u, SavedManifests DEF IInv, TypeOK, UpsClaim, FreshHolds,
       Claims, HasManifest
  <2>2. \A q \in Procs : pc'[q] \in InUp =>
          /\ pc[q] \in InUp /\ rt'[q] = rt[q]
          /\ bypassed' \/ manifest'[rt[q].inst] = manifest[rt[q].inst]
    BY <1>1, <1>2, <1>3, <1>u DEF IInv, TypeOK, RuntimeInv, WorkersAlone, Busy,
       InUp, InDown
  <2> QED BY <1>1, <1>2, <1>u, <2>1, <2>2 DEF QuietStep, Busy, InUp, InDown
<1> QED BY <1>2, <1>4, <1>5, QuietStepKeeps

\* The clean-up of a cancelled lab up (lab.go:827-842)
\* keeps the invariant.
LEMMA UpCleansUpKeeps ==
    ASSUME IInv, NEW p \in Procs, UpCleansUp(p)
    PROVE  IInv'
<1> USE SlotsAssumption, SentinelAssumption
<1>1. rt[p] \in Runtime /\ rt[p].inst \in Instances /\ rt[p].slot \in Slots
    BY DEF IInv, TypeOK, RuntimeInv, UpCleansUp
<1>2. /\ WorkTypes' /\ RuntimeInv' /\ pc'[p] \in {"off", "ready"}
      /\ \A q \in Procs \ {p} : /\ pc'[q] = pc[q] /\ rt'[q] = rt[q]
                                /\ taken'[q] = taken[q]
    BY <1>1, OperationEnds DEF IInv, UpCleansUp
<1>3. TypeOK'
    BY <1>2 DEF IInv, TypeOK, WorkTypes, UpCleansUp
<1>4. QuietStep
    BY <1>2 DEF IInv, TypeOK, QuietStep, Busy, FreshHolds, Claims,
       HasManifest, InUp, UpCleansUp
<1> QED BY <1>2, <1>3, <1>4, QuietStepKeeps

\* An orchestrator that cannot be created (lab.go:800-803)
\* keeps the invariant.
LEMMA UpNeverBeginsKeeps ==
    ASSUME IInv, NEW p \in Procs, UpNeverBegins(p)
    PROVE  IInv'
<1> USE SlotsAssumption, SentinelAssumption
<1>1. rt[p] \in Runtime /\ rt[p].inst \in Instances /\ rt[p].slot \in Slots
    BY DEF IInv, TypeOK, RuntimeInv, UpNeverBegins
<1>2. /\ WorkTypes' /\ RuntimeInv' /\ pc'[p] \in {"off", "ready"}
      /\ \A q \in Procs \ {p} : /\ pc'[q] = pc[q] /\ rt'[q] = rt[q]
                                /\ taken'[q] = taken[q]
    BY <1>1, OperationEnds DEF IInv, UpNeverBegins
<1>3. TypeOK'
    BY <1>2 DEF IInv, TypeOK, WorkTypes, UpNeverBegins
<1>4. QuietStep
    BY <1>2 DEF IInv, TypeOK, QuietStep, Busy, FreshHolds, Claims,
       HasManifest, InUp, UpNeverBegins
<1> QED BY <1>2, <1>3, <1>4, QuietStepKeeps

\* The stop of a command center (backend_lab.go:154-162)
\* keeps the invariant.
LEMMA DownBeginsKeeps ==
    ASSUME IInv, NEW p \in Procs, DownBegins(p)
    PROVE  IInv'
<1> USE SlotsAssumption, SentinelAssumption
<1>1. TypeOK' /\ RuntimeInv'
    BY DEF IInv, TypeOK, RuntimeInv, HasManifest, Manifest, Runtime, Job,
       Slots, NoSlot, InUp, InDown, InAllocate, DownBegins, Contended, Goto
<1>2. (LockInv /\ TakenInv /\ FreshReservationsAreExclusive)'
    BY <1>1 DEF IInv, TypeOK, RuntimeInv, LockInv, TakenInv,
       FreshReservationsAreExclusive, FreshHolds, HasManifest, Manifest,
       Slots, InUp, DownBegins, Contended, Goto
<1>3. WorkersAlone'
    BY <1>1 DEF IInv, TypeOK, RuntimeInv, WorkersAlone, Busy, HasManifest,
       Manifest, Slots, InUp, DownBegins, Contended, Goto
<1>4. UpsClaim'
    BY <1>1 DEF IInv, TypeOK, RuntimeInv, UpsClaim, WorkersAlone, Busy,
       Claims, HasManifest, Manifest, Slots, InUp, DownBegins, Contended, Goto
<1>5. ClaimsTaken'
    BY <1>1 DEF IInv, TypeOK, RuntimeInv, ClaimsTaken, UpsClaim, LockInv,
       Claims, HasManifest, Manifest, Slots, InUp, DownBegins, Contended, Goto
<1>6. SlotClaimsDiffer'
    BY <1>1 DEF IInv, TypeOK, RuntimeInv, SlotClaimsDiffer, ClaimsTaken,
       UpsClaim, Claims, HasManifest, Manifest, Slots, InUp, DownBegins,
       Contended, Goto
<1>7. ClaimedSlotsAreOwn'
    BY <1>1 DEF IInv, TypeOK, RuntimeInv, ClaimedSlotsAreOwn,
       SlotClaimsDiffer, UpsClaim, Claims, HasManifest, Manifest, Slots, InUp,
       DownBegins, Contended, Goto
<1> QED BY <1>1, <1>2, <1>3, <1>4, <1>5, <1>6, <1>7 DEF IInv

\* Stopping the services (orchestrator.go:755-767) keeps the invariant.
LEMMA DownStopsKeeps ==
    ASSUME IInv, NEW p \in Procs, DownStops(p)
    PROVE  IInv'
<1> USE SlotsAssumption, SentinelAssumption
<1>1. TypeOK' /\ RuntimeInv'
    BY DEF IInv, TypeOK, RuntimeInv, HasManifest, Manifest, Runtime, Job,
       Slots, NoSlot, InUp, InDown, InAllocate, DownStops, Goto
<1>2. QuietStep
    BY DEF IInv, TypeOK, RuntimeInv, QuietStep, Busy, WorkersAlone,
       FreshHolds, Claims, HasManifest, InUp, InDown, DownStops, Goto
<1> QED BY <1>1, <1>2, QuietStepKeeps

\* Killing orphaned processes (orchestrator.go:769-784, 1681-1706)
\* keeps the invariant.
LEMMA DownKillsOrphansKeeps ==
    ASSUME IInv, NEW p \in Procs, DownKillsOrphans(p)
    PROVE  IInv'
<1> USE SlotsAssumption, SentinelAssumption
<1>1. TypeOK' /\ RuntimeInv'
    BY DEF IInv, TypeOK, RuntimeInv, HasManifest, Manifest, Runtime, Job,
       Slots, NoSlot, InUp, InDown, InAllocate, DownKillsOrphans, Goto
<1>2. QuietStep
    BY DEF IInv, TypeOK, RuntimeInv, QuietStep, Busy, WorkersAlone,
       FreshHolds, Claims, HasManifest, InUp, InDown, DownKillsOrphans, Goto
<1> QED BY <1>1, <1>2, QuietStepKeeps

\* Stopping the infrastructure (orchestrator.go:798-811, 849-857)
\* keeps the invariant.
LEMMA DownStopsInfraKeeps ==
    ASSUME IInv, NEW p \in Procs, DownStopsInfra(p)
    PROVE  IInv'
<1> USE SlotsAssumption, SentinelAssumption
<1>1. rt[p] \in Runtime /\ rt[p].inst \in Instances /\ rt[p].slot \in Slots
    BY DEF IInv, TypeOK, RuntimeInv, DownStopsInfra
<1>2. /\ WorkTypes' /\ RuntimeInv' /\ pc'[p] \in {"off", "ready", "down.save"}
      /\ pc'[p] = "down.save" => rt'[p] = rt[p]
      /\ \A q \in Procs \ {p} : /\ pc'[q] = pc[q] /\ rt'[q] = rt[q]
                                /\ taken'[q] = taken[q]
  <2>1. CASE Leave(p, rt[p]) /\ Done(p)
    BY <1>1, <2>1, OperationEnds DEF IInv
  <2>2. CASE Goto(p, "down.save") /\ UNCHANGED <<rt, job, taken>>
    BY <1>1, <2>2 DEF IInv, TypeOK, WorkTypes, RuntimeInv, Goto, InDown
  <2> QED BY <2>1, <2>2 DEF DownStopsInfra
<1>3. TypeOK'
    BY <1>2 DEF IInv, TypeOK, WorkTypes, NoSlot, DownStopsInfra
<1>4. QuietStep
    BY <1>2 DEF IInv, TypeOK, QuietStep, Busy, FreshHolds, Claims,
       HasManifest, InUp, DownStopsInfra
<1> QED BY <1>2, <1>3, <1>4, QuietStepKeeps

\* Saving or deleting the manifest (orchestrator.go:655-669, 861-880)
\* keeps the invariant.
LEMMA DownSavesKeeps ==
    ASSUME IInv, NEW p \in Procs, DownSaves(p)
    PROVE  IInv'
<1> USE SlotsAssumption, SentinelAssumption
<1> DEFINE r == [rt[p] EXCEPT !.status = "stopped"]
<1>1. /\ rt[p].inst \in Instances /\ rt[p].slot \in Slots
      /\ r \in Runtime /\ r.inst = rt[p].inst /\ r.slot = rt[p].slot
    BY RuntimeUpdates DEF IInv, TypeOK, RuntimeInv, DownSaves
<1>2. /\ WorkTypes' /\ RuntimeInv' /\ pc'[p] \in {"off", "ready"}
      /\ \A q \in Procs \ {p} : /\ pc'[q] = pc[q] /\ rt'[q] = rt[q]
                                /\ taken'[q] = taken[q]
    BY <1>1, OperationEnds DEF IInv, DownSaves
<1>3. \/ manifest' = manifest
      \/ manifest' = [manifest EXCEPT ![rt[p].inst] = Stopped(rt[p].slot)]
      \/ manifest' = [manifest EXCEPT ![rt[p].inst] = NoManifest]
    BY DEF DownSaves, Save, Delete
<1>u. /\ UNCHANGED <<lock, infra, svcs, bypassed>>
      /\ pc[p] \in InUp \cup InDown
    BY DEF DownSaves, InDown
<1>4. TypeOK'
    BY <1>1, <1>2, <1>3, <1>u, SavedManifests DEF IInv, TypeOK, WorkTypes
<1>5. QuietStep
  <2>1. \A i \in Instances :
           /\ FreshHolds(i)' => FreshHolds(i) /\ manifest'[i] = manifest[i]
           /\ bypassed' \/ \A s \in Slots : Claims(i, s)' => Claims(i, s)
    BY <1>1, <1>3, <1>u, SavedManifests DEF IInv, TypeOK, UpsClaim, FreshHolds,
       Claims, HasManifest
  <2>2. \A q \in Procs : pc'[q] \in InUp =>
          /\ pc[q] \in InUp /\ rt'[q] = rt[q]
          /\ bypassed' \/ manifest'[rt[q].inst] = manifest[rt[q].inst]
    BY <1>1, <1>2, <1>3, <1>u DEF IInv, TypeOK, RuntimeInv, WorkersAlone, Busy,
       InUp, InDown
  <2> QED BY <1>1, <1>2, <1>u, <2>1, <2>2 DEF QuietStep, Busy, InUp, InDown
<1> QED BY <1>2, <1>4, <1>5, QuietStepKeeps

\* The end of a process keeps the invariant.
LEMMA KillKeeps ==
    ASSUME IInv, NEW p \in Procs, Kill(p)
    PROVE  IInv'
<1> USE SlotsAssumption, SentinelAssumption
<1>1. TypeOK' /\ RuntimeInv'
    BY DEF IInv, TypeOK, RuntimeInv, HasManifest, Manifest, Runtime, Job,
       Slots, NoSlot, InUp, InDown, InAllocate, Kill, Goto, NoRuntime, NoJob
<1>2. QuietStep
    BY DEF IInv, TypeOK, RuntimeInv, QuietStep, Busy, WorkersAlone,
       FreshHolds, Claims, HasManifest, InUp, InDown, Kill, Goto, NoRuntime,
       NoJob
<1> QED BY <1>1, <1>2, QuietStepKeeps

\* The end of a grace period (allocator.go:181-187) keeps the invariant.
LEMMA ExpireKeeps ==
    ASSUME IInv, NEW i \in Instances, Expire(i)
    PROVE  IInv'
<1> USE SlotsAssumption, SentinelAssumption
<1>1. PICK m \in Manifest : /\ manifest' = [manifest EXCEPT ![i] = m]
                            /\ m.status = "reserved" /\ ~m.fresh
  <2> DEFINE m == [manifest[i] EXCEPT !.fresh = FALSE]
  <2>1. manifest[i] \in Manifest /\ manifest[i].status = "reserved"
    BY DEF IInv, TypeOK, HasManifest, Expire
  <2>2. m \in Manifest /\ m.status = "reserved" /\ ~m.fresh
    BY <2>1 DEF Manifest
  <2>3. manifest' = [manifest EXCEPT ![i] = m]
    BY DEF Expire
  <2> QED BY <2>2, <2>3
<1>2. TypeOK' /\ RuntimeInv'
    BY <1>1 DEF IInv, TypeOK, RuntimeInv, Expire
<1>3. \A j \in Instances :
          /\ FreshHolds(j)' => FreshHolds(j) /\ manifest'[j] = manifest[j]
          /\ \A s \in Slots : Claims(j, s)' => Claims(j, s)
    BY <1>1 DEF IInv, TypeOK, FreshHolds, Claims, HasManifest
<1>4. \A q \in Procs : pc[q] \in InUp =>
          bypassed' \/ manifest'[rt[q].inst] = manifest[rt[q].inst]
    BY <1>1 DEF IInv, TypeOK, RuntimeInv, InUp, Expire
<1> QED BY <1>2, <1>3, <1>4, QuietStepKeeps DEF QuietStep, Busy, Expire

\* The exit of a service keeps the invariant.
LEMMA ServicesExitKeeps ==
    ASSUME IInv, NEW i \in Instances, ServicesExit(i)
    PROVE  IInv'
<1> USE SlotsAssumption, SentinelAssumption
<1>1. TypeOK' /\ RuntimeInv'
    BY DEF IInv, TypeOK, RuntimeInv, HasManifest, Manifest, Runtime, Job,
       Slots, NoSlot, InUp, InDown, InAllocate, ServicesExit
<1>2. QuietStep
    BY DEF IInv, TypeOK, RuntimeInv, QuietStep, Busy, WorkersAlone,
       FreshHolds, Claims, HasManifest, InUp, InDown, ServicesExit
<1> QED BY <1>1, <1>2, QuietStepKeeps

\* The stop of containers keeps the invariant.
LEMMA InfraStopsKeeps ==
    ASSUME IInv, NEW i \in Instances, InfraStops(i)
    PROVE  IInv'
<1> USE SlotsAssumption, SentinelAssumption
<1>1. TypeOK' /\ RuntimeInv'
    BY DEF IInv, TypeOK, RuntimeInv, HasManifest, Manifest, Runtime, Job,
       Slots, NoSlot, InUp, InDown, InAllocate, InfraStops
<1>2. QuietStep
    BY DEF IInv, TypeOK, RuntimeInv, QuietStep, Busy, WorkersAlone,
       FreshHolds, Claims, HasManifest, InUp, InDown, InfraStops
<1> QED BY <1>1, <1>2, QuietStepKeeps

\* The launches keep the invariant: each has a well-formed runtime, with the
\* slot of the manifest unless Allocate comes first.
LEMMA CalledKeeps ==
    ASSUME IInv, NEW p \in Procs, NEW i \in Instances, Called(p, i)
    PROVE  IInv'
<1>1. NewRuntime(i) \in Runtime /\ NewRuntime(i).inst = i /\ NewRuntime(i).slot = NoSlot
    BY DEF NewRuntime, Runtime, NoSlot
<1>2. ASSUME HasManifest(i)
      PROVE  /\ FromManifest(i) \in Runtime /\ FromManifest(i).inst = i
             /\ FromManifest(i).slot \in Slots
    BY <1>2 DEF IInv, TypeOK, HasManifest, Manifest, FromManifest, Runtime
<1>3. /\ \A op \in {"up", "down", "destroy"} : [NoJob EXCEPT !.op = op] \in Job
      /\ [NoJob EXCEPT !.cc = TRUE] \in Job
      /\ \A s \in Slots \cup {NoSlot} : [NoJob EXCEPT !.cc = TRUE, !.port = s] \in Job
    BY DEF NoJob, Job, NoSlot
<1>4. CASE LabUp(p, i)
    BY <1>1, <1>3, <1>4, LaunchKeeps DEF LabUp
<1>5. CASE \E op \in {"down", "destroy"} : LabDown(p, i, op)
    BY <1>2, <1>3, <1>5, LaunchKeeps DEF LabDown
<1>6. CASE CommandCenter(p, i) /\ HasManifest(i)
  <2>1. manifest[i].slot \in Slots
    BY <1>6 DEF IInv, TypeOK, HasManifest, Manifest
  <2>2. PICK s \in Slots \cup {NoSlot} :
            Launch(p, i, FromManifest(i),
                   [NoJob EXCEPT !.cc = TRUE, !.port = s], "ready")
    BY <1>6, <2>1 DEF CommandCenter, ResolveRuntime
  <2> QED BY <1>2, <1>3, <1>6, <2>2, LaunchKeeps
<1>7. CASE CommandCenter(p, i) /\ ~HasManifest(i)
    BY <1>1, <1>3, <1>7, LaunchKeeps DEF CommandCenter, ResolveRuntime
<1> QED BY <1>4, <1>5, <1>6, <1>7 DEF Called

\* The initial states satisfy the invariant.
LEMMA InitEstablishes == Init => IInv
<1> SUFFICES ASSUME Init PROVE IInv
  OBVIOUS
<1>1. NoRuntime \in Runtime /\ NoJob \in Job
  BY DEF NoRuntime, Runtime, NoJob, Job, NoSlot
<1>2. TypeOK
  BY <1>1 DEF Init, TypeOK, Manifest
<1> QED BY <1>2 DEF Init, IInv, RuntimeInv, LockInv, TakenInv,
       FreshReservationsAreExclusive, WorkersAlone, Busy, UpsClaim, ClaimsTaken,
       SlotClaimsDiffer, ClaimedSlotsAreOwn, Claims, HasManifest, InUp

\* Every step keeps the invariant.
LEMMA NextKeeps == IInv /\ [Next]_vars => IInv'
<1> SUFFICES ASSUME IInv, [Next]_vars PROVE IInv'
  OBVIOUS
<1>1. ASSUME NEW p \in Procs, Allocates(p) PROVE IInv'
  BY <1>1, AllocateScansKeeps, AllocateTakesKeeps, AllocateFailsKeeps
  DEF Allocates
<1>2. ASSUME NEW p \in Procs, Ups(p) PROVE IInv'
  BY <1>2, UpBeginsKeeps, UpChecksKeeps, UpStartsInfraKeeps, UpChecksPortsKeeps,
     UpStartsServicesKeeps, UpSavesKeeps, UpFailsKeeps, UpCleansUpKeeps,
     UpNeverBeginsKeeps DEF Ups
<1>3. ASSUME NEW p \in Procs, Downs(p) PROVE IInv'
  BY <1>3, DownBeginsKeeps, DownStopsKeeps, DownKillsOrphansKeeps,
     DownStopsInfraKeeps, DownSavesKeeps DEF Downs
<1>4. ASSUME NEW i \in Instances, Expire(i) \/ ServicesExit(i) \/ InfraStops(i)
      PROVE  IInv'
  BY <1>4, ExpireKeeps, ServicesExitKeeps, InfraStopsKeeps
<1>5. CASE UNCHANGED vars
  BY <1>5 DEF vars, IInv, TypeOK, RuntimeInv, LockInv, TakenInv, FreshHolds,
     FreshReservationsAreExclusive, WorkersAlone, Busy, UpsClaim, ClaimsTaken,
     SlotClaimsDiffer, ClaimedSlotsAreOwn, Claims, HasManifest
<1> QED BY <1>1, <1>2, <1>3, <1>4, <1>5, CalledKeeps, KillKeeps DEF Next

\* The inductive invariant holds in every reachable state.
THEOREM Invariance == Spec => []IInv
BY InitEstablishes, NextKeeps, PTL DEF Spec

\* The types of the model, for every value of its constants.
THEOREM TypeCorrect == Spec => []TypeOK
<1>1. IInv => TypeOK
  BY DEF IInv
<1> QED BY <1>1, Invariance, PTL

\* Two instances never hold fresh reservations of one slot, with any number of
\* instances, processes and slots, crashes included: the flock of Allocate
\* (allocator.go:80-84) is enough for that.
THEOREM FreshReservations == Spec => []FreshReservationsAreExclusive
<1>1. IInv => FreshReservationsAreExclusive
  BY DEF IInv
<1> QED BY <1>1, Invariance, PTL

\* As long as the lock orders everything that happens, no two instances claim
\* one slot, although running manifests are saved without the lock.
THEOREM ClaimsDiffer == Spec => []SlotClaimsDiffer
<1>1. IInv => SlotClaimsDiffer
  BY DEF IInv
<1> QED BY <1>1, Invariance, PTL

\* Under the same condition an Up meets nobody else's containers or services
\* on its slot, at any of its steps.
THEOREM UpsUndisturbed == Spec => []UpsHaveTheirSlot
<1>1. IInv => UpsHaveTheirSlot
  BY DEF IInv, UpsHaveTheirSlot, UpsClaim, ClaimedSlotsAreOwn, RuntimeInv, InUp
<1> QED BY <1>1, Invariance, PTL
=============================================================================
