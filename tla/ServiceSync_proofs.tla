------------------------- MODULE ServiceSync_proofs -------------------------
(***************************************************************************)
(* Theorems about ServiceSync, for every set of services, endpoints and    *)
(* configurations.  Types, wake-ups and what is desired hold whatever      *)
(* operation fails and whenever the agent is restarted.                    *)
(*                                                                         *)
(* TypeOK is not inductive: what a phase visits must also be related to    *)
(* `want` and `applied`.  PassInv says how, phase by phase; WakeInv follows*)
(* the informers' change from the store into the pass that serves it.      *)
(*                                                                         *)
(* What the kernel holds after a pass is known only if the operations of the*)
(* passes before it succeeded; each theorem of the second half names the   *)
(* failures that it has to exclude.                                        *)
(***************************************************************************)
EXTENDS ServiceSync, TLAPS

PassInv ==
    /\ pc = "program" => /\ todo \subseteq Keys(want)
                         /\ \A d \in dtodo : Desires(want, d[1], d[2])
    /\ pc = "stale" => \A d \in dtodo : /\ Desires(applied, d[1], d[2])
                                        /\ ~Desires(want, d[1], d[2])
    /\ pc \notin {"program", "stale"} => dtodo = {}
    /\ pc \notin {"stale", "removed"} => flush = {}
    /\ \A k, l \in flush : k = l
    /\ pc = "removed" => todo \cap Keys(want) = {}
    /\ pc \in {"graceful", "tail"} => applied = want

Serviced == ~permit /\ ~unnotified
WakeInv ==
    /\ Serviced /\ pc = "wait" /\ lastOk => applied = store
    /\ Serviced /\ pc \in {"program", "stale", "removed", "addvip", "delvip",
                           "graceful", "tail"} => want = store

IInv == TypeOK /\ PassInv /\ WakeInv

---------------------------------------------------------------------------
LEMMA SnapshotFacts ==
    ASSUME NEW snap \in State
    PROVE  Keys(snap) \subseteq Key /\ Vips(snap) \subseteq Vip
BY ConstantsAssumption DEF Keys, Vips

LEMMA ConfigFields ==
    ASSUME NEW snap \in State, NEW k \in Key, snap[k] # NoSvc
    PROVE  /\ snap[k].sched \in Sched
           /\ snap[k].tun \in BOOLEAN
           /\ snap[k].eps \subseteq Ep
BY ConstantsAssumption DEF State, ConfigType

LEMMA NothingType == Nothing \in State
BY DEF Nothing, State

LEMMA InitIInv == Init => IInv
<1> SUFFICES ASSUME Init PROVE IInv
  OBVIOUS
<1>1. InformerType
  BY ConstantsAssumption DEF Init, InformerType, State
<1>2. PassType /\ MemoryType
  BY NothingType DEF Init, PassType, MemoryType, Phase
<1>3. KernelType
  BY DEF Init, KernelType, Nothing, NoDests
<1>4. PassInv /\ WakeInv
  BY DEF Init, PassInv, WakeInv, Serviced
<1> QED
  BY <1>1, <1>2, <1>3, <1>4 DEF IInv, TypeOK

\* What ends a pass, in whatever way, leaves the local variables well typed.
LEMMA EndPassType ==
    ASSUME EndPass, lastOk' \in BOOLEAN
    PROVE  PassType' /\ PassInv' /\ pending' = {} /\ pc' = "wait"
BY NothingType DEF EndPass, PassType, PassInv, Phase

\* Steps of the environment and of the loop around the passes.
LEMMA EnvironmentStep ==
    ASSUME IInv, Environment PROVE IInv'
<1> USE DEF IInv, TypeOK
<1>1. ASSUME NEW k \in Key, NEW c \in Reports, StoreChange(k, c) PROVE IInv'
  <2> USE <1>1 DEF StoreChange, pass, memory, kernel
  <2>1. InformerType'
    BY ConstantsAssumption DEF InformerType, State
  <2>2. PassType' /\ MemoryType' /\ KernelType'
    BY DEF PassType, MemoryType, KernelType
  <2>3. PassInv' /\ WakeInv'
    BY DEF PassInv, WakeInv, Serviced
  <2> QED
    BY <2>1, <2>2, <2>3
<1>2. ASSUME NotifyOne PROVE IInv'
  <2> USE <1>2 DEF NotifyOne, pass, memory, kernel
  <2>1. InformerType' /\ PassType' /\ MemoryType' /\ KernelType'
    BY DEF InformerType, PassType, MemoryType, KernelType
  <2>2. PassInv' /\ WakeInv'
    BY DEF PassInv, WakeInv, Serviced
  <2> QED
    BY <2>1, <2>2
<1>3. ASSUME NEW p \in gqueue, Expire(p) PROVE IInv'
  <2> USE <1>3 DEF Expire, informer, pass, kernel
  <2>1. InformerType' /\ PassType' /\ KernelType'
    BY DEF InformerType, PassType, KernelType
  <2>2. MemoryType'
    BY DEF MemoryType, Item
  <2>3. PassInv' /\ WakeInv'
    BY DEF PassInv, WakeInv, Serviced
  <2> QED
    BY <2>1, <2>2, <2>3
<1>4. ASSUME NEW k \in Key, Drift(k) PROVE IInv'
  <2> USE <1>4 DEF Drift, informer, pass, memory
  <2>1. InformerType' /\ PassType' /\ MemoryType'
    BY DEF InformerType, PassType, MemoryType
  <2>2. KernelType'
    BY DEF KernelType, NoDests
  <2>3. PassInv' /\ WakeInv'
    BY DEF PassInv, WakeInv, Serviced
  <2> QED
    BY <2>1, <2>2, <2>3
<1>5. ASSUME Restart PROVE IInv'
  <2> USE <1>5 DEF Restart, kernel
  <2>1. InformerType' /\ KernelType'
    BY DEF InformerType, KernelType
  <2>2. PassType' /\ PassInv' /\ pending' = {} /\ pc' = "wait"
    BY EndPassType
  <2>3. MemoryType'
    BY <2>2, NothingType DEF MemoryType
  <2>4. WakeInv'
    BY DEF WakeInv, Serviced
  <2> QED
    BY <2>1, <2>2, <2>3, <2>4
<1> QED
  BY <1>1, <1>2, <1>3, <1>4, <1>5 DEF Environment

LEMMA LoopStep ==
    ASSUME IInv, Tick \/ Wake \/ Debounced PROVE IInv'
<1> USE DEF IInv, TypeOK, Tick, Wake, Debounced
<1>1. InformerType'
  BY DEF InformerType, informer
<1>2. PassType'
  BY DEF PassType, pass, Phase
<1>3. MemoryType' /\ KernelType'
  BY DEF MemoryType, KernelType, memory, kernel
<1>4. PassInv' /\ WakeInv'
  BY DEF PassInv, WakeInv, Serviced, pass
<1> QED
  BY <1>1, <1>2, <1>3, <1>4

\* Every way in which a pass is abandoned: nothing is committed, and the loop
\* does not claim that the store has been served.
LEMMA AbortStep ==
    ASSUME IInv, EndPass, lastOk' = FALSE,
           UNCHANGED <<informer, applied, bound, sloppy>>,
           gqueue' \subseteq Item, KernelType'
    PROVE  IInv'
<1> USE DEF IInv, TypeOK
<1>1. InformerType'
  BY DEF InformerType, informer
<1>2. PassType' /\ PassInv' /\ pending' = {} /\ pc' = "wait"
  BY EndPassType
<1>3. MemoryType'
  BY <1>2 DEF MemoryType
<1>4. WakeInv'
  BY <1>2 DEF WakeInv, Serviced
<1> QED
  BY <1>1, <1>2, <1>3, <1>4

LEMMA SnapshotStep ==
    ASSUME IInv, Snapshot PROVE IInv'
<1> USE DEF IInv, TypeOK, Snapshot
<1>1. InformerType'
  BY DEF InformerType, informer
<1>2. PassType'
  BY SnapshotFacts DEF PassType, InformerType, Phase
<1>3. MemoryType' /\ KernelType'
  <2>1. WantsSloppy(store) \in BOOLEAN
    BY DEF WantsSloppy
  <2> QED
    BY <2>1 DEF MemoryType, KernelType
<1>4. PassInv'
  BY DEF PassInv, Keys
<1>5. WakeInv'
  BY DEF WakeInv, Serviced, informer
<1> QED
  BY <1>1, <1>2, <1>3, <1>4, <1>5

LEMMA ProgramServiceStep ==
    ASSUME IInv, NEW k \in Key, ProgramService(k) PROVE IInv'
<1> USE DEF IInv, TypeOK, ProgramService
<1>1. want[k] # NoSvc /\ want \in State
  BY DEF PassInv, PassType, Keys
<1>2. want[k].sched \in Sched /\ want[k].eps \subseteq Ep
  BY <1>1, ConfigFields
<1>3. InformerType' /\ MemoryType'
  BY DEF InformerType, MemoryType, informer, memory
<1>4. PassType'
  BY <1>2 DEF PassType
<1>5. KernelType'
  BY <1>2 DEF KernelType, ServiceWrite, EditService, AddService
<1>6. PassInv'
  <2>1. \A d \in dtodo' : Desires(want, d[1], d[2])
    BY <1>1 DEF Desires
  <2> QED
    BY <2>1 DEF PassInv, Keys, Desires
<1>7. WakeInv'
  BY DEF WakeInv, Serviced, informer, memory
<1> QED
  BY <1>3, <1>4, <1>5, <1>6, <1>7

\* Writing one destination keeps the table of destinations well formed.
LEMMA DestTables ==
    ASSUME KernelType, NEW k \in Key, NEW e \in Ep, NEW d \in Dest
    PROVE  /\ AddDest(k, e, d) \in [Key -> [Ep -> Dest \cup {NoDst}]]
           /\ SetDest(k, e, d) \in [Key -> [Ep -> Dest \cup {NoDst}]]
           /\ DelDest(k, e) \in [Key -> [Ep -> Dest \cup {NoDst}]]
BY DEF KernelType, AddDest, SetDest, DelDest

LEMMA PinnedType ==
    ASSUME KernelType, NEW k \in Key, NEW eps \in SUBSET Ep
    PROVE  Pinned(k, eps) \subseteq Key \X Ep /\ Flushed(k) \subseteq Key \X Ep
BY DEF KernelType, Pinned, Flushed

LEMMA ProgramDestStep ==
    ASSUME IInv, NEW d \in dtodo, ProgramDest(d) PROVE IInv'
<1> USE DEF IInv, TypeOK, ProgramDest
<1> DEFINE k == d[1]
           e == d[2]
<1>0. k \in Key /\ e \in Ep
  BY DEF PassType
<1>1. want[k] # NoSvc /\ want \in State
  BY DEF PassInv, PassType, Desires
<1>2. [up |-> TRUE, tun |-> want[k].tun] \in Dest
  BY <1>0, <1>1, ConfigFields DEF Dest
<1>3. InformerType' /\ MemoryType' /\ PassType'
  BY DEF InformerType, MemoryType, PassType, informer, memory
<1>4. kdst' \in [Key -> [Ep -> Dest \cup {NoDst}]]
  <2> DEFINE new == [up |-> TRUE, tun |-> want[k].tun]
  <2>1. kdst' = kdst \/ kdst' = AddDest(k, e, new) \/ kdst' = SetDest(k, e, new)
    BY DEF DestWrite
  <2>2. new \in Dest
    BY <1>2
  <2> HIDE DEF new
  <2>3. /\ AddDest(k, e, new) \in [Key -> [Ep -> Dest \cup {NoDst}]]
        /\ SetDest(k, e, new) \in [Key -> [Ep -> Dest \cup {NoDst}]]
    BY <1>0, <2>2, DestTables
  <2> QED
    BY <2>1, <2>3 DEF KernelType
<1>5. KernelType'
  BY <1>4 DEF KernelType
<1>6. PassInv' /\ WakeInv'
  BY DEF PassInv, WakeInv, Serviced, informer, memory
<1> QED
  BY <1>3, <1>5, <1>6

LEMMA DrainOrDeleteType ==
    ASSUME IInv, NEW d \in dtodo, pc = "stale", DrainOrDelete(d[1], d[2])
    PROVE  /\ kdst' \in [Key -> [Ep -> Dest \cup {NoDst}]]
           /\ gqueue' \subseteq Item
<1> USE DEF IInv, TypeOK
<1> DEFINE k == d[1]
           e == d[2]
<1>1. k \in Key /\ e \in Ep
  BY DEF PassType
<1>2. applied[k] # NoSvc /\ applied \in State
  BY DEF PassInv, MemoryType, Desires
<1>3. [up |-> FALSE, tun |-> applied[k].tun] \in Dest
  BY <1>1, <1>2, ConfigFields DEF Dest
<1>4. kdst' \in [Key -> [Ep -> Dest \cup {NoDst}]]
  BY <1>1, <1>3, DestTables DEF DrainOrDelete
<1>5. gqueue' \subseteq Item
  <2>1. [key |-> k, ep |-> e, expired |-> FALSE] \in Item
    BY <1>1 DEF Item
  <2>2. Enqueued(k, e) \subseteq Item
    BY <2>1 DEF Enqueued, MemoryType
  <2>3. gqueue' = gqueue \/ gqueue' = Enqueued(k, e)
    BY DEF DrainOrDelete
  <2> QED
    BY <2>2, <2>3 DEF MemoryType
<1> QED
  BY <1>4, <1>5

LEMMA RemoveDestStep ==
    ASSUME IInv, NEW d \in dtodo, RemoveDest(d) PROVE IInv'
<1> USE DEF IInv, TypeOK, RemoveDest
<1>1. d[1] \in Key /\ {d[2]} \in SUBSET Ep
  BY DEF PassType
<1>2. /\ kdst' \in [Key -> [Ep -> Dest \cup {NoDst}]]
      /\ gqueue' \subseteq Item
  BY DrainOrDeleteType
<1>3. KernelType'
  BY <1>1, <1>2, PinnedType DEF KernelType
<1>4. InformerType' /\ PassType'
  BY <1>1 DEF InformerType, PassType, informer
<1>5. MemoryType'
  BY <1>2 DEF MemoryType
<1>6. PassInv' /\ WakeInv'
  BY DEF PassInv, WakeInv, Serviced, informer
<1> QED
  BY <1>3, <1>4, <1>5, <1>6

LEMMA RemoveServiceStep ==
    ASSUME IInv, NEW k \in todo, RemoveService(k) PROVE IInv'
<1> USE DEF IInv, TypeOK, RemoveService
<1>1. k \in Key
  BY DEF PassType
<1>2. KernelType'
  BY <1>1, PinnedType, SMTT(30) DEF DelService, KernelType, NoDests
<1>3. InformerType' /\ PassType' /\ MemoryType'
  BY <1>1 DEF InformerType, PassType, MemoryType, informer, memory
<1>4. PassInv' /\ WakeInv'
  BY DEF PassInv, WakeInv, Serviced, informer, memory
<1> QED
  BY <1>2, <1>3, <1>4

LEMMA FlushStep ==
    ASSUME IInv, NEW k \in flush, FlushUdp(k) PROVE IInv'
<1> USE DEF IInv, TypeOK, FlushUdp
<1>1. InformerType' /\ PassType' /\ MemoryType'
  BY DEF InformerType, PassType, MemoryType, informer, memory
<1>2. KernelType'
  BY DEF KernelType, Flushed
<1>3. PassInv' /\ WakeInv'
  BY DEF PassInv, WakeInv, Serviced, informer, memory
<1> QED
  BY <1>1, <1>2, <1>3

LEMMA BindStep ==
    ASSUME IInv, NEW v \in vtodo, BindVip(v) \/ UnbindVip(v) PROVE IInv'
<1> USE DEF IInv, TypeOK, BindVip, UnbindVip
<1>1. InformerType' /\ PassType' /\ MemoryType'
  BY DEF InformerType, PassType, MemoryType, informer, memory
<1>2. KernelType'
  BY DEF KernelType, PassType
<1>3. PassInv' /\ WakeInv'
  BY DEF PassInv, WakeInv, Serviced, informer, memory
<1> QED
  BY <1>1, <1>2, <1>3

\* A phase hands over to the next: what the next one will visit is computed
\* from `applied` and `want` here.
LEMMA PhaseStep ==
    ASSUME IInv, ProgramDone \/ StaleDone \/ RemovedDone \/ BindDone \/ GracefulDone
    PROVE  IInv'
<1> USE DEF IInv, TypeOK, ProgramDone, StaleDone, RemovedDone, BindDone, GracefulDone
<1>1. InformerType' /\ MemoryType' /\ KernelType'
  BY DEF InformerType, MemoryType, KernelType, informer, memory, kernel
<1>2. Keys(applied) \subseteq Key /\ Vips(want) \subseteq Vip
  BY SnapshotFacts DEF PassType, MemoryType
<1>3. /\ StaleDests(applied, want) \subseteq Key \X Ep
      /\ \A d \in StaleDests(applied, want) : /\ Desires(applied, d[1], d[2])
                                              /\ ~Desires(want, d[1], d[2])
  BY DEF StaleDests
<1>4. PassType'
  BY <1>2, <1>3 DEF PassType, MemoryType, Phase, pass
<1>5. PassInv'
  BY <1>3 DEF PassInv, pass, memory
<1>6. WakeInv'
  BY DEF WakeInv, Serviced, informer, memory, pass
<1> QED
  BY <1>1, <1>4, <1>5, <1>6

LEMMA CommitStep ==
    ASSUME IInv, Commit PROVE IInv'
<1> USE DEF IInv, TypeOK, Commit
<1>1. InformerType' /\ KernelType' /\ PassType'
  BY DEF InformerType, KernelType, PassType, Phase, informer, pass, kernel
<1>2. MemoryType'
  BY SnapshotFacts DEF MemoryType, PassType
<1>3. PassInv' /\ WakeInv'
  BY DEF PassInv, WakeInv, Serviced, informer, pass
<1> QED
  BY <1>1, <1>2, <1>3

LEMMA DrainStep ==
    ASSUME IInv, NEW p \in pending, DropReadded(p) \/ Requeue(p) \/ DeleteDrained(p)
    PROVE  IInv'
<1> USE DEF IInv, TypeOK, DropReadded, Requeue, DeleteDrained
<1>1. InformerType' /\ PassType'
  BY DEF InformerType, PassType, informer, pass
<1>2. MemoryType'
  BY DEF MemoryType
<1>3. p.key \in Key /\ p.ep \in Ep
  BY DEF MemoryType, Item
<1>4. KernelType'
  <2>1. kdst' \in [Key -> [Ep -> Dest \cup {NoDst}]]
    BY <1>3 DEF KernelType, DelDest, kernel
  <2> QED
    BY <2>1 DEF KernelType, kernel
<1>5. PassInv' /\ WakeInv'
  BY DEF PassInv, WakeInv, Serviced, informer, pass
<1> QED
  BY <1>1, <1>2, <1>4, <1>5

LEMMA TailStep ==
    ASSUME IInv, Tail PROVE IInv'
<1> USE DEF IInv, TypeOK, Tail
<1>1. InformerType' /\ KernelType'
  BY DEF InformerType, KernelType, informer, kernel
<1>2. PassType' /\ PassInv' /\ pending' = {} /\ pc' = "wait"
  BY EndPassType
<1>3. MemoryType'
  BY <1>2 DEF MemoryType
<1>4. WakeInv'
  BY <1>2 DEF WakeInv, Serviced, PassInv, informer
<1> QED
  BY <1>1, <1>2, <1>3, <1>4

\* The passes that end early without having changed anything.
LEMMA QuietAbortStep ==
    ASSUME IInv,
           \/ Fail
           \/ \E d \in dtodo : DestRefused(d)
           \/ \E p \in pending : DeleteRefused(p)
    PROVE  IInv'
<1>1. KernelType /\ gqueue \subseteq Item
  BY DEF IInv, TypeOK, MemoryType
<1>2. /\ EndPass /\ lastOk' = FALSE
      /\ UNCHANGED <<informer, applied, bound, gqueue, sloppy, kernel, drifts>>
  BY DEF Fail, DestRefused, DeleteRefused
<1>3. KernelType'
  BY <1>1, <1>2 DEF KernelType, kernel
<1> QED
  BY <1>1, <1>2, <1>3, AbortStep

LEMMA Inductive == IInv /\ [Next]_vars => IInv'
<1> SUFFICES ASSUME IInv, [Next]_vars PROVE IInv'
  OBVIOUS
<1>1. CASE Environment
  BY <1>1, EnvironmentStep
<1>2. CASE Tick \/ Wake \/ Debounced
  BY <1>2, LoopStep
<1>3. CASE Fail
  BY <1>3, QuietAbortStep
<1>4. CASE Snapshot
  BY <1>4, SnapshotStep
<1>5. CASE Program
  BY <1>5, ProgramServiceStep, ProgramDestStep, QuietAbortStep, PhaseStep DEF Program
<1>6. CASE Remove
  BY <1>6, RemoveDestStep, RemoveServiceStep, FlushStep, PhaseStep DEF Remove
<1>7. CASE Bind
  BY <1>7, BindStep, PhaseStep DEF Bind
<1>8. CASE Commit
  BY <1>8, CommitStep
<1>9. CASE Drain
  BY <1>9, DrainStep, QuietAbortStep, PhaseStep DEF Drain
<1>10. CASE Tail
  BY <1>10, TailStep
<1>11. CASE UNCHANGED vars
  <2> USE <1>11 DEF vars, informer, pass, memory, kernel
  <2>1. InformerType' /\ PassType' /\ MemoryType' /\ KernelType'
    BY DEF IInv, TypeOK, InformerType, PassType, MemoryType, KernelType
  <2>2. PassInv' /\ WakeInv'
    BY DEF IInv, PassInv, WakeInv, Serviced
  <2> QED
    BY <2>1, <2>2 DEF IInv, TypeOK
<1> QED
  BY <1>1, <1>2, <1>3, <1>4, <1>5, <1>6, <1>7, <1>8, <1>9, <1>10, <1>11 DEF Next, Reconcile

---------------------------------------------------------------------------
\* The phases of a pass keep their relation to the snapshot they serve.
THEOREM Invariance == Spec => []IInv
BY InitIInv, Inductive, PTL DEF Spec

\* Every variable of the loop and of the kernel keeps its type: reconcile_inner
\* never visits a service, a destination or an address that does not exist.
THEOREM TypeCorrect == Spec => []TypeOK
BY Invariance, PTL DEF IInv

\* A store change is never lost on its way through the Notify permit, the
\* debounce and the snapshot, whatever fails or restarts on the way.
THEOREM WakeupsServed == Spec => []NoLostWakeup
<1>1. IInv => NoLostWakeup
  BY DEF IInv, WakeInv, Serviced, NoLostWakeup
<1> QED
  BY <1>1, Invariance, PTL

---------------------------------------------------------------------------
\* Kept(k, e): the step does not take traffic away from a destination that the
\* running pass desires.
Kept(k, e) ==
    drifts' = drifts /\ Desires(want, k, e) /\ Serving(k, e) => Serving(k, e)'

\* Writing a desired destination never turns one off.
LEMMA ProgramKeeps ==
    ASSUME IInv, NEW d \in dtodo, ProgramDest(d), NEW k \in Key, NEW e \in Ep
    PROVE  Kept(k, e)
<1> USE DEF IInv, TypeOK, ProgramDest
<1>1. d[1] \in Key /\ d[2] \in Ep
  BY DEF PassType
<1>2. want[d[1]].tun \in BOOLEAN
  BY <1>1, ConfigFields DEF PassInv, PassType, Desires
<1> DEFINE new == [up |-> TRUE, tun |-> want[d[1]].tun]
<1>3. new \in Dest /\ new.up
  BY <1>2 DEF Dest
<1>4. \/ kdst' = kdst
      \/ kdst' = AddDest(d[1], d[2], new)
      \/ kdst' = SetDest(d[1], d[2], new)
  BY DEF DestWrite
<1> HIDE DEF new
<1>5. new # NoDst
  BY <1>3, ConstantsAssumption
<1>6. kdst'[k][e] = kdst[k][e] \/ kdst'[k][e] = new
  <2>1. ASSUME NEW l \in Key, NEW f \in Ep
        PROVE  /\ AddDest(l, f, new)[k][e] \in {kdst[k][e], new}
               /\ SetDest(l, f, new)[k][e] \in {kdst[k][e], new}
    BY DEF AddDest, SetDest, KernelType
  <2> QED
    BY <1>1, <1>4, <2>1
<1> QED
  BY <1>3, <1>5, <1>6 DEF Kept, Serving

\* A stale destination is one the pass does not desire.
LEMMA StaleKeeps ==
    ASSUME IInv, NEW d \in dtodo, RemoveDest(d),
           NEW k \in Key, NEW e \in Ep
    PROVE  Kept(k, e)
<1> USE DEF IInv, TypeOK
<1>1. d[1] \in Key /\ d[2] \in Ep
  BY DEF PassType
<1>2. pc = "stale" /\ DrainOrDelete(d[1], d[2])
  BY DEF RemoveDest
<1>3. ~Desires(want, d[1], d[2])
  BY <1>2 DEF PassInv
<1>4. k # d[1] \/ e # d[2] => kdst'[k][e] = kdst[k][e]
  BY <1>1, <1>2 DEF DrainOrDelete, SetDest, DelDest, KernelType
<1> QED
  BY <1>3, <1>4 DEF Kept, Serving

\* A removed service is one the pass does not desire.
LEMMA RemovedKeeps ==
    ASSUME IInv, NEW l \in todo, RemoveService(l),
           NEW k \in Key, NEW e \in Ep
    PROVE  Kept(k, e)
<1> USE DEF IInv, TypeOK
<1>1. pc = "removed" /\ DelService(l)
  BY DEF RemoveService
<1>2. k = l => ~Desires(want, k, e)
  BY <1>1 DEF PassInv, Keys, Desires
<1>3. k # l => kdst'[k][e] = kdst[k][e]
  BY <1>1 DEF DelService, KernelType
<1> QED
  BY <1>2, <1>3 DEF Kept, Serving

\* The drain queue spares what was re-added: after Commit, `applied` is what the
\* pass desires.
LEMMA DrainKeeps ==
    ASSUME IInv, NEW p \in pending, DeleteDrained(p), NEW k \in Key, NEW e \in Ep
    PROVE  Kept(k, e)
<1> USE DEF IInv, TypeOK, DeleteDrained
<1>1. p.key \in Key /\ p.ep \in Ep
  BY DEF MemoryType, Item
<1>2. ~Desires(want, p.key, p.ep)
  BY DEF PassInv, Readded
<1>3. k # p.key \/ e # p.ep => kdst'[k][e] = kdst[k][e]
  BY <1>1 DEF DelDest, KernelType
<1> QED
  BY <1>2, <1>3 DEF Kept, Serving

LEMMA StepKeeps ==
    ASSUME IInv, [Next]_vars, NEW k \in Key, NEW e \in Ep
    PROVE  Kept(k, e)
<1>1. CASE \E l \in Key : Drift(l)
  BY <1>1 DEF Drift, Kept, IInv, TypeOK, KernelType
<1>2. CASE kdst' = kdst
  BY <1>2 DEF Kept, Serving
<1>3. CASE \E d \in dtodo : ProgramDest(d)
  BY <1>3, ProgramKeeps
<1>4. CASE \E d \in dtodo : RemoveDest(d)
  BY <1>4, StaleKeeps
<1>5. CASE \E l \in todo : RemoveService(l)
  BY <1>5, RemovedKeeps
<1>6. CASE \E p \in pending : DeleteDrained(p)
  BY <1>6, DrainKeeps
<1>7. \/ kdst' = kdst
      \/ \E l \in Key : Drift(l)
      \/ \E d \in dtodo : ProgramDest(d) \/ RemoveDest(d)
      \/ \E l \in todo : RemoveService(l)
      \/ \E p \in pending : DeleteDrained(p)
  <2>1. CASE Environment
    BY <2>1 DEF Environment, StoreChange, NotifyOne, Expire, Restart, kernel
  <2>2. CASE Tick \/ Wake \/ Debounced \/ Fail \/ Snapshot \/ Commit \/ Tail
    BY <2>2 DEF Tick, Wake, Debounced, Fail, Snapshot, Commit, Tail, kernel
  <2>3. CASE Program
    BY <2>3 DEF Program, ProgramService, DestRefused, ProgramDone, kernel
  <2>4. CASE Remove
    BY <2>4 DEF Remove, FlushUdp, StaleDone, RemovedDone, kernel
  <2>5. CASE Bind
    BY <2>5 DEF Bind, BindVip, UnbindVip, BindDone, kernel
  <2>6. CASE Drain
    BY <2>6 DEF Drain, DropReadded, Requeue, DeleteRefused, GracefulDone, kernel
  <2>7. CASE UNCHANGED vars
    BY <2>7 DEF vars, kernel
  <2> QED
    BY <2>1, <2>2, <2>3, <2>4, <2>5, <2>6, <2>7 DEF Next, Reconcile
<1> QED
  BY <1>1, <1>2, <1>3, <1>4, <1>5, <1>6, <1>7

\* Whatever fails and whenever the agent dies, no step of a pass drains or
\* deletes a destination that this pass desires.
THEOREM DesiredStays == Spec => DesiredNeverRemoved
<1>1. IInv /\ [Next]_vars =>
        [\A k \in Key, e \in Ep :
           (drifts' = drifts /\ Desires(want, k, e) /\ Serving(k, e)) => Serving(k, e)']_vars
  BY StepKeeps DEF Kept
<1> QED
  BY <1>1, Invariance, PTL DEF Spec, DesiredNeverRemoved

---------------------------------------------------------------------------
(* Runs without failures: no operation on the kernel fails, the agent is not  *)
(* restarted and no other program touches IPVS.  A pass may still end early,  *)
(* when the graceful queue names a destination of a service that is gone.     *)

Unfailing == ~Fallible /\ ~Restarts /\ MaxDrift = 0

Between == pc \in {"wait", "debounce", "sync"}
Late    == pc \in {"addvip", "delvip", "graceful", "tail"}

\* The parameters the kernel should hold for service k of a snapshot.
SvcOf(snap, k) == IF snap[k] = NoSvc THEN NoSvc ELSE snap[k].sched

\* A service has its old parameters until the pass has visited it, and is visited
\* before its destinations.
SvcInv ==
    /\ pc = "program" => \A d \in dtodo : d[1] \in Keys(want) \ todo
    /\ pc = "stale" => \A d \in dtodo : d[1] \in Keys(want)
    /\ \A k \in Key :
          /\ Between => ksvc[k] = SvcOf(applied, k)
          /\ pc = "program" => ksvc[k] = SvcOf(IF k \in Keys(want) \ todo THEN want ELSE applied, k)
          /\ pc = "stale" => ksvc[k] = SvcOf(IF k \in Keys(want) THEN want ELSE applied, k)
          /\ pc = "removed" /\ k \notin todo => ksvc[k] = SvcOf(want, k)
          /\ Late => ksvc[k] = SvcOf(want, k)

\* Steps that leave what a pass has done as it is.
Quiet ==
    /\ pc' = pc \/ (Between /\ Between')
    /\ UNCHANGED <<want, todo, dtodo, vtodo, applied, bound, pending, sloppy,
                   ksvc, kdst, kvip, ksloppy>>
    /\ \A k \in Key, e \in Ep : Queued(k, e)' <=> Queued(k, e)

\* A pass is over, to its end or to an item of the graceful queue.
PassOver ==
    /\ pc = "tail" \/ (pc = "graceful" /\ \E p \in pending : ksvc[p.key] = NoSvc)
    /\ EndPass
    /\ UNCHANGED <<applied, bound, gqueue, sloppy, kernel>>

CalmStep ==
    \/ Quiet \/ Snapshot
    \/ \E k \in Key : ProgramService(k)
    \/ \E d \in dtodo : ProgramDest(d)
    \/ ProgramDone
    \/ \E d \in dtodo : RemoveDest(d)
    \/ StaleDone
    \/ \E k \in todo : RemoveService(k)
    \/ RemovedDone
    \/ \E v \in vtodo : BindVip(v) \/ UnbindVip(v)
    \/ BindDone \/ Commit
    \/ \E p \in pending : DropReadded(p) \/ Requeue(p) \/ DeleteDrained(p)
    \/ GracefulDone \/ PassOver

LEMMA SvcType ==
    ASSUME NEW snap \in State, NEW k \in Key
    PROVE  SvcOf(snap, k) \in Sched \cup {NoSvc} /\ (SvcOf(snap, k) = NoSvc <=> k \notin Keys(snap))
BY ConfigFields, ConstantsAssumption DEF SvcOf, Keys, State

\* The services whose destinations a pass writes or removes are there.
LEMMA NotRefused ==
    ASSUME IInv, SvcInv, NEW d \in dtodo PROVE ~DestRefused(d)
<1> SUFFICES ASSUME DestRefused(d) PROVE FALSE
  OBVIOUS
<1> USE DEF IInv, TypeOK
<1>1. d[1] \in Key /\ want \in State /\ ksvc[d[1]] = NoSvc /\ pc \in {"program", "stale"}
  BY DEF PassType, DestRefused
<1> QED BY <1>1, SvcType DEF SvcInv

LEMMA CalmNext ==
    ASSUME Unfailing, IInv, SvcInv, [Next]_vars PROVE CalmStep
<1> USE DEF CalmStep
<1>1. CASE Environment
  <2>1. ASSUME NEW p \in gqueue, Expire(p) PROVE Quiet
    <3> DEFINE q == [p EXCEPT !.expired = TRUE]
    <3>1. p \in Item /\ gqueue' = (gqueue \ {p}) \cup {q}
      BY <2>1 DEF IInv, TypeOK, MemoryType, Expire
    <3>2. q.key = p.key /\ q.ep = p.ep
      BY <3>1 DEF Item
    <3> HIDE DEF q
    <3>3. \A k \in Key, e \in Ep : Queued(k, e)' <=> Queued(k, e)
      BY <3>1, <3>2 DEF Queued
    <3> QED BY <2>1, <3>3 DEF Expire, Quiet, pass, kernel
  <2>2. ~Restart /\ \A k \in Key : ~Drift(k)
    BY DEF Unfailing, Restart, Drift, IInv, TypeOK, KernelType
  <2>3. (\E k \in Key, c \in Reports : StoreChange(k, c)) \/ NotifyOne => Quiet
    BY DEF StoreChange, NotifyOne, Quiet, pass, memory, kernel, Queued
  <2> QED BY <1>1, <2>1, <2>2, <2>3 DEF Environment
<1>2. CASE Tick \/ Wake \/ Debounced
  BY <1>2 DEF Tick, Wake, Debounced, Quiet, Between, pass, memory, kernel, Queued
<1>3. ~Fail
  BY DEF Fail, Unfailing
<1>4. CASE Program
  BY <1>4, NotRefused DEF Program
<1>5. CASE Remove
  BY <1>5 DEF Remove, FlushUdp, Quiet, memory, Queued
<1>6. CASE Bind
  BY <1>6 DEF Bind
<1>7. CASE Drain
  BY <1>7 DEF Drain, DeleteRefused, PassOver
<1>8. CASE Tail
  BY <1>8 DEF Tail, PassOver
<1>9. CASE UNCHANGED vars
  BY <1>9 DEF vars, pass, memory, kernel, Quiet, Queued
<1> QED
  BY <1>1, <1>2, <1>3, <1>4, <1>5, <1>6, <1>7, <1>8, <1>9 DEF Next, Reconcile

LEMMA SvcWritten ==
    ASSUME IInv, SvcInv, NEW k \in Key, ProgramService(k)
    PROVE  ksvc' = [ksvc EXCEPT ![k] = SvcOf(want, k)]
<1> USE DEF IInv, TypeOK
<1>1. want \in State /\ applied \in State /\ want[k] # NoSvc /\ pc = "program" /\ k \in todo
  BY DEF PassInv, PassType, MemoryType, Keys, ProgramService
<1>2. ksvc[k] = SvcOf(applied, k) /\ ksvc \in [Key -> Sched \cup {NoSvc}]
  BY <1>1 DEF SvcInv, KernelType
<1>3. SvcOf(want, k) = want[k].sched /\ want[k].sched \in Sched /\ NoSvc \notin Sched
  BY <1>1, ConfigFields, ConstantsAssumption DEF SvcOf
<1>4. applied[k] # NoSvc => SvcOf(applied, k) = applied[k].sched /\ applied[k].sched \in Sched
  BY <1>1, ConfigFields DEF SvcOf
<1>5. ksvc' = ServiceWrite(k)
  BY DEF ProgramService
<1> QED
  BY <1>2, <1>3, <1>4, <1>5 DEF ServiceWrite, EditService, AddService, SvcOf

LEMMA SvcStep == ASSUME IInv, SvcInv, CalmStep PROVE SvcInv'
<1> USE DEF IInv, TypeOK
<1>0. /\ want \in State /\ applied \in State /\ todo \subseteq Key /\ dtodo \subseteq Key \X Ep
      /\ ksvc \in [Key -> Sched \cup {NoSvc}]
  BY DEF PassType, MemoryType, KernelType
<1>1. CASE Quiet
  BY <1>1 DEF Quiet, SvcInv, Between, Late, SvcOf, Keys, kernel
<1>2. CASE Snapshot
  BY <1>2 DEF Snapshot, SvcInv, PassInv, Between, Late, SvcOf, Keys
<1>3. ASSUME NEW k \in Key, ProgramService(k) PROVE SvcInv'
  <2>1. ksvc' = [ksvc EXCEPT ![k] = SvcOf(want, k)]
    BY <1>3, SvcWritten
  <2>2. /\ pc = "program" /\ pc' = pc /\ UNCHANGED <<want, applied>>
        /\ todo' = todo \ {k} /\ dtodo' = {k} \X want[k].eps /\ k \in todo /\ todo \subseteq Keys(want)
    BY <1>3 DEF ProgramService, PassInv, memory
  <2>3. \A d \in dtodo' : d[1] = k
    BY <2>2
  <2>4. \A l \in Key : ksvc'[l] = SvcOf(IF l \in Keys(want) \ todo' THEN want ELSE applied, l)
    BY <1>0, <2>1, <2>2 DEF SvcInv
  <2> QED BY <2>2, <2>3, <2>4 DEF SvcInv, Between, Late, Keys, SvcOf
<1>4. CASE (\E d \in dtodo : ProgramDest(d) \/ RemoveDest(d)) \/ (\E v \in vtodo : BindVip(v) \/ UnbindVip(v))
  BY <1>4 DEF ProgramDest, RemoveDest, BindVip, UnbindVip, SvcInv, Between, Late, Keys, SvcOf, memory
<1>5. CASE ProgramDone
  BY <1>5 DEF ProgramDone, SvcInv, Between, Late, Keys, SvcOf, memory, kernel, StaleDests
<1>6. CASE StaleDone
  BY <1>6 DEF StaleDone, SvcInv, Between, Late, Keys, SvcOf, memory, kernel
<1>7. ASSUME NEW k \in todo, RemoveService(k) PROVE SvcInv'
  BY <1>0, <1>7 DEF RemoveService, DelService, SvcInv, PassInv, Between, Late, Keys, SvcOf, memory
<1>8. CASE RemovedDone \/ BindDone \/ Commit \/ GracefulDone
  BY <1>8 DEF RemovedDone, BindDone, Commit, GracefulDone, SvcInv, Between, Late, Keys, SvcOf, memory, kernel, pass
<1>9. CASE \E p \in pending : DropReadded(p) \/ Requeue(p) \/ DeleteDrained(p)
  BY <1>9 DEF DropReadded, Requeue, DeleteDrained, SvcInv, Between, Late, Keys, SvcOf, kernel, pass
<1>10. CASE PassOver
  BY <1>10 DEF PassOver, EndPass, SvcInv, PassInv, Between, Late, Keys, SvcOf, kernel
<1> QED
  BY <1>1, <1>2, <1>3, <1>4, <1>5, <1>6, <1>7, <1>8, <1>9, <1>10 DEF CalmStep

LEMMA UnfailingSpec == ASSUME Unfailing PROVE Spec => [](SvcInv /\ IInv)
<1>1. Init => SvcInv
  BY DEF Init, SvcInv, Between, Late, SvcOf, Nothing
<1>2. IInv /\ SvcInv /\ [Next]_vars => SvcInv'
  BY CalmNext, SvcStep
<1> QED BY <1>1, <1>2, Invariance, PTL DEF Spec

---------------------------------------------------------------------------
\* Without failures, whatever takes traffic is desired by the snapshot applied
\* last or by the one that is being applied.
ServInv ==
    \A k \in Key, e \in Ep : Serving(k, e) =>
        /\ Between => Desires(applied, k, e)
        /\ pc = "program" => Desires(applied, k, e) \/ Desires(want, k, e)
        /\ pc = "stale" => \/ Desires(want, k, e) \/ <<k, e>> \in dtodo
                           \/ k \in Keys(applied) \ Keys(want)
        /\ pc = "removed" => Desires(want, k, e) \/ k \in todo
        /\ Late => Desires(want, k, e)

LEMMA ServStep == ASSUME IInv, ServInv, CalmStep PROVE ServInv'
<1> USE DEF IInv, TypeOK
<1>0. /\ want \in State /\ applied \in State /\ todo \subseteq Key /\ dtodo \subseteq Key \X Ep
      /\ kdst \in [Key -> [Ep -> Dest \cup {NoDst}]]
  BY DEF PassType, MemoryType, KernelType
<1>1. CASE Quiet
  BY <1>1 DEF Quiet, ServInv, Serving, Between, Late, Desires, Keys, kernel
<1>2. CASE Snapshot
  BY <1>2 DEF Snapshot, ServInv, Serving, Between, Late, Desires, Keys
<1>3. CASE \E k \in Key : ProgramService(k)
  BY <1>3 DEF ProgramService, ServInv, Serving, Between, Late, Desires, Keys, memory
<1>4. ASSUME NEW d \in dtodo, ProgramDest(d) PROVE ServInv'
  <2>1. d[1] \in Key /\ d[2] \in Ep /\ Desires(want, d[1], d[2]) /\ pc = "program"
    BY <1>0, <1>4 DEF ProgramDest, PassInv
  <2>2. \A k \in Key, e \in Ep : k # d[1] \/ e # d[2] => kdst'[k][e] = kdst[k][e]
    BY <1>0, <1>4, <2>1 DEF ProgramDest, DestWrite, AddDest, SetDest
  <2>3. UNCHANGED <<want, applied, pc>>
    BY <1>4 DEF ProgramDest, memory
  <2> QED BY <2>1, <2>2, <2>3 DEF ServInv, Serving, Between, Late, Desires
<1>5. CASE ProgramDone
  BY <1>0, <1>5 DEF ProgramDone, ServInv, Serving, Between, Late, Desires, Keys, memory, kernel, StaleDests
<1>6. ASSUME NEW d \in dtodo, RemoveDest(d) PROVE ServInv'
  <2>1. d[1] \in Key /\ d[2] \in Ep /\ pc = "stale" /\ dtodo' = dtodo \ {d} /\ UNCHANGED <<want, applied, pc, todo>>
    BY <1>0, <1>6 DEF RemoveDest
  <2>2. \A k \in Key, e \in Ep : k # d[1] \/ e # d[2] => kdst'[k][e] = kdst[k][e]
    BY <1>0, <1>6, <2>1 DEF RemoveDest, DrainOrDelete, SetDest, DelDest
  <2>3. ~Serving(d[1], d[2])'
    BY <1>0, <1>6, <2>1 DEF RemoveDest, DrainOrDelete, SetDest, DelDest, Serving
  <2>4. d = <<d[1], d[2]>>
    BY <1>0
  <2>5. ASSUME NEW k \in Key, NEW e \in Ep, Serving(k, e)'
        PROVE  Desires(want, k, e) \/ <<k, e>> \in dtodo' \/ k \in Keys(applied) \ Keys(want)
    <3>1. k # d[1] \/ e # d[2]
      BY <2>3, <2>5
    <3>2. Serving(k, e) /\ <<k, e>> # d
      BY <2>2, <2>4, <2>5, <3>1 DEF Serving
    <3> QED BY <2>1, <3>2 DEF ServInv
  <2> QED BY <2>1, <2>5 DEF ServInv, Between, Late, Desires, Keys
<1>7. CASE StaleDone
  BY <1>7 DEF StaleDone, ServInv, Serving, Between, Late, Desires, Keys, memory, kernel
<1>8. ASSUME NEW k \in todo, RemoveService(k) PROVE ServInv'
  BY <1>0, <1>8 DEF RemoveService, DelService, NoDests, ServInv, Serving, Between, Late, Desires, memory
<1>9. CASE \E v \in vtodo : BindVip(v) \/ UnbindVip(v)
  BY <1>9 DEF BindVip, UnbindVip, ServInv, Serving, Between, Late, Desires, memory
<1>10. CASE RemovedDone \/ BindDone \/ Commit \/ GracefulDone
  BY <1>10 DEF RemovedDone, BindDone, Commit, GracefulDone, ServInv, Serving, Between, Late, Desires, memory, kernel, pass
<1>11. ASSUME NEW p \in pending, DropReadded(p) \/ Requeue(p) \/ DeleteDrained(p) PROVE ServInv'
  <2>1. p.key \in Key /\ p.ep \in Ep
    BY DEF MemoryType, Item
  <2>2. \A k \in Key, e \in Ep : kdst'[k][e] \in {kdst[k][e], NoDst}
    BY <1>0, <1>11, <2>1 DEF DropReadded, Requeue, DeleteDrained, DelDest, kernel
  <2>3. \A k \in Key, e \in Ep : Serving(k, e)' => Serving(k, e)
    BY <2>2 DEF Serving
  <2>4. pc = "graceful" /\ UNCHANGED <<pc, want>>
    BY <1>11 DEF DropReadded, Requeue, DeleteDrained, pass
  <2> QED BY <2>3, <2>4 DEF ServInv, Between, Late, Desires
<1>12. CASE PassOver
  BY <1>12 DEF PassOver, EndPass, ServInv, PassInv, Serving, Between, Late, Desires, kernel
<1> QED
  BY <1>1, <1>2, <1>3, <1>4, <1>5, <1>6, <1>7, <1>8, <1>9, <1>10, <1>11, <1>12 DEF CalmStep

LEMMA Served == ASSUME Unfailing PROVE Spec => []ServInv
<1>1. Init => ServInv
  BY DEF Init, ServInv, Serving, NoDests
<1>2. IInv /\ SvcInv /\ ServInv /\ [Next]_vars => ServInv'
  BY CalmNext, ServStep
<1> QED BY <1>1, <1>2, UnfailingSpec, PTL DEF Spec

\* Under graceful termination, and without failures, no pass deletes a destination
\* that takes new connections from a service that stays (sync.rs:647-676, 710-739):
\* what the queue deletes is not desired any more, so it is drained.
THEOREM DrainsFirst == ASSUME Unfailing, Graceful PROVE Spec => DrainBeforeDelete
<1>1. ASSUME IInv, ServInv, CalmStep, NEW k \in Key, NEW e \in Ep, ksvc'[k] # NoSvc, Serving(k, e)
      PROVE  kdst'[k][e] # NoDst
  <2> USE DEF IInv, TypeOK
  <2>0. /\ want \in State /\ applied \in State /\ todo \subseteq Key /\ dtodo \subseteq Key \X Ep
        /\ kdst \in [Key -> [Ep -> Dest \cup {NoDst}]] /\ ksvc \in [Key -> Sched \cup {NoSvc}]
        /\ kdst[k][e] # NoDst
    BY <1>1 DEF PassType, MemoryType, KernelType, Serving
  <2>1. CASE \E l \in todo : RemoveService(l)
    BY <1>1, <2>0, <2>1 DEF RemoveService, DelService
  <2>2. ASSUME NEW p \in pending, DeleteDrained(p) PROVE kdst'[k][e] # NoDst
    <3>1. p.key \in Key /\ p.ep \in Ep
      BY <1>1 DEF MemoryType, Item
    <3>2. ~Desires(want, p.key, p.ep) /\ Late
      BY <1>1, <2>2 DEF DeleteDrained, Readded, PassInv, Late
    <3>3. k # p.key \/ e # p.ep
      BY <1>1, <3>2 DEF ServInv
    <3> QED BY <2>0, <2>2, <3>1, <3>3 DEF DeleteDrained, DelDest
  <2>3. ASSUME NEW d \in dtodo, ProgramDest(d) \/ RemoveDest(d) PROVE kdst'[k][e] # NoDst
    <3>1. d[1] \in Key /\ d[2] \in Ep /\ pc \in {"program", "stale"}
      BY <2>0, <2>3 DEF ProgramDest, RemoveDest
    <3>2. /\ \A b \in BOOLEAN, t \in BOOLEAN : [up |-> b, tun |-> t] # NoDst
      BY ConstantsAssumption DEF Dest
    <3>3. CASE ProgramDest(d)
      <4>1. want[d[1]].tun \in BOOLEAN
        BY <1>1, <2>0, <3>1, <3>3, ConfigFields DEF ProgramDest, PassInv, Desires
      <4> QED BY <2>0, <3>1, <3>2, <3>3, <4>1 DEF ProgramDest, DestWrite, AddDest, SetDest
    <3>4. CASE RemoveDest(d)
      <4>1. applied[d[1]].tun \in BOOLEAN
        BY <1>1, <2>0, <3>1, <3>4, ConfigFields DEF RemoveDest, PassInv, Desires
      <4> DEFINE new == [up |-> FALSE, tun |-> applied[d[1]].tun]
      <4>2. kdst' = SetDest(d[1], d[2], new)
        BY <3>4 DEF RemoveDest, DrainOrDelete
      <4>3. new # NoDst
        BY <3>2, <4>1
      <4> HIDE DEF new
      <4> QED BY <2>0, <3>1, <4>2, <4>3 DEF SetDest
    <3> QED BY <2>3, <3>3, <3>4
  <2>4. \/ kdst' = kdst
        \/ \E l \in todo : RemoveService(l)
        \/ \E p \in pending : DeleteDrained(p)
        \/ \E d \in dtodo : ProgramDest(d) \/ RemoveDest(d)
    BY <1>1 DEF CalmStep, Quiet, Snapshot, ProgramService, ProgramDone, StaleDone, RemovedDone, BindVip, UnbindVip,
                BindDone, Commit, DropReadded, Requeue, GracefulDone, PassOver, kernel
  <2> QED BY <2>0, <2>1, <2>2, <2>3, <2>4
<1>2. IInv /\ SvcInv /\ ServInv /\ [Next]_vars =>
        [\A k \in Key, e \in Ep : (ksvc'[k] # NoSvc /\ Serving(k, e)) => kdst'[k][e] # NoDst]_vars
  BY <1>1, CalmNext
<1> QED BY <1>2, Served, UnfailingSpec, PTL DEF Spec, DrainBeforeDelete

---------------------------------------------------------------------------
\* The destinations that a pass will make the agent forget.
Leaving(f) == Desires(applied, f[1], f[2]) /\ ~Desires(want, f[1], f[2])

\* From the phase on in which it is removed, a destination with a flow pinned to it is
\* still to be visited, or its service is about to be flushed.
FlowInv ==
    \A f \in ct :
        /\ f[1] \in Udp
        /\ pc = "stale" /\ Leaving(f) /\ f[1] \in Keys(want) => f \in dtodo \/ f[1] \in flush
        /\ pc = "removed" /\ Leaving(f) => f[1] \in todo \/ f[1] \in flush
        /\ pc \in {"addvip", "delvip"} => ~Leaving(f)

\* Steps that pin no flow and neither take a destination from those to visit nor
\* a service from those to flush.
LEMMA FlowQuiet ==
    ASSUME IInv, FlowInv, UNCHANGED <<ct, want, applied>>,
           pc' = pc => UNCHANGED <<todo, dtodo, flush>>,
           pc' = pc \/ pc' \notin {"stale", "removed", "addvip", "delvip"}
    PROVE  FlowInv'
<1>1. \A f \in ct : Leaving(f)' = Leaving(f)
  BY DEF Leaving, Desires
<1>2. Keys(want)' = Keys(want)
  BY DEF Keys
<1> QED BY <1>1, <1>2 DEF FlowInv

LEMMA FlowStep == ASSUME IInv, FlowInv, [Next]_vars PROVE FlowInv'
<1> USE DEF IInv, TypeOK
<1>0. /\ ct \subseteq Key \X Ep /\ todo \subseteq Key /\ dtodo \subseteq Key \X Ep /\ flush \subseteq Key
      /\ \A f \in ct : UNCHANGED <<want, applied>> => Leaving(f)' = Leaving(f)
      /\ want' = want => Keys(want)' = Keys(want)
  BY DEF PassType, KernelType, Leaving, Desires, Keys
<1>1. ASSUME UNCHANGED ct, pc' \notin {"stale", "removed", "addvip", "delvip"} PROVE FlowInv'
  BY <1>1 DEF FlowInv
<1>2. CASE Environment
  <2>1. CASE Restart
    BY <1>1, <2>1 DEF Restart, EndPass, kernel
  <2>2. CASE ~Restart
    <3>1. UNCHANGED <<ct, want, applied, pc, todo, dtodo, flush>>
      BY <1>2, <2>2 DEF Environment, StoreChange, NotifyOne, Expire, Drift, kernel, pass, memory
    <3> QED BY <3>1, FlowQuiet
  <2> QED BY <2>1, <2>2
<1>3. CASE Tick \/ Wake \/ Debounced \/ Fail \/ Snapshot \/ Commit \/ Tail
  BY <1>1, <1>3 DEF Tick, Wake, Debounced, Fail, Snapshot, Commit, Tail, EndPass, kernel
<1>4. CASE (\E k \in Key : ProgramService(k)) \/ (\E d \in dtodo : ProgramDest(d) \/ DestRefused(d))
  BY <1>1, <1>4 DEF ProgramService, ProgramDest, DestRefused, EndPass, kernel
<1>5. CASE ProgramDone
  <2>1. \A f \in ct : Leaving(f) /\ f[1] \in Keys(want) => f \in StaleDests(applied, want)
    BY <1>0 DEF Leaving, StaleDests
  <2>2. /\ pc' = "stale" /\ dtodo' = StaleDests(applied, want) /\ UNCHANGED <<ct, want, applied>>
    BY <1>5 DEF ProgramDone, memory, kernel
  <2> QED BY <1>0, <2>1, <2>2 DEF FlowInv
<1>6. ASSUME NEW d \in dtodo, RemoveDest(d) PROVE FlowInv'
  <2>1. /\ pc = "stale" /\ flush = {} /\ dtodo' = dtodo \ {d} /\ flush' = {d[1]} \cap Udp
        /\ UNCHANGED <<pc, want, applied>> /\ ct' = Pinned(d[1], {d[2]})
    BY <1>6 DEF RemoveDest
  <2>2. \A f \in ct' : f \in ct \/ (f = d /\ d[1] \in Udp)
    BY <1>0, <2>1 DEF Pinned
  <2>3. \A f : Leaving(f)' = Leaving(f)
    BY <2>1 DEF Leaving, Desires
  <2>4. ASSUME NEW f \in ct', Leaving(f), f[1] \in Keys(want) PROVE f \in dtodo' \/ f[1] \in flush'
    <3>1. CASE f = d
      <4>1. d[1] \in Udp
        BY <2>2, <2>4, <3>1 DEF FlowInv
      <4> QED BY <2>1, <3>1, <4>1
    <3>2. CASE f # d
      BY <2>1, <2>2, <2>4, <3>2 DEF FlowInv
    <3> QED BY <3>1, <3>2
  <2>5. \A f \in ct' : f[1] \in Udp
    BY <2>2 DEF FlowInv
  <2> QED BY <1>0, <2>1, <2>3, <2>4, <2>5 DEF FlowInv
<1>7. CASE StaleDone
  <2>1. /\ pc = "stale" /\ dtodo = {} /\ flush = {} /\ pc' = "removed"
        /\ todo' = Keys(applied) \ Keys(want) /\ UNCHANGED <<ct, want, applied>>
    BY <1>7 DEF StaleDone, memory, kernel
  <2>2. \A f \in ct : Leaving(f) => f[1] \in Keys(applied) \ Keys(want)
    BY <1>0, <2>1 DEF FlowInv, Leaving, Desires, Keys
  <2> QED BY <1>0, <2>1, <2>2 DEF FlowInv
<1>8. ASSUME NEW k \in todo, RemoveService(k) PROVE FlowInv'
  <2>1. /\ pc = "removed" /\ flush = {} /\ todo' = todo \ {k} /\ flush' = {k} \cap Udp
        /\ UNCHANGED <<pc, want, applied>> /\ ct' = Pinned(k, Ep)
    BY <1>8 DEF RemoveService, memory
  <2>2. \A f \in ct' : f \in ct \/ (f[1] = k /\ k \in Udp)
    BY <1>0, <2>1 DEF Pinned
  <2>3. \A f : Leaving(f)' = Leaving(f)
    BY <2>1 DEF Leaving, Desires
  <2>4. ASSUME NEW f \in ct', Leaving(f) PROVE f[1] \in todo' \/ f[1] \in flush'
    <3>1. f[1] \in Udp
      BY <2>2 DEF FlowInv
    <3>2. CASE f[1] = k
      BY <2>1, <3>1, <3>2
    <3>3. CASE f[1] # k
      BY <2>1, <2>2, <2>4, <3>3 DEF FlowInv
    <3> QED BY <3>2, <3>3
  <2>5. \A f \in ct' : f[1] \in Udp
    BY <2>2 DEF FlowInv
  <2> QED BY <2>1, <2>3, <2>4, <2>5 DEF FlowInv
<1>9. ASSUME NEW k \in flush, FlushUdp(k) PROVE FlowInv'
  <2>1. /\ ct' = {f \in ct : f[1] # k} /\ flush' = {} /\ UNCHANGED <<pc, want, applied, todo, dtodo>>
    BY <1>9 DEF FlushUdp, Flushed, memory
  <2>2. flush = {k}
    BY <1>9 DEF PassInv
  <2> QED BY <1>0, <2>1, <2>2 DEF FlowInv
<1>10. CASE RemovedDone
  BY <1>0, <1>10 DEF RemovedDone, FlowInv, memory, kernel
<1>11. CASE (\E v \in vtodo : BindVip(v) \/ UnbindVip(v)) \/ BindDone
  BY <1>0, <1>11 DEF BindVip, UnbindVip, BindDone, FlowInv, memory, kernel
<1>12. CASE Drain
  BY <1>1, <1>12 DEF Drain, DropReadded, Requeue, DeleteDrained, DeleteRefused, GracefulDone, EndPass, kernel
<1>13. CASE UNCHANGED vars
  <2>1. UNCHANGED <<ct, want, applied, pc, todo, dtodo, flush>>
    BY <1>13 DEF vars, pass, memory, kernel
  <2> QED BY <2>1, FlowQuiet
<1> QED
  BY <1>2, <1>3, <1>4, <1>5, <1>6, <1>7, <1>8, <1>9, <1>10, <1>11, <1>12, <1>13
     DEF Next, Reconcile, Program, Remove, Bind

\* Whichever removals and flushes failed, and wherever passes ended or the agent was
\* restarted, no pass makes the agent forget a destination to which a UDP flow is still
\* pinned (sync.rs:482-490, 695-703, 508): the next pass has the destination to remove
\* and to flush again.
THEOREM FlowsFlushed == Spec => FlushedBeforeForgotten
<1>1. Init => FlowInv
  BY DEF Init, FlowInv
<1>2. IInv /\ FlowInv /\ [Next]_vars => FlowInv'
  BY FlowStep
<1>3. FlowInv /\ [Next]_vars =>
        [Commit => \A f \in ct : Desires(applied, f[1], f[2]) => Desires(want, f[1], f[2])]_vars
  BY DEF FlowInv, Leaving, Commit
<1> QED BY <1>1, <1>2, <1>3, Invariance, PTL DEF Spec, FlushedBeforeForgotten

---------------------------------------------------------------------------
(* What a pass leaves in the kernel, without failures and without draining,   *)
(* when no service changes its forwarding method.                             *)

Steady == ~Graceful /\ \A c \in Config, d \in Config : c.tun = d.tun

\* Destination e of service k as a snapshot wants it.
DstOf(snap, k, e) == IF Desires(snap, k, e) THEN [up |-> TRUE, tun |-> snap[k].tun] ELSE NoDst

DestInv ==
    \A k \in Key, e \in Ep :
        /\ Between => kdst[k][e] = DstOf(applied, k, e)
        /\ pc = "program" =>
              IF Desires(want, k, e) /\ k \notin todo /\ <<k, e>> \notin dtodo
              THEN kdst[k][e] = DstOf(want, k, e) ELSE kdst[k][e] = DstOf(applied, k, e)
        /\ pc = "stale" =>
              IF k \in Keys(want) THEN <<k, e>> \in dtodo \/ kdst[k][e] = DstOf(want, k, e)
              ELSE kdst[k][e] = DstOf(applied, k, e)
        /\ pc = "removed" => k \in todo \/ kdst[k][e] = DstOf(want, k, e)
        /\ Late => kdst[k][e] = DstOf(want, k, e)

\* Writing a destination gives it what the pass wants of it.
LEMMA DestWritten ==
    ASSUME IInv, DestInv, Steady, NEW d \in dtodo, ProgramDest(d)
    PROVE  kdst' = [kdst EXCEPT ![d[1]] = [@ EXCEPT ![d[2]] = DstOf(want, d[1], d[2])]]
<1> USE DEF IInv, TypeOK
<1> DEFINE k == d[1]
           e == d[2]
           new == [up |-> TRUE, tun |-> want[k].tun]
<1>0. k \in Key /\ e \in Ep /\ d = <<k, e>> /\ want \in State /\ applied \in State /\ pc = "program"
  BY DEF PassType, MemoryType, ProgramDest
<1>1. Desires(want, k, e) /\ DstOf(want, k, e) = new
  BY <1>0 DEF PassInv, DstOf
<1>2. kdst[k][e] = DstOf(applied, k, e)
  BY <1>0 DEF DestInv
<1>3. Desires(applied, k, e) => DstOf(applied, k, e) = new
  <2> SUFFICES ASSUME Desires(applied, k, e) PROVE DstOf(applied, k, e) = new
    OBVIOUS
  <2>1. applied[k] \in Config /\ want[k] \in Config
    BY <1>0, <1>1 DEF State, Desires
  <2> QED BY <2>1 DEF DstOf, Steady
<1>4. new # NoDst
  <2>1. want[k].tun \in BOOLEAN
    BY <1>0, <1>1, ConfigFields DEF Desires
  <2>2. new \in Dest
    BY <2>1 DEF Dest
  <2> HIDE DEF new
  <2> QED BY <2>2, ConstantsAssumption
<1>5. kdst \in [Key -> [Ep -> Dest \cup {NoDst}]] /\ kdst' = DestWrite(k, e)
  BY DEF KernelType, ProgramDest
<1>6. ~Desires(applied, k, e) => DstOf(applied, k, e) = NoDst
  BY DEF DstOf
<1>7. DestWrite(k, e) \in {kdst, AddDest(k, e, new), SetDest(k, e, new)} /\ (kdst[k][e] = NoDst => DestWrite(k, e) = AddDest(k, e, new))
  BY <1>2, <1>3, <1>4, <1>6 DEF DestWrite, DestSkipped
<1> HIDE DEF k, e, new
<1>8. CASE kdst[k][e] = NoDst
  BY <1>0, <1>1, <1>5, <1>7, <1>8 DEF AddDest
<1>9. CASE kdst[k][e] = new
  BY <1>0, <1>1, <1>4, <1>5, <1>7, <1>9 DEF AddDest, SetDest
<1> QED BY <1>2, <1>3, <1>6, <1>8, <1>9 DEF k, e

LEMMA DestStep == ASSUME IInv, SvcInv, DestInv, Steady, CalmStep PROVE DestInv'
<1> USE DEF IInv, TypeOK
<1>0. /\ want \in State /\ applied \in State /\ todo \subseteq Key /\ dtodo \subseteq Key \X Ep
      /\ kdst \in [Key -> [Ep -> Dest \cup {NoDst}]]
  BY DEF PassType, MemoryType, KernelType
<1>00. /\ want' = want => /\ Keys(want)' = Keys(want)
                          /\ \A k \in Key, e \in Ep : /\ DstOf(want, k, e)' = DstOf(want, k, e)
                                                     /\ Desires(want, k, e)' = Desires(want, k, e)
       /\ applied' = applied => \A k \in Key, e \in Ep : DstOf(applied, k, e)' = DstOf(applied, k, e)
  BY DEF DstOf, Desires, Keys
<1>1. CASE Quiet
  BY <1>00, <1>1, ZenonT(40) DEF Quiet, DestInv, Between, Late, kernel
<1>2. CASE Snapshot
  BY <1>2 DEF Snapshot, DestInv, DstOf, Between, Late, Desires, Keys
<1>3. ASSUME NEW k \in Key, ProgramService(k) PROVE DestInv'
  <2>1. /\ pc = "program" /\ dtodo = {} /\ k \in todo /\ todo' = todo \ {k} /\ dtodo' = {k} \X want[k].eps
        /\ UNCHANGED <<pc, want, applied, kdst>>
    BY <1>3 DEF ProgramService, memory
  <2>2. ASSUME NEW l \in Key, NEW e \in Ep
        PROVE  (Desires(want, l, e) /\ l \notin todo' /\ <<l, e>> \notin dtodo') <=>
               (Desires(want, l, e) /\ l \notin todo /\ <<l, e>> \notin dtodo)
    BY <2>1 DEF Desires
  <2> QED BY <1>00, <2>1, <2>2, ZenonT(40) DEF DestInv, Between, Late
<1>4. ASSUME NEW d \in dtodo, ProgramDest(d) PROVE DestInv'
  <2>1. kdst' = [kdst EXCEPT ![d[1]] = [@ EXCEPT ![d[2]] = DstOf(want, d[1], d[2])]]
    BY <1>4, DestWritten
  <2>2. /\ pc = "program" /\ dtodo' = dtodo \ {d} /\ UNCHANGED <<pc, want, applied, todo>>
        /\ d[1] \in Key /\ d[2] \in Ep /\ d = <<d[1], d[2]>> /\ Desires(want, d[1], d[2])
    BY <1>0, <1>4 DEF ProgramDest, PassInv, memory
  <2>3. ASSUME NEW l \in Key, NEW e \in Ep, <<l, e>> # d PROVE kdst'[l][e] = kdst[l][e]
    BY <1>0, <2>1, <2>2, <2>3
  <2>4. kdst'[d[1]][d[2]] = DstOf(want, d[1], d[2])
    BY <1>0, <2>1, <2>2
  <2>5. d[1] \notin todo
    BY <2>2, <1>4 DEF SvcInv
  <2>6. ASSUME NEW k \in Key, NEW e \in Ep
        PROVE  IF Desires(want, k, e) /\ k \notin todo /\ <<k, e>> \notin dtodo'
               THEN kdst'[k][e] = DstOf(want, k, e) ELSE kdst'[k][e] = DstOf(applied, k, e)
    <3>1. CASE <<k, e>> = d
      <4>1. k = d[1] /\ e = d[2]
        BY <3>1
      <4> QED BY <2>2, <2>4, <2>5, <3>1, <4>1
    <3>2. CASE <<k, e>> # d
      <4>1. <<k, e>> \in dtodo' <=> <<k, e>> \in dtodo
        BY <2>2, <3>2
      <4> QED BY <2>2, <2>3, <3>2, <4>1 DEF DestInv
    <3> QED BY <3>1, <3>2
  <2> QED BY <1>00, <2>2, <2>6, ZenonT(40) DEF DestInv, Between, Late
<1>5. CASE ProgramDone
  <2>1. ASSUME NEW k \in Key, NEW e \in Ep
        PROVE  IF k \in Keys(want) THEN <<k, e>> \in StaleDests(applied, want) \/ kdst[k][e] = DstOf(want, k, e)
               ELSE kdst[k][e] = DstOf(applied, k, e)
    BY <1>5 DEF ProgramDone, DestInv, DstOf, StaleDests, Desires, Keys
  <2> QED BY <1>5, <2>1, ZenonT(40) DEF ProgramDone, DestInv, DstOf, Between, Late, Desires, Keys, memory, kernel
<1>6. ASSUME NEW d \in dtodo, RemoveDest(d) PROVE DestInv'
  <2>1. /\ d[1] \in Key /\ d[2] \in Ep /\ d = <<d[1], d[2]>> /\ pc = "stale" /\ dtodo' = dtodo \ {d}
        /\ UNCHANGED <<want, applied, pc, todo>> /\ ~Desires(want, d[1], d[2])
    BY <1>0, <1>6 DEF RemoveDest, PassInv
  <2>2. kdst' = DelDest(d[1], d[2])
    BY <1>6 DEF RemoveDest, DrainOrDelete, Steady
  <2>3. \A k \in Key, e \in Ep : <<k, e>> # d => kdst'[k][e] = kdst[k][e]
    BY <1>0, <2>1, <2>2 DEF DelDest
  <2>4. kdst'[d[1]][d[2]] = NoDst
    BY <1>0, <2>1, <2>2 DEF DelDest
  <2>5. DstOf(want, d[1], d[2]) = NoDst
    BY <2>1 DEF DstOf
  <2>6. ASSUME NEW k \in Key, NEW e \in Ep
        PROVE  IF k \in Keys(want) THEN <<k, e>> \in dtodo' \/ kdst'[k][e] = DstOf(want, k, e)
               ELSE kdst'[k][e] = DstOf(applied, k, e)
    <3>1. CASE <<k, e>> = d
      <4>1. k = d[1] /\ e = d[2]
        BY <3>1
      <4> QED BY <2>1, <2>4, <2>5, <4>1 DEF SvcInv
    <3>2. CASE <<k, e>> # d
      BY <2>1, <2>3, <3>2 DEF DestInv
    <3> QED BY <3>1, <3>2
  <2> QED BY <1>00, <2>1, <2>6 DEF DestInv, Between, Late
<1>7. CASE StaleDone
  BY <1>0, <1>7, ZenonT(40) DEF StaleDone, DestInv, DstOf, Between, Late, Desires, Keys, memory, kernel
<1>8. ASSUME NEW k \in todo, RemoveService(k) PROVE DestInv'
  <2>1. /\ pc = "removed" /\ kdst' = [kdst EXCEPT ![k] = NoDests] /\ todo' = todo \ {k} /\ UNCHANGED <<want, pc>>
        /\ k \in Key /\ k \notin Keys(want)
    BY <1>0, <1>8 DEF RemoveService, DelService, PassInv
  <2> QED BY <1>0, <2>1, ZenonT(40) DEF DestInv, DstOf, Between, Late, Desires, Keys, NoDests
<1>9. CASE \E v \in vtodo : BindVip(v) \/ UnbindVip(v)
  BY <1>00, <1>9 DEF BindVip, UnbindVip, DestInv, Between, Late
<1>10. CASE RemovedDone \/ BindDone \/ Commit \/ GracefulDone
  BY <1>00, <1>10, ZenonT(40) DEF RemovedDone, BindDone, Commit, GracefulDone, DestInv, Between, Late, kernel, pass
<1>11. ASSUME NEW p \in pending, DropReadded(p) \/ Requeue(p) \/ DeleteDrained(p) PROVE DestInv'
  <2>1. p.key \in Key /\ p.ep \in Ep
    BY DEF MemoryType, Item
  <2>2. pc = "graceful" /\ UNCHANGED <<pc, want>> /\ applied = want
    BY <1>11 DEF DropReadded, Requeue, DeleteDrained, pass, PassInv
  <2>3. CASE kdst' = kdst
    BY <2>2, <2>3 DEF DestInv, DstOf, Between, Late, Desires
  <2>4. CASE DeleteDrained(p)
    <3>1. DstOf(want, p.key, p.ep) = NoDst
      BY <2>2, <2>4 DEF DeleteDrained, Readded, DstOf
    <3>2. \A k \in Key, e \in Ep : kdst'[k][e] = IF k = p.key /\ e = p.ep THEN NoDst ELSE kdst[k][e]
      BY <1>0, <2>1, <2>4 DEF DeleteDrained, DelDest
    <3> QED BY <1>00, <2>2, <3>1, <3>2 DEF DestInv, Between, Late
  <2> QED BY <1>11, <2>3, <2>4 DEF DropReadded, Requeue, kernel
<1>12. CASE PassOver
  <2>1. pc \in {"graceful", "tail"} /\ pc' = "wait" /\ UNCHANGED <<applied, kdst>> /\ want = applied
    BY <1>12 DEF PassOver, EndPass, PassInv, kernel
  <2> QED BY <1>00, <2>1 DEF DestInv, Between, Late
<1> QED
  BY <1>1, <1>2, <1>3, <1>4, <1>5, <1>6, <1>7, <1>8, <1>9, <1>10, <1>11, <1>12 DEF CalmStep

\* The addresses on kube-dummy-if are those of the last snapshot, then of both, then
\* of the new one; sloppy_tcp follows the snapshot at once.
VipInv ==
    /\ bound = Vips(applied)
    /\ Between \/ pc \in {"program", "stale", "removed"} => kvip = bound
    /\ pc = "addvip" => vtodo \subseteq Vips(want) \ bound /\ kvip = bound \cup (Vips(want) \ vtodo)
    /\ pc = "delvip" => vtodo \subseteq bound \ Vips(want) /\ kvip = Vips(want) \cup vtodo
    /\ pc \in {"graceful", "tail"} => kvip = Vips(want)
    /\ ksloppy = sloppy
    /\ sloppy = WantsSloppy(IF Between THEN applied ELSE want)

LEMMA VipStep == ASSUME Unfailing, IInv, VipInv, CalmStep PROVE VipInv'
<1>0. /\ want' = want => Vips(want)' = Vips(want) /\ WantsSloppy(want)' = WantsSloppy(want)
      /\ applied' = applied => Vips(applied)' = Vips(applied) /\ WantsSloppy(applied)' = WantsSloppy(applied)
  BY DEF Vips, Keys, WantsSloppy
<1>1. pc \in Phase
  BY DEF IInv, TypeOK, PassType
<1>2. CASE Quiet
  BY <1>0, <1>2 DEF Quiet, VipInv, Between, kernel
<1>3. CASE Snapshot
  <2>1. WantsSloppy(want)' = WantsSloppy(store)
    BY <1>3 DEF Snapshot, WantsSloppy, Keys
  <2> QED BY <1>0, <1>3, <2>1 DEF Snapshot, VipInv, Between, Unfailing
<1>4. CASE \/ \E k \in Key : ProgramService(k)
           \/ \E d \in dtodo : ProgramDest(d) \/ RemoveDest(d)
           \/ \E k \in todo : RemoveService(k)
  BY <1>0, <1>4 DEF ProgramService, ProgramDest, RemoveDest, RemoveService, VipInv, Between, memory
<1>5. CASE ProgramDone \/ StaleDone \/ RemovedDone \/ GracefulDone
  BY <1>0, <1>5 DEF ProgramDone, StaleDone, RemovedDone, GracefulDone, VipInv, Between, memory, kernel, pass
<1>6. CASE BindDone
  BY <1>0, <1>6 DEF BindDone, VipInv, Between, memory, kernel
<1>7. ASSUME NEW v \in vtodo, BindVip(v) \/ UnbindVip(v) PROVE VipInv'
  BY <1>0, <1>7 DEF BindVip, UnbindVip, VipInv, Between, memory
<1>8. CASE Commit
  <2>1. Vips(applied)' = Vips(want)
    BY <1>8 DEF Commit, Vips, Keys
  <2> QED BY <1>0, <1>8, <2>1 DEF Commit, VipInv, Between, kernel, pass
<1>9. CASE \E p \in pending : DropReadded(p) \/ Requeue(p) \/ DeleteDrained(p)
  BY <1>0, <1>9 DEF DropReadded, Requeue, DeleteDrained, VipInv, Between, kernel, pass
<1>10. CASE PassOver
  BY <1>0, <1>10 DEF PassOver, EndPass, VipInv, Between, PassInv, IInv, kernel
<1> QED
  BY <1>2, <1>3, <1>4, <1>5, <1>6, <1>7, <1>8, <1>9, <1>10 DEF CalmStep

\* Without failures and without draining, every pass leaves the kernel with exactly
\* the services, destinations, addresses and the sloppy_tcp of the snapshot that it
\* applied (sync.rs:284-520), in whatever order services come, go, share an address
\* or change their scheduler.
THEOREM CalmKernel == ASSUME Unfailing, Steady PROVE Spec => []KernelMatches
<1>1. Init => DestInv /\ VipInv
  <2> SUFFICES ASSUME Init PROVE DestInv /\ VipInv
    OBVIOUS
  <2>1. DestInv
    BY DEF Init, DestInv, DstOf, Between, Late, Desires, Nothing, NoDests
  <2>2. Keys(applied) = {}
    BY DEF Init, Keys, Nothing
  <2>3. Vips(applied) = {} /\ WantsSloppy(applied) = FALSE
    BY <2>2 DEF Vips, WantsSloppy
  <2> QED BY <2>1, <2>3 DEF Init, VipInv, Between
<1>2. IInv /\ SvcInv /\ DestInv /\ VipInv /\ [Next]_vars => DestInv' /\ VipInv'
  BY CalmNext, DestStep, VipStep
<1>3. IInv /\ SvcInv /\ DestInv /\ VipInv => KernelMatches
  <2> SUFFICES ASSUME IInv, SvcInv, DestInv, VipInv, pc = "wait" PROVE KernelHolds(applied)
    BY DEF KernelMatches
  <2>1. Between
    BY DEF Between
  <2>2. \A k \in Key : ksvc[k] = IF applied[k] = NoSvc THEN NoSvc ELSE applied[k].sched
    BY <2>1 DEF SvcInv, SvcOf
  <2>3. ASSUME NEW k \in Key, NEW e \in Ep PROVE DestMatches(applied, k, e)
    <3>1. kdst[k][e] = DstOf(applied, k, e)
      BY <2>1 DEF DestInv
    <3>2. CASE Desires(applied, k, e)
      <4> DEFINE new == [up |-> TRUE, tun |-> applied[k].tun]
      <4>1. applied[k].tun \in BOOLEAN
        BY <3>2, ConfigFields DEF IInv, TypeOK, MemoryType, Desires
      <4>2. new \in Dest /\ new.up /\ new.tun = applied[k].tun
        BY <4>1 DEF Dest
      <4>3. kdst[k][e] = new
        BY <3>1, <3>2 DEF DstOf
      <4> HIDE DEF new
      <4> QED BY <3>2, <4>2, <4>3, ConstantsAssumption DEF DestMatches, Serving
    <3>3. CASE ~Desires(applied, k, e)
      BY <3>1, <3>3 DEF DestMatches, DstOf
    <3> QED BY <3>2, <3>3
  <2> QED BY <2>1, <2>2, <2>3 DEF KernelHolds, VipInv
<1> QED BY <1>1, <1>2, <1>3, UnfailingSpec, PTL DEF Spec

---------------------------------------------------------------------------
(* The graceful queue, without failures and while no service is removed: a    *)
(* queued destination of a service that is gone ends the pass, and the items  *)
(* taken from the queue are lost with it.                                     *)

Lasting == NoSvc \notin Reports

Taken(k, e) == \E p \in pending : p.key = k /\ p.ep = e

\* Services only come, and what is queued belongs to one of them.
KeyInv ==
    /\ Keys(applied) \subseteq Keys(store)
    /\ ~Between => Keys(applied) \subseteq Keys(want) /\ Keys(want) \subseteq Keys(store)
    /\ \A k \in Key, e \in Ep : Queued(k, e) \/ Taken(k, e) => k \in Keys(applied)

\* Every destination in the kernel is desired, about to be removed, or queued.
DrainInv ==
    \A k \in Key, e \in Ep : kdst[k][e] # NoDst =>
        /\ Between => Desires(applied, k, e) \/ Queued(k, e)
        /\ pc = "program" => Desires(applied, k, e) \/ Desires(want, k, e) \/ Queued(k, e)
        /\ pc = "stale" => Desires(want, k, e) \/ <<k, e>> \in dtodo \/ Queued(k, e)
        /\ pc \in {"removed", "addvip", "delvip", "tail"} => Desires(want, k, e) \/ Queued(k, e)
        /\ pc = "graceful" => Desires(want, k, e) \/ Queued(k, e) \/ Taken(k, e)

LEMMA StoreGrows ==
    ASSUME Unfailing, Lasting, IInv, [Next]_vars PROVE Keys(store) \subseteq Keys(store)'
<1>1. CASE \E k \in Key, c \in Reports : StoreChange(k, c)
  BY <1>1 DEF StoreChange, Lasting, Keys, IInv, TypeOK, InformerType, State
<1>2. CASE store' = store
  BY <1>2 DEF Keys
<1>3. (\E k \in Key, c \in Reports : StoreChange(k, c)) \/ store' = store
  <2>1. CASE Environment
    BY <2>1 DEF Environment, NotifyOne, Expire, Drift, Restart, informer
  <2>2. CASE Tick \/ Wake \/ Debounced \/ Fail \/ Snapshot \/ Commit \/ Tail
    BY <2>2 DEF Tick, Wake, Debounced, Fail, Snapshot, Commit, Tail, informer
  <2>3. CASE Program
    BY <2>3 DEF Program, ProgramService, ProgramDest, DestRefused, ProgramDone, informer
  <2>4. CASE Remove
    BY <2>4 DEF Remove, RemoveDest, RemoveService, FlushUdp, StaleDone, RemovedDone, informer
  <2>5. CASE Bind
    BY <2>5 DEF Bind, BindVip, UnbindVip, BindDone, informer
  <2>6. CASE Drain
    BY <2>6 DEF Drain, DropReadded, Requeue, DeleteDrained, DeleteRefused, GracefulDone, informer
  <2>7. CASE UNCHANGED vars
    BY <2>7 DEF vars, informer
  <2> QED BY <2>1, <2>2, <2>3, <2>4, <2>5, <2>6, <2>7 DEF Next, Reconcile
<1> QED BY <1>1, <1>2, <1>3

\* What RemoveDest adds to the queue is the destination that it drains.
LEMMA QueueGrows ==
    ASSUME IInv, NEW d \in dtodo, RemoveDest(d), NEW k \in Key, NEW e \in Ep
    PROVE  /\ Queued(k, e) => Queued(k, e)'
           /\ Queued(k, e)' => Queued(k, e) \/ (k = d[1] /\ e = d[2])
           /\ kdst'[d[1]][d[2]] # NoDst => Queued(d[1], d[2])'
           /\ k # d[1] \/ e # d[2] => kdst'[k][e] = kdst[k][e]
<1> USE DEF IInv, TypeOK
<1>0. d[1] \in Key /\ d[2] \in Ep /\ kdst \in [Key -> [Ep -> Dest \cup {NoDst}]]
  BY DEF PassType, KernelType
<1>1. DrainOrDelete(d[1], d[2])
  BY DEF RemoveDest
<1>2. CASE Graceful
  <2> DEFINE new == [key |-> d[1], ep |-> d[2], expired |-> FALSE]
  <2>1. /\ gqueue' = IF Queued(d[1], d[2]) THEN gqueue ELSE gqueue \cup {new}
        /\ new.key = d[1] /\ new.ep = d[2]
    BY <1>1, <1>2 DEF DrainOrDelete, Enqueued
  <2> HIDE DEF new
  <2>2. /\ Queued(k, e) => Queued(k, e)'
        /\ Queued(k, e)' => Queued(k, e) \/ (k = d[1] /\ e = d[2])
        /\ Queued(d[1], d[2])'
    BY <2>1 DEF Queued
  <2>3. k # d[1] \/ e # d[2] => kdst'[k][e] = kdst[k][e]
    BY <1>0, <1>1, <1>2 DEF DrainOrDelete, SetDest
  <2> QED BY <2>2, <2>3
<1>3. CASE ~Graceful
  <2>1. gqueue' = gqueue /\ kdst' = DelDest(d[1], d[2])
    BY <1>1, <1>3 DEF DrainOrDelete
  <2> QED BY <1>0, <2>1 DEF Queued, DelDest
<1> QED BY <1>2, <1>3

LEMMA KeyStep ==
    ASSUME IInv, KeyInv, CalmStep, Keys(store) \subseteq Keys(store)' PROVE KeyInv'
<1> USE DEF IInv, TypeOK
<1>0. /\ want' = want => Keys(want)' = Keys(want)
      /\ applied' = applied => Keys(applied)' = Keys(applied)
      /\ UNCHANGED gqueue => \A k \in Key, e \in Ep : Queued(k, e)' = Queued(k, e)
      /\ UNCHANGED pending => \A k \in Key, e \in Ep : Taken(k, e)' = Taken(k, e)
  BY DEF Keys, Queued, Taken
<1>1. CASE Quiet
  BY <1>0, <1>1 DEF Quiet, KeyInv, Between
<1>2. CASE Snapshot
  <2>1. Keys(want)' = Keys(store)
    BY <1>2 DEF Snapshot, Keys
  <2> QED BY <1>0, <1>2, <2>1 DEF Snapshot, KeyInv, Between, informer
<1>3. CASE \/ \E k \in Key : ProgramService(k)
           \/ \E d \in dtodo : ProgramDest(d)
           \/ \E k \in todo : RemoveService(k)
           \/ \E v \in vtodo : BindVip(v) \/ UnbindVip(v)
           \/ ProgramDone \/ StaleDone \/ RemovedDone \/ BindDone \/ GracefulDone
  <2>1. UNCHANGED <<want, applied, gqueue, pending>> /\ ~Between /\ ~Between'
    BY <1>3 DEF ProgramService, ProgramDest, RemoveService, BindVip, UnbindVip, ProgramDone, StaleDone, RemovedDone,
                BindDone, GracefulDone, memory, pass, Between
  <2> QED BY <1>0, <2>1 DEF KeyInv
<1>4. ASSUME NEW d \in dtodo, RemoveDest(d) PROVE KeyInv'
  <2>1. /\ UNCHANGED <<want, applied, pending>> /\ ~Between /\ ~Between'
        /\ d[1] \in Keys(applied)
    BY <1>4 DEF RemoveDest, Between, PassInv, PassType, Desires, Keys
  <2>2. \A k \in Key, e \in Ep : Queued(k, e)' => Queued(k, e) \/ k = d[1]
    BY <1>4, QueueGrows
  <2> QED BY <1>0, <2>1, <2>2 DEF KeyInv
<1>5. CASE Commit
  <2>1. Keys(applied)' = Keys(want) /\ want' = want /\ ~Between /\ ~Between'
    BY <1>5 DEF Commit, Keys, pass, Between
  <2>2. \A k \in Key, e \in Ep : ~Queued(k, e)' /\ (Taken(k, e)' <=> Queued(k, e))
    BY <1>5 DEF Commit, Queued, Taken
  <2> QED BY <1>0, <2>1, <2>2 DEF KeyInv
<1>6. ASSUME NEW p \in pending, DropReadded(p) \/ Requeue(p) \/ DeleteDrained(p) PROVE KeyInv'
  <2>1. UNCHANGED <<want, applied>> /\ ~Between /\ ~Between'
    BY <1>6 DEF DropReadded, Requeue, DeleteDrained, pass, Between
  <2>2. pending' \subseteq pending /\ gqueue' \subseteq gqueue \cup pending
    BY <1>6 DEF DropReadded, Requeue, DeleteDrained
  <2>3. \A k \in Key, e \in Ep : Queued(k, e)' \/ Taken(k, e)' => Queued(k, e) \/ Taken(k, e)
    BY <2>2 DEF Queued, Taken
  <2> QED BY <1>0, <2>1, <2>3 DEF KeyInv
<1>7. CASE PassOver
  <2>1. UNCHANGED <<applied, gqueue>> /\ Between' /\ pending' = {}
    BY <1>7 DEF PassOver, EndPass, Between
  <2>2. \A k \in Key, e \in Ep : ~Taken(k, e)'
    BY <2>1 DEF Taken
  <2> QED BY <1>0, <2>1, <2>2 DEF KeyInv
<1> QED BY <1>1, <1>2, <1>3, <1>4, <1>5, <1>6, <1>7 DEF CalmStep

LEMMA QueueStep == ASSUME IInv, SvcInv, KeyInv, DrainInv, CalmStep PROVE DrainInv'
<1> USE DEF IInv, TypeOK
<1>0. /\ want \in State /\ applied \in State /\ todo \subseteq Key /\ dtodo \subseteq Key \X Ep
      /\ kdst \in [Key -> [Ep -> Dest \cup {NoDst}]] /\ pc \in Phase
  BY DEF PassType, MemoryType, KernelType
<1>1. ASSUME NEW k \in Key, NEW e \in Ep
      PROVE  /\ want' = want => Desires(want, k, e)' = Desires(want, k, e)
             /\ applied' = applied => Desires(applied, k, e)' = Desires(applied, k, e)
             /\ UNCHANGED gqueue => Queued(k, e)' = Queued(k, e)
             /\ UNCHANGED pending => Taken(k, e)' = Taken(k, e)
  BY DEF Desires, Queued, Taken
<1>2. CASE Quiet
  BY <1>1, <1>2 DEF Quiet, DrainInv, Between, kernel
<1>3. CASE Snapshot
  BY <1>1, <1>3 DEF Snapshot, DrainInv, Between
<1>4. CASE \E k \in Key : ProgramService(k)
  BY <1>1, <1>4 DEF ProgramService, DrainInv, Between, memory
<1>5. ASSUME NEW d \in dtodo, ProgramDest(d) PROVE DrainInv'
  <2>1. d[1] \in Key /\ d[2] \in Ep /\ Desires(want, d[1], d[2]) /\ pc = "program"
    BY <1>0, <1>5 DEF ProgramDest, PassInv
  <2>2. \A k \in Key, e \in Ep : k # d[1] \/ e # d[2] => kdst'[k][e] = kdst[k][e]
    BY <1>0, <1>5, <2>1 DEF ProgramDest, DestWrite, AddDest, SetDest
  <2>3. UNCHANGED <<want, applied, gqueue, pending, pc>>
    BY <1>5 DEF ProgramDest, memory
  <2> QED BY <1>1, <2>1, <2>2, <2>3 DEF DrainInv, Between
<1>6. CASE ProgramDone
  <2>1. ASSUME NEW k \in Key, NEW e \in Ep, Desires(applied, k, e), ~Desires(want, k, e)
        PROVE  <<k, e>> \in StaleDests(applied, want)
    <3>1. k \in Keys(want)
      BY <1>6, <2>1 DEF ProgramDone, KeyInv, Between, Desires, Keys
    <3> QED BY <2>1, <3>1 DEF StaleDests
  <2> QED BY <1>1, <1>6, <2>1 DEF ProgramDone, DrainInv, Between, memory, kernel
<1>7. ASSUME NEW d \in dtodo, RemoveDest(d) PROVE DrainInv'
  <2>1. d[1] \in Key /\ d[2] \in Ep /\ d = <<d[1], d[2]>> /\ pc = "stale" /\ dtodo' = dtodo \ {d} /\ UNCHANGED <<want, pc>>
    BY <1>0, <1>7 DEF RemoveDest
  <2>2. ASSUME NEW k \in Key, NEW e \in Ep, kdst'[k][e] # NoDst
        PROVE  Desires(want, k, e) \/ <<k, e>> \in dtodo' \/ Queued(k, e)'
    <3>1. CASE k = d[1] /\ e = d[2]
      BY <1>7, <2>2, <3>1, QueueGrows
    <3>2. CASE k # d[1] \/ e # d[2]
      <4>1. kdst[k][e] # NoDst /\ (Queued(k, e) => Queued(k, e)') /\ <<k, e>> # d
        BY <1>7, <2>1, <2>2, <3>2, QueueGrows
      <4> QED BY <2>1, <4>1 DEF DrainInv
    <3> QED BY <3>1, <3>2
  <2> QED BY <1>1, <2>1, <2>2 DEF DrainInv, Between
<1>8. CASE StaleDone \/ RemovedDone \/ BindDone \/ \E v \in vtodo : BindVip(v) \/ UnbindVip(v)
  BY <1>1, <1>8 DEF StaleDone, RemovedDone, BindDone, BindVip, UnbindVip, DrainInv, Between, memory, kernel
<1>9. ASSUME NEW l \in todo, RemoveService(l) PROVE DrainInv'
  <2>1. \A k \in Key, e \in Ep : kdst'[k][e] # NoDst => kdst[k][e] # NoDst
    BY <1>0, <1>9 DEF RemoveService, DelService, NoDests
  <2> QED BY <1>1, <1>9, <2>1 DEF RemoveService, DrainInv, Between, memory
<1>10. CASE Commit
  <2>1. \A k \in Key, e \in Ep : Queued(k, e) => Taken(k, e)'
    BY <1>10 DEF Commit, Queued, Taken
  <2> QED BY <1>1, <1>10, <2>1 DEF Commit, DrainInv, Between, kernel, pass
<1>11. ASSUME NEW p \in pending, DropReadded(p) \/ Requeue(p) \/ DeleteDrained(p) PROVE DrainInv'
  <2>1. p.key \in Key /\ p.ep \in Ep
    BY DEF MemoryType, Item
  <2>2. pc = "graceful" /\ UNCHANGED <<pc, want>> /\ applied = want /\ pending' = pending \ {p} /\ gqueue \subseteq gqueue'
    BY <1>11 DEF DropReadded, Requeue, DeleteDrained, pass, PassInv
  <2>3. ASSUME NEW k \in Key, NEW e \in Ep, kdst'[k][e] # NoDst
        PROVE  Desires(want, k, e) \/ Queued(k, e)' \/ Taken(k, e)'
    <3>1. kdst[k][e] # NoDst
      BY <1>0, <1>11, <2>1, <2>3 DEF DropReadded, Requeue, DeleteDrained, DelDest, kernel
    <3>2. Queued(k, e) => Queued(k, e)'
      BY <2>2 DEF Queued
    <3>3. ASSUME NEW q \in pending, q.key = k, q.ep = e
          PROVE  Desires(want, k, e) \/ Queued(k, e)' \/ Taken(k, e)'
      <4>1. CASE q # p
        BY <2>2, <3>3, <4>1 DEF Taken
      <4>2. CASE q = p /\ DropReadded(p)
        BY <2>2, <3>3, <4>2 DEF DropReadded, Readded
      <4>3. CASE q = p /\ Requeue(p)
        BY <3>3, <4>3 DEF Requeue, Queued
      <4>4. CASE q = p /\ DeleteDrained(p)
        BY <1>0, <2>1, <2>3, <3>3, <4>4 DEF DeleteDrained, DelDest
      <4> QED BY <1>11, <4>1, <4>2, <4>3, <4>4
    <3>4. Desires(want, k, e) \/ Queued(k, e) \/ Taken(k, e)
      BY <2>2, <3>1 DEF DrainInv
    <3> QED BY <3>2, <3>3, <3>4 DEF Taken
  <2> QED BY <1>1, <2>2, <2>3 DEF DrainInv, Between
<1>12. CASE GracefulDone
  <2>1. \A k \in Key, e \in Ep : ~Taken(k, e)
    BY <1>12 DEF GracefulDone, Taken
  <2> QED BY <1>1, <1>12, <2>1 DEF GracefulDone, DrainInv, Between, memory, kernel, pass
<1>13. CASE PassOver
  <2>1. ASSUME pc = "graceful", NEW p \in pending PROVE ksvc[p.key] # NoSvc
    <3>1. p.key \in Key /\ p.ep \in Ep
      BY DEF MemoryType, Item
    <3>2. p.key \in Keys(want)
      BY <2>1, <3>1 DEF KeyInv, Taken, PassInv
    <3>3. ksvc[p.key] = SvcOf(want, p.key)
      BY <2>1, <3>1 DEF SvcInv, Late
    <3> QED BY <1>0, <3>1, <3>2, <3>3, SvcType
  <2>2. pc = "tail" /\ pc' = "wait" /\ UNCHANGED <<applied, gqueue, kdst>> /\ applied = want
    BY <1>13, <2>1 DEF PassOver, EndPass, PassInv, kernel
  <2> QED BY <1>1, <2>2 DEF DrainInv, Between
<1> QED
  BY <1>2, <1>3, <1>4, <1>5, <1>6, <1>7, <1>8, <1>9, <1>10, <1>11, <1>12, <1>13 DEF CalmStep

\* While nothing fails and no service is removed, every destination in the kernel that
\* the agent does not desire is drained and queued for its deletion (sync.rs:647-676,
\* 710-739; graceful.rs:48-69), whichever endpoints come, go and come back.
THEOREM DrainedQueued == ASSUME Unfailing, Lasting PROVE Spec => []DrainedAreQueued
<1>1. Init => KeyInv /\ DrainInv
  BY DEF Init, KeyInv, DrainInv, Between, Keys, Nothing, NoDests, Queued, Taken
<1>2. IInv /\ SvcInv /\ KeyInv /\ DrainInv /\ [Next]_vars => KeyInv' /\ DrainInv'
  BY CalmNext, StoreGrows, KeyStep, QueueStep
<1>3. DrainInv /\ ServInv => DrainedAreQueued
  BY DEF DrainInv, ServInv, Serving, Between, DrainedAreQueued
<1> QED BY <1>1, <1>2, <1>3, UnfailingSpec, Served, PTL DEF Spec

============================================================================
