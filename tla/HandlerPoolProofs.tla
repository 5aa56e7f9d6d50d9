--------------------------- MODULE HandlerPoolProofs ---------------------------
(***************************************************************************)
(* Proofs about the pool of replica ids, for any number of replicas and of *)
(* requests.                                                               *)
(***************************************************************************)
EXTENDS HandlerPool, SequenceLemmas, FiniteSetTheorems, TLAPS

(* The number of ids (0..nr_times yields).                                 *)
LEMMA IdCardinality ==
    Cardinality(Id) = IF NrReplicas > 0 THEN NrReplicas ELSE 0
  BY PoolAssumption, FS_Interval DEF Id

(* Initially all ids are in the pool, once.                                *)
LEMMA InitialStandby ==
    ASSUME Init
    PROVE  standby \in Seq(Id) /\ IsInjective(standby) /\ Range(standby) = Id
<1> DEFINE n == Cardinality(Id)
<1>1. n \in Nat /\ Id = 0..n - 1
  BY IdCardinality, PoolAssumption DEF Id
<1>2. standby = [i \in 1..n |-> i - 1]
  BY DEF Init
<1> HIDE DEF n
<1>3. standby \in [1..n -> Id]
  BY <1>1, <1>2
<1>4. standby \in Seq(Id)
  BY <1>1, <1>3
<1>5. IsInjective(standby)
  BY <1>1, <1>2 DEF IsInjective
<1>6. ASSUME NEW id \in Id PROVE id \in Range(standby)
  <2>1. id + 1 \in 1..n /\ standby[id + 1] = id
    BY <1>1, <1>2
  <2> QED
    BY <2>1, <1>2 DEF Range
<1>7. Range(standby) \subseteq Id
  BY <1>3 DEF Range
<1> QED
  BY <1>4, <1>5, <1>6, <1>7

-----------------------------------------------------------------------------
PoolInv == PoolTypeOK /\ IdsPartitioned

(* Initially every id is in the pool, once.                                *)
LEMMA PoolInvInit == Init => PoolInv
<1> SUFFICES ASSUME Init PROVE PoolInv
  OBVIOUS
<1>1. PoolTypeOK
  BY InitialStandby, PoolAssumption DEF Init, PoolTypeOK
<1>2. IdsPartitioned
  BY InitialStandby DEF Init, IdsPartitioned
<1> QED
  BY <1>1, <1>2 DEF PoolInv

(* Every step of the supervisor, of a call and of a panic keeps the ids    *)
(* partitioned.                                                            *)
LEMMA PoolInvStep == PoolInv /\ [Next]_vars => PoolInv'
<1> SUFFICES ASSUME PoolInv, [Next]_vars PROVE PoolInv'
  OBVIOUS
<1> USE DEF PoolInv
<1>1. CASE Arrive
  BY <1>1, PoolAssumption DEF Arrive, PoolTypeOK, IdsPartitioned
<1>2. CASE TakeRequest
  BY <1>2 DEF TakeRequest, PoolTypeOK, IdsPartitioned
<1>3. CASE ReserveId
  <2> DEFINE last == standby[Len(standby)]
  <2>1. /\ standby' \in Seq(Id)
        /\ IsInjective(standby')
        /\ last \in Id
        /\ Range(standby') = Range(standby) \ {last}
    BY <1>3, PopLast DEF ReserveId, PoolTypeOK, IdsPartitioned
  <2>2. last \in Range(standby)
    BY <1>3 DEF ReserveId, PoolTypeOK, Range
  <2>3. running' = running \cup {last} /\ lost' = lost
    BY <1>3 DEF ReserveId
  <2>4. PoolTypeOK'
    BY <1>3, <2>1 DEF ReserveId, PoolTypeOK
  <2>5. IdsPartitioned'
    BY <2>1, <2>2, <2>3 DEF IdsPartitioned
  <2> QED
    BY <2>4, <2>5
<1>4. CASE FindNoId
  BY <1>4 DEF FindNoId, PoolTypeOK, IdsPartitioned
<1>5. CASE ArmNotification
  BY <1>5 DEF ArmNotification, PoolTypeOK, IdsPartitioned
<1>6. ASSUME NEW id \in Id, PutBackId(id) PROVE PoolInv'
  <2>1. id \notin Range(standby)
    BY <1>6 DEF PutBackId, IdsPartitioned
  <2>2. /\ standby' \in Seq(Id)
        /\ IsInjective(standby')
        /\ Range(standby') = Range(standby) \cup {id}
    BY <1>6, <2>1, PushNew DEF PutBackId, PoolTypeOK, IdsPartitioned
  <2>3. PoolTypeOK'
    BY <1>6, <2>2 DEF PutBackId, PoolTypeOK
  <2>4. IdsPartitioned'
    BY <1>6, <2>2 DEF PutBackId, IdsPartitioned
  <2> QED
    BY <2>3, <2>4
<1>7. ASSUME NEW id \in Id, RunPanics(id) PROVE PoolInv'
  BY <1>7 DEF RunPanics, PoolTypeOK, IdsPartitioned
<1>8. CASE NotifySupervisor
  BY <1>8 DEF NotifySupervisor, PoolTypeOK, IdsPartitioned
<1>9. CASE UNCHANGED vars
  BY <1>9 DEF vars, PoolTypeOK, IdsPartitioned
<1> QED
  BY <1>1, <1>2, <1>3, <1>4, <1>5, <1>6, <1>7, <1>8, <1>9
     DEF Next, SupervisorStep

(* The type invariant of the pool.                                         *)
THEOREM PoolTypeCorrect == Spec => []PoolTypeOK
<1>1. PoolInv => PoolTypeOK
  BY DEF PoolInv
<1> QED
  BY <1>1, PoolInvInit, PoolInvStep, PTL DEF Spec

(* No id is ever handed to two calls: every id is free, running or lost,   *)
(* and only one of these (manager.rs:443-450, 407-410).                    *)
THEOREM IdsArePartitioned == Spec => []IdsPartitioned
<1>1. PoolInv => IdsPartitioned
  BY DEF PoolInv
<1> QED
  BY <1>1, PoolInvInit, PoolInvStep, PTL DEF Spec

=============================================================================
