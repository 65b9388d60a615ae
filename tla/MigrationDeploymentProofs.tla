----------------------- MODULE MigrationDeploymentProofs -----------------------
(***************************************************************************)
(* Proofs about the two deployments of MigrationDeployments, for any       *)
(* number of tables and any bounds.                                        *)
(*                                                                         *)
(* Serial: SerialInv is inductive beside IInv, so COMPLETED means that     *)
(* every table is DONE, the counters add up, no DONE is ever undone, and   *)
(* the system implements ResumableJob step by step.                        *)
(*                                                                         *)
(* One worker: OneWorkerInv is inductive beside IInv, so somebody works on *)
(* every migration that says PENDING or RUNNING.                           *)
(***************************************************************************)
EXTENDS MigrationDeployments, MigrationSystemProofs, FiniteSetTheorems

------------------------------------------------------------------------------
(* Sums over finite sets                                                   *)
(*                                                                         *)
(* SumOver folds a function over a set in an order a CHOOSE picks.  What   *)
(* is needed of it is proved by minimal counterexample: the strict subsets *)
(* of a finite set are well founded.                                       *)

(* A non-empty family of subsets of a finite set has a minimal member.     *)
LEMMA MinimalSubset ==
    ASSUME NEW S, IsFiniteSet(S), NEW F, F \subseteq SUBSET S, F # {}
    PROVE  \E T \in F : \A U \in F : U \subseteq T => U = T
<1>1. IsWellFoundedOn(StrictSubsetOrdering(S), FiniteSubsetsOf(S))
  BY FS_StrictSubsetOrderingWellFounded
<1>2. F \subseteq FiniteSubsetsOf(S)
  BY FS_FiniteSubsetsOfFinite
<1>3. PICK T \in F : \A U \in F : <<U, T>> \notin StrictSubsetOrdering(S)
  BY <1>1, <1>2, WFMin
<1>4. QED
  BY <1>3 DEF StrictSubsetOrdering

(* The recursive function that the fold of SumOver chooses.                *)
Pick(T) == CHOOSE t \in T : TRUE
IsSum(sum, f, S) ==
    sum = [T \in SUBSET S |->
             IF T = {} THEN 0 ELSE f[Pick(T)] + sum[T \ {Pick(T)}]]
TheSum(f, S) == CHOOSE sum : IsSum(sum, f, S)

(* SumOver is that function at the whole set.                              *)
LEMMA SumOverIsTheSum ==
    ASSUME NEW f, NEW S
    PROVE  SumOver(f, S) = TheSum(f, S)[S]
  BY DEF SumOver, MapThenSumSet, MapThenFoldSet, TheSum, IsSum, Pick

(* What is picked of a non-empty set is one of its members.                *)
LEMMA PickIn == ASSUME NEW T, T # {} PROVE Pick(T) \in T
  BY DEF Pick

(* The recursion, at one set.                                              *)
LEMMA IsSumAt ==
    ASSUME NEW f, NEW S, NEW g, IsSum(g, f, S), NEW T \in SUBSET S
    PROVE  g[T] = IF T = {} THEN 0 ELSE f[Pick(T)] + g[T \ {Pick(T)}]
  BY Zenon DEF IsSum

(* Two such functions agree where both are defined.                        *)
LEMMA SumsAgree ==
    ASSUME NEW f, NEW S, IsFiniteSet(S), NEW V \in SUBSET S, NEW W \in SUBSET V,
           NEW g, IsSum(g, f, V), NEW h, IsSum(h, f, W)
    PROVE  g[W] = h[W]
<1> DEFINE F == {U \in SUBSET W : g[U] # h[U]}
<1>1. SUFFICES ASSUME F # {} PROVE FALSE
  OBVIOUS
<1>2. F \subseteq SUBSET S
  OBVIOUS
<1> HIDE DEF F
<1>3. PICK U \in F : \A T \in F : T \subseteq U => T = U
  BY <1>1, <1>2, MinimalSubset
<1>4. U \in SUBSET W /\ U \in SUBSET V /\ g[U] # h[U]
  BY DEF F
<1>5. U # {}
  BY <1>4, IsSumAt
<1>6. Pick(U) \in U
  BY <1>5, PickIn
<1>7. g[U \ {Pick(U)}] = h[U \ {Pick(U)}]
  BY <1>3, <1>4, <1>6 DEF F
<1>8. g[U] = f[Pick(U)] + g[U \ {Pick(U)}] /\ h[U] = f[Pick(U)] + h[U \ {Pick(U)}]
  BY <1>4, <1>5, IsSumAt
<1>9. QED
  BY <1>4, <1>7, <1>8

(* There is one.                                                           *)
LEMMA SumExists ==
    ASSUME NEW f, NEW S, IsFiniteSet(S)
    PROVE  \A T \in SUBSET S : IsSum(TheSum(f, T), f, T)
<1> DEFINE F == {T \in SUBSET S : ~IsSum(TheSum(f, T), f, T)}
<1>1. SUFFICES ASSUME F # {} PROVE FALSE
  OBVIOUS
<1>2. F \subseteq SUBSET S
  OBVIOUS
<1> HIDE DEF F
<1>3. PICK T \in F : \A U \in F : U \subseteq T => U = T
  BY <1>1, <1>2, MinimalSubset
<1>4. T \in SUBSET S /\ ~IsSum(TheSum(f, T), f, T)
  BY DEF F
<1>5. \A U \in SUBSET T : U # T => IsSum(TheSum(f, U), f, U)
  BY <1>3, <1>4 DEF F
<1> DEFINE Below(U) == TheSum(f, U \ {Pick(U)})[U \ {Pick(U)}]
           h == [U \in SUBSET T |-> IF U = {} THEN 0 ELSE f[Pick(U)] + Below(U)]
<1>6. ASSUME NEW U \in SUBSET T, U # {}
      PROVE  h[U \ {Pick(U)}] = Below(U)
  <2> DEFINE V == U \ {Pick(U)}
  <2>1. V \in SUBSET T /\ V # T /\ V \in SUBSET S
    BY <1>4, <1>6, PickIn
  <2> HIDE DEF V
  <2>2. IsSum(TheSum(f, V), f, V)
    BY <1>5, <2>1
  <2>3. TheSum(f, V)[V] = IF V = {} THEN 0 ELSE f[Pick(V)] + TheSum(f, V)[V \ {Pick(V)}]
    BY <2>2, IsSumAt
  <2>4. h[V] = IF V = {} THEN 0 ELSE f[Pick(V)] + Below(V)
    BY <2>1
  <2>5. CASE V = {}
    BY <2>3, <2>4, <2>5 DEF V
  <2>6. CASE V # {}
    <3>1. V \ {Pick(V)} \in SUBSET V /\ V \ {Pick(V)} # T /\ V \ {Pick(V)} \in SUBSET T
      BY <2>1, <2>6, PickIn
    <3>2. IsSum(TheSum(f, V \ {Pick(V)}), f, V \ {Pick(V)})
      BY <3>1, <1>5
    <3>3. TheSum(f, V)[V \ {Pick(V)}] = Below(V)
      BY <2>1, <2>2, <3>1, <3>2, SumsAgree
    <3>4. QED
      BY <2>3, <2>4, <2>6, <3>3 DEF V
  <2>7. QED
    BY <2>5, <2>6
<1>7. IsSum(h, f, T)
  <2>1. h = [U \in SUBSET T |-> IF U = {} THEN 0 ELSE f[Pick(U)] + h[U \ {Pick(U)}]]
    <3> HIDE DEF Below
    <3>1. \A U \in SUBSET T : h[U] = IF U = {} THEN 0 ELSE f[Pick(U)] + h[U \ {Pick(U)}]
      BY <1>6
    <3>2. QED
      BY <3>1
  <2>2. QED
    BY <2>1, Zenon DEF IsSum
<1>8. QED
  BY <1>4, <1>7 DEF TheSum

(* Hence what a sum is.                                                    *)
LEMMA SumByPick ==
    ASSUME NEW f, NEW S, IsFiniteSet(S)
    PROVE  SumOver(f, S) =
             IF S = {} THEN 0 ELSE f[Pick(S)] + SumOver(f, S \ {Pick(S)})
<1>1. IsSum(TheSum(f, S), f, S)
  BY SumExists
<1>2. CASE S = {}
  BY <1>1, <1>2, IsSumAt, SumOverIsTheSum
<1>3. CASE S # {}
  <2> DEFINE T == S \ {Pick(S)}
  <2>1. IsSum(TheSum(f, T), f, T)
    BY SumExists
  <2>2. TheSum(f, S)[T] = TheSum(f, T)[T]
    BY <1>1, <2>1, SumsAgree
  <2>3. TheSum(f, S)[S] = f[Pick(S)] + TheSum(f, S)[T]
    BY <1>1, <1>3, IsSumAt
  <2>4. QED
    BY <1>3, <2>2, <2>3, SumOverIsTheSum
<1>4. QED
  BY <1>2, <1>3

(* The sum of naturals is one.                                             *)
LEMMA SumIsNat ==
    ASSUME NEW D, NEW f \in [D -> Nat], NEW S \in SUBSET D, IsFiniteSet(S)
    PROVE  SumOver(f, S) \in Nat
<1> DEFINE F == {T \in SUBSET S : SumOver(f, T) \notin Nat}
<1>1. SUFFICES ASSUME F # {} PROVE FALSE
  OBVIOUS
<1>2. F \subseteq SUBSET S
  OBVIOUS
<1> HIDE DEF F
<1>3. PICK T \in F : \A U \in F : U \subseteq T => U = T
  BY <1>1, <1>2, MinimalSubset
<1>4. T \in SUBSET S /\ SumOver(f, T) \notin Nat /\ IsFiniteSet(T)
  BY FS_Subset DEF F
<1>5. T # {} /\ SumOver(f, T) = f[Pick(T)] + SumOver(f, T \ {Pick(T)})
  BY <1>4, SumByPick
<1>6. Pick(T) \in T
  BY <1>5, PickIn
<1>7. SumOver(f, T \ {Pick(T)}) \in Nat
  BY <1>3, <1>4, <1>6 DEF F
<1>8. f[Pick(T)] \in Nat
  BY <1>4, <1>6
<1>9. QED
  BY <1>4, <1>5, <1>7, <1>8

(* Any element may be taken out first.                                     *)
LEMMA SumRemove ==
    ASSUME NEW D, NEW f \in [D -> Nat], NEW S \in SUBSET D, IsFiniteSet(S), NEW x \in S
    PROVE  SumOver(f, S) = f[x] + SumOver(f, S \ {x})
<1> DEFINE F == {T \in SUBSET S :
                   \E y \in T : SumOver(f, T) # f[y] + SumOver(f, T \ {y})}
<1>1. SUFFICES ASSUME F # {} PROVE FALSE
  OBVIOUS
<1>2. F \subseteq SUBSET S
  OBVIOUS
<1> HIDE DEF F
<1>3. PICK T \in F : \A U \in F : U \subseteq T => U = T
  BY <1>1, <1>2, MinimalSubset
<1>4. PICK y \in T : SumOver(f, T) # f[y] + SumOver(f, T \ {y})
  BY DEF F
<1>5. T \in SUBSET S
  BY DEF F
<1> DEFINE p == Pick(T)
<1>6. p \in T
  BY PickIn
<1>7. SumOver(f, T) = f[p] + SumOver(f, T \ {p})
  BY <1>5, SumByPick, FS_Subset
<1>8. p # y
  BY <1>4, <1>7
<1>9. \A U \in SUBSET T : U # T => \A z \in U : SumOver(f, U) = f[z] + SumOver(f, U \ {z})
  BY <1>3, <1>5 DEF F
<1>10. SumOver(f, T \ {p}) = f[y] + SumOver(f, (T \ {p}) \ {y})
  BY <1>6, <1>8, <1>9
<1>11. SumOver(f, T \ {y}) = f[p] + SumOver(f, (T \ {y}) \ {p})
  BY <1>6, <1>8, <1>9
<1>12. (T \ {p}) \ {y} = (T \ {y}) \ {p}
  OBVIOUS
<1>13. f[p] \in Nat /\ f[y] \in Nat
  BY <1>5, <1>6
<1>14. SumOver(f, (T \ {p}) \ {y}) \in Nat
  <2>1. (T \ {p}) \ {y} \in SUBSET S
    BY <1>5
  <2>2. QED
    BY <2>1, SumIsNat, FS_Subset
<1>15. SumOver(f, T \ {y}) = f[p] + SumOver(f, (T \ {p}) \ {y})
  BY <1>11, <1>12, Zenon
<1> HIDE DEF p
<1>16. f[p] + (f[y] + SumOver(f, (T \ {p}) \ {y})) = f[y] + (f[p] + SumOver(f, (T \ {p}) \ {y}))
  BY <1>13, <1>14
<1>17. QED
  BY <1>4, <1>7, <1>10, <1>15, <1>16, Zenon

(* Only the summands count.                                                *)
LEMMA SumSame ==
    ASSUME NEW f, NEW g, NEW S, IsFiniteSet(S), \A t \in S : f[t] = g[t]
    PROVE  SumOver(f, S) = SumOver(g, S)
<1> DEFINE F == {T \in SUBSET S : SumOver(f, T) # SumOver(g, T)}
<1>1. SUFFICES ASSUME F # {} PROVE FALSE
  OBVIOUS
<1>2. F \subseteq SUBSET S
  OBVIOUS
<1> HIDE DEF F
<1>3. PICK T \in F : \A U \in F : U \subseteq T => U = T
  BY <1>1, <1>2, MinimalSubset
<1>4. T \in SUBSET S /\ SumOver(f, T) # SumOver(g, T) /\ IsFiniteSet(T)
  BY FS_Subset DEF F
<1>5. T # {} /\ SumOver(f, T) = f[Pick(T)] + SumOver(f, T \ {Pick(T)})
             /\ SumOver(g, T) = g[Pick(T)] + SumOver(g, T \ {Pick(T)})
  BY <1>4, SumByPick
<1>6. Pick(T) \in T
  BY <1>5, PickIn
<1>7. SumOver(f, T \ {Pick(T)}) = SumOver(g, T \ {Pick(T)})
  BY <1>3, <1>4, <1>6 DEF F
<1>8. QED
  BY <1>4, <1>5, <1>6, <1>7

(* More summands, a larger sum.                                            *)
LEMMA SumGrows ==
    ASSUME NEW D, NEW f \in [D -> Nat], NEW S \in SUBSET D, IsFiniteSet(S),
           NEW T \in SUBSET S
    PROVE  SumOver(f, T) <= SumOver(f, S)
<1> DEFINE F == {U \in SUBSET S : T \subseteq U /\ ~(SumOver(f, T) <= SumOver(f, U))}
<1>1. SUFFICES ASSUME F # {} PROVE FALSE
  OBVIOUS
<1>2. F \subseteq SUBSET S
  OBVIOUS
<1> HIDE DEF F
<1>3. PICK U \in F : \A V \in F : V \subseteq U => V = U
  BY <1>1, <1>2, MinimalSubset
<1>4. U \in SUBSET S /\ T \subseteq U /\ ~(SumOver(f, T) <= SumOver(f, U))
  BY DEF F
<1>5. IsFiniteSet(U) /\ IsFiniteSet(T) /\ U \in SUBSET D
  BY <1>4, FS_Subset
<1>6. SumOver(f, T) \in Nat /\ SumOver(f, U) \in Nat
  BY <1>5, SumIsNat
<1>7. PICK x \in U : x \notin T
  BY <1>4, <1>6
<1>8. SumOver(f, T) <= SumOver(f, U \ {x})
  BY <1>3, <1>4, <1>7 DEF F
<1>9. SumOver(f, U) = f[x] + SumOver(f, U \ {x})
  BY <1>5, SumRemove
<1>10. SumOver(f, U \ {x}) \in Nat
  BY <1>5, SumIsNat, FS_Subset
<1>11. f[x] \in Nat
  BY <1>5
<1>12. QED
  BY <1>4, <1>6, <1>8, <1>9, <1>10, <1>11

(* A sum of zeros is zero.                                                 *)
LEMMA SumOfZeros ==
    ASSUME NEW f, NEW S, IsFiniteSet(S), \A t \in S : f[t] = 0
    PROVE  SumOver(f, S) = 0
<1> DEFINE F == {T \in SUBSET S : SumOver(f, T) # 0}
<1>1. SUFFICES ASSUME F # {} PROVE FALSE
  OBVIOUS
<1>2. F \subseteq SUBSET S
  OBVIOUS
<1> HIDE DEF F
<1>3. PICK T \in F : \A U \in F : U \subseteq T => U = T
  BY <1>1, <1>2, MinimalSubset
<1>4. T \in SUBSET S /\ SumOver(f, T) # 0 /\ IsFiniteSet(T)
  BY FS_Subset DEF F
<1>5. T # {} /\ SumOver(f, T) = f[Pick(T)] + SumOver(f, T \ {Pick(T)})
  BY <1>4, SumByPick
<1>6. Pick(T) \in T
  BY <1>5, PickIn
<1>7. SumOver(f, T \ {Pick(T)}) = 0
  BY <1>3, <1>4, <1>6 DEF F
<1>8. QED
  BY <1>4, <1>5, <1>6, <1>7

(* The tables are finitely many.                                           *)
LEMMA TablesFinite == \A T \in SUBSET Tables : IsFiniteSet(T)
<1>1. IsFiniteSet(Tables)
  <2>1. IsFiniteSet(1..NumTables)
    BY NumTablesAssumption, FS_Interval
  <2>2. QED
    BY <2>1 DEF Tables
<1>2. QED
  BY <1>1, FS_Subset

(* A table's summand that changes changes the sum by as much.              *)
LEMMA SumUpdate ==
    ASSUME NEW f \in [Tables -> Nat], NEW g \in [Tables -> Nat],
           NEW S \in SUBSET Tables, NEW x \in S, NEW T, T = S \ {x},
           \A t \in T : g[t] = f[t]
    PROVE  /\ SumOver(g, S) = g[x] + SumOver(f, T)
           /\ SumOver(f, S) = f[x] + SumOver(f, T)
           /\ SumOver(f, T) \in Nat
<1>1. IsFiniteSet(S) /\ IsFiniteSet(T) /\ T \in SUBSET Tables
  BY TablesFinite
<1>2. SumOver(g, S) = g[x] + SumOver(g, T) /\ SumOver(f, S) = f[x] + SumOver(f, T)
  BY <1>1, SumRemove
<1>3. SumOver(g, T) = SumOver(f, T)
  BY <1>1, SumSame
<1>4. SumOver(f, T) \in Nat
  BY <1>1, SumIsNat
<1>5. QED
  BY <1>2, <1>3, <1>4

(* Replacing one summand adds at most the new one.                         *)
LEMMA SumAtMost ==
    ASSUME NEW f \in [Tables -> Nat], NEW g \in [Tables -> Nat], NEW x \in Tables,
           \A t \in Tables \ {x} : g[t] = f[t]
    PROVE  SumOver(g, Tables) <= SumOver(f, Tables) + g[x]
<1> DEFINE T == Tables \ {x}
<1>0. T = Tables \ {x} /\ Tables \in SUBSET Tables /\ \A t \in T : g[t] = f[t]
  OBVIOUS
<1> HIDE DEF T
<1>1. /\ SumOver(g, Tables) = g[x] + SumOver(f, T)
      /\ SumOver(f, Tables) = f[x] + SumOver(f, T)
      /\ SumOver(f, T) \in Nat
  BY <1>0, SumUpdate
<1>2. f[x] \in Nat /\ g[x] \in Nat
  OBVIOUS
<1>3. QED
  BY <1>1, <1>2

------------------------------------------------------------------------------
(* The serial deployment: one step at a time *)

USE NumTablesAssumption, RowsAssumption, MaxStartsAssumption,
    MaxEditsAssumption, MaxFaultsAssumption

USE DEF Editions, Deleted, RowExists

(* What a step shows a client: a step of the abstract job, or nothing.     *)
JobStep == [Job!Next]_(Job!jobVars)

(* A step that writes neither the status nor a table shows nothing.        *)
LEMMA SilentStep == UNCHANGED <<status, tables>> => JobStep
  BY DEF JobStep, Job!jobVars

(* A draft just created.                                                   *)
LEMMA SerialInit == Init => SerialInv
<1> SUFFICES ASSUME Init PROVE SerialInv
  OBVIOUS
<1> USE DEF Init, StoreInit, ApiInit, WorkerInit
<1>1. SerialStore
  BY DEF SerialStore, DoneTables
<1>2. SerialRequests
  BY DEF SerialRequests
<1>3. SerialWorkers
  BY DEF SerialWorkers, SessionIsFresh, LoopIsAt, HasLoaded, HasClaimed,
     AtTables, InTable
<1>4. SerialCounts
  <2>1. DoneTables = {}
    BY DEF DoneTables
  <2>2. SumOver(rowsDone, {}) = 0
    BY FS_EmptySet, SumByPick
  <2>3. SumOver(rowsTotal, Tables) = 0
    BY TablesFinite, SumOfZeros
  <2>4. QED
    BY <2>1, <2>2, <2>3 DEF SerialCounts
<1>5. QED
  BY <1>1, <1>2, <1>3, <1>4 DEF SerialInv

(* A worker that has loaded the migration is on an active one, so that no  *)
(* request is between loading it and committing.                           *)
LEMMA LoadedExcludesRequests ==
    ASSUME SerialInv, NEW w \in Workers, wpc[w] \in HasLoaded
    PROVE  /\ status \in Active
           /\ \A r \in Requests : rpc[r] \in {"idle", "enqueue", "record"}
<1>1. status \in Active
  BY DEF SerialInv, SerialWorkers, SessionIsFresh, HasLoaded, Active
<1>2. QED
  BY <1>1 DEF SerialInv, SerialRequests, Active, STARTABLE_STATUSES

(* The requests' part after a step of a worker: it has not loaded the      *)
(* migration and writes nothing, or no request minds what it writes.       *)
LEMMA RequestsAfterWorker ==
    ASSUME SerialInv, NEW w \in Workers, UNCHANGED apiVars,
           wpc[w] \in HasLoaded \/ UNCHANGED storeVars
    PROVE  SerialRequests'
<1>1. CASE wpc[w] \in HasLoaded
  BY <1>1, LoadedExcludesRequests DEF apiVars, SerialRequests
<1>2. CASE UNCHANGED storeVars
  BY <1>2 DEF apiVars, storeVars, SerialRequests, SerialInv
<1>3. QED
  BY <1>1, <1>2

(* The store's and the counters' part depend on the database only.         *)
LEMMA StoreUnchangedSerial ==
    SerialInv /\ UNCHANGED storeVars => SerialStore' /\ SerialCounts' /\ JobStep
<1> SUFFICES ASSUME SerialInv, UNCHANGED storeVars
             PROVE  SerialStore' /\ SerialCounts' /\ JobStep
  OBVIOUS
<1>1. UNCHANGED DoneTables
  BY DEF storeVars, DoneTables
<1>2. QED
  BY <1>1, SilentStep DEF storeVars, SerialInv, SerialStore, SerialCounts

(* A worker that is not at work has nothing to be fresh.                   *)
LEMMA FreeWorkerSerial ==
    ASSUME OneWorker, NEW w \in Workers, WorkerTypeOK,
           NEW step \in {"idle", "load", "ack"}, Go(w, step)
    PROVE  SerialWorkers'
<1> SUFFICES ASSUME NEW v \in Workers
             PROVE  (SessionIsFresh(v) /\ LoopIsAt(v))'
  BY DEF SerialWorkers
<1>1. wpc'[v] = step
  BY DEF OneWorker, Go, WorkerTypeOK
<1>2. QED
  BY <1>1 DEF SessionIsFresh, LoopIsAt, HasLoaded, HasClaimed, AtTables, InTable

(* A worker that ends, takes or abandons a task and writes nothing.        *)
LEMMA FreeStepSerial ==
    ASSUME SerialDeployment, IInv, SerialInv, NEW w \in Workers,
           NEW step \in {"idle", "load", "ack"}, Go(w, step),
           UNCHANGED <<storeVars, apiVars>>
    PROVE  SerialInv' /\ JobStep
<1>1. SerialWorkers'
  BY FreeWorkerSerial DEF SerialDeployment, IInv, WorkerInv
<1>2. QED
  BY <1>1, RequestsAfterWorker, StoreUnchangedSerial DEF SerialInv

(* A worker that moves on with the session it has, and writes nothing.     *)
LEMMA MoveSerial ==
    ASSUME SerialDeployment, IInv, SerialInv, NEW w \in Workers,
           NEW step \in AtTables \ {"loop"}, wpc[w] \in AtTables, Go(w, step),
           UNCHANGED <<storeVars, apiVars, mem, cur, local, have, ed>>,
           step = "mark" => tables[cur[w]] # "done",
           step \in {"preflight", "count", "engine", "wait", "store"} =>
              tables[cur[w]] = "running",
           step \in {"checkpoint", "insert"} => tables[cur[w]] = "done"
    PROVE  SerialInv' /\ JobStep
<1>1. SerialWorkers'
  <2> SUFFICES ASSUME NEW v \in Workers
               PROVE  (SessionIsFresh(v) /\ LoopIsAt(v))'
    BY DEF SerialWorkers
  <2>1. v = w /\ wpc'[w] = step
    BY DEF SerialDeployment, OneWorker, Go, IInv, WorkerInv, WorkerTypeOK
  <2>2. SessionIsFresh(v)'
    BY <2>1 DEF storeVars, SerialInv, SerialWorkers, SessionIsFresh, HasLoaded,
       HasClaimed, AtTables, InTable
  <2>3. LoopIsAt(v)'
    BY <2>1 DEF storeVars, SerialInv, SerialWorkers, LoopIsAt, AtTables, InTable
  <2>4. QED
    BY <2>2, <2>3
<1>2. QED
  BY <1>1, RequestsAfterWorker, StoreUnchangedSerial DEF SerialInv

(* A loop that passes a table that is DONE.                                *)
LEMMA PassSerial ==
    ASSUME SerialDeployment, IInv, SerialInv, NEW w \in Workers,
           wpc[w] \in AtTables, NextTable(w), UNCHANGED apiVars,
           cur[w] \in Tables, tables[cur[w]] = "done",
           UNCHANGED <<status, total, processed, tables, rowsTotal, rowsDone, edition>>
    PROVE  SerialInv' /\ JobStep
<1>1. SerialWorkers'
  <2> SUFFICES ASSUME NEW v \in Workers
               PROVE  (SessionIsFresh(v) /\ LoopIsAt(v))'
    BY DEF SerialWorkers
  <2>1. v = w /\ wpc'[w] = "loop" /\ cur'[w] = cur[w] + 1
    BY DEF SerialDeployment, OneWorker, NextTable, Go, IInv, WorkerInv, WorkerTypeOK
  <2>2. SessionIsFresh(v)'
    BY <2>1 DEF NextTable, SerialInv, SerialWorkers, SessionIsFresh, HasLoaded,
       HasClaimed, AtTables, InTable
  <2>3. \A t \in Tables : t < cur[w] + 1 => t < cur[w] \/ t = cur[w]
    BY DEF Tables
  <2>4. LoopIsAt(v)'
    BY <2>1, <2>3 DEF SerialInv, SerialWorkers, LoopIsAt
  <2>5. QED
    BY <2>2, <2>4
<1>2. SerialRequests'
  BY LoadedExcludesRequests DEF apiVars, SerialRequests, HasLoaded, HasClaimed
<1>3. UNCHANGED DoneTables
  BY DEF DoneTables
<1>4. SerialStore' /\ SerialCounts' /\ JobStep
  BY <1>3, SilentStep DEF SerialInv, SerialStore, SerialCounts
<1>5. QED
  BY <1>1, <1>2, <1>4 DEF SerialInv

(* A worker that ends its task by writing the status.                      *)
LEMMA EndSerial ==
    ASSUME SerialDeployment, IInv, SerialInv, NEW w \in Workers,
           wpc[w] \in HasClaimed, NEW s \in {"completed", "failed"},
           IF RowExists THEN SetStatus(s) ELSE UNCHANGED storeVars,
           EndTask(w), UNCHANGED apiVars,
           s = "completed" => DoneTables = Tables
    PROVE  SerialInv' /\ JobStep
<1>1. status = "running"
  BY DEF SerialInv, SerialWorkers, SessionIsFresh
<1>2. SetStatus(s) /\ UNCHANGED DoneTables
  BY <1>1 DEF SetStatus, DoneTables
<1>3. SerialWorkers'
  BY FreeWorkerSerial DEF SerialDeployment, EndTask, IInv, WorkerInv
<1>4. SerialRequests'
  BY LoadedExcludesRequests DEF apiVars, SerialRequests, HasLoaded
<1>5. SerialStore' /\ SerialCounts'
  BY <1>1, <1>2 DEF SetStatus, SerialInv, SerialStore, SerialCounts
<1>6. JobStep
  BY <1>1, <1>2 DEF JobStep, Job!Next, Job!Complete, Job!Fail, Job!JobTables,
     SetStatus, DoneTables, Tables
<1>7. QED
  BY <1>3, <1>4, <1>5, <1>6 DEF SerialInv

(* A worker that marks a table that is not DONE as RUNNING or FAILED.      *)
LEMMA MarkSerial ==
    ASSUME SerialDeployment, IInv, SerialInv, NEW w \in Workers,
           wpc[w] \in InTable, tables[cur[w]] # "done",
           NEW s \in {"running", "failed"}, SetTable(w, s),
           NEW step \in {"preflight", "failed"}, Go(w, step),
           s = "running" \/ step = "failed",
           UNCHANGED <<status, total, processed, rowsTotal, rowsDone, edition,
                       apiVars, mem, cur, have, ed>>
    PROVE  SerialInv' /\ JobStep
<1>0. cur[w] \in Tables /\ wpc[w] \in AtTables /\ wpc[w] \in HasLoaded
  BY DEF IInv, WorkerInv, PositionInv, AtTables, HasClaimed, HasLoaded
<1>1. tables' = [tables EXCEPT ![cur[w]] = s] /\ tables'[cur[w]] = s
  BY <1>0 DEF SetTable, IInv, StoreTypeOK
<1>2. UNCHANGED DoneTables
  BY <1>1 DEF DoneTables, IInv, StoreTypeOK
<1>3. SerialWorkers'
  <2> SUFFICES ASSUME NEW v \in Workers
               PROVE  (SessionIsFresh(v) /\ LoopIsAt(v))'
    BY DEF SerialWorkers
  <2>1. v = w /\ wpc'[w] = step
    BY DEF SerialDeployment, OneWorker, Go, IInv, WorkerInv, WorkerTypeOK
  <2>2. local'[w] = tables'
    <3>1. local[w] = tables
      BY <1>0 DEF SerialInv, SerialWorkers, SessionIsFresh
    <3>2. local \in [Workers -> [Tables -> TableStatus]]
      BY DEF IInv, WorkerInv, WorkerTypeOK
    <3>3. QED
      BY <3>1, <3>2 DEF SetTable
  <2>3. SessionIsFresh(v)'
    BY <1>0, <2>1, <2>2 DEF SerialInv, SerialWorkers, SessionIsFresh, HasLoaded,
       HasClaimed, AtTables, InTable
  <2>4. \A t \in Tables : tables[t] = "done" => tables'[t] = "done"
    BY <1>2 DEF DoneTables
  <2>5. LoopIsAt(v)'
    BY <1>0, <1>1, <2>1, <2>4 DEF SerialInv, SerialWorkers, LoopIsAt, AtTables, InTable
  <2>6. QED
    BY <2>3, <2>5
<1>4. SerialRequests'
  BY <1>0, LoadedExcludesRequests DEF apiVars, SerialRequests
<1>5. SerialStore' /\ SerialCounts'
  BY <1>2 DEF SerialInv, SerialStore, SerialCounts
<1>6. JobStep
  BY <1>2 DEF JobStep, Job!jobVars, DoneTables
<1>7. QED
  BY <1>3, <1>4, <1>5, <1>6 DEF SerialInv

(* Loading, claiming and setting up.                                       *)
LEMMA ClaimSerial ==
    ASSUME SerialDeployment, IInv, SerialInv, NEW w \in Workers, UNCHANGED apiVars,
           \/ Deliver(w) \/ DropRevoked(w) \/ Ack(w)
           \/ LoadSkips(w) \/ Load(w) \/ Claim(w) \/ ClaimStale(w)
           \/ Setup(w) \/ SetupFails(w) \/ DsnRaises(w)
    PROVE  SerialInv' /\ JobStep
<1>0. \A v \in Workers : v = w
  BY DEF SerialDeployment, OneWorker
<1>00. wpc \in [Workers -> WorkerPc]
  BY DEF IInv, WorkerInv, WorkerTypeOK
<1>1. CASE Deliver(w)
  BY <1>1, FreeStepSerial DEF Deliver
<1>2. CASE DropRevoked(w)
  <2>1. SerialWorkers'
    BY <1>2 DEF DropRevoked, workerVars, storeVars, SerialInv, SerialWorkers,
       SessionIsFresh, LoopIsAt
  <2>2. QED
    BY <1>2, <2>1, RequestsAfterWorker, StoreUnchangedSerial DEF DropRevoked, SerialInv
<1>3. CASE Ack(w)
  BY <1>3, FreeStepSerial DEF Ack, ResetWorker
<1>4. CASE LoadSkips(w)
  BY <1>4, FreeStepSerial DEF LoadSkips, EndTask
<1>5. CASE Load(w)
  <2>1. SerialWorkers'
    <3> SUFFICES ASSUME NEW v \in Workers
                 PROVE  (SessionIsFresh(v) /\ LoopIsAt(v))'
      BY DEF SerialWorkers
    <3>1. v = w /\ wpc'[w] = "claim"
      BY <1>0, <1>00, <1>5 DEF Load, Go
    <3>2. seen'[w].status = status /\ mem'[w] = [total |-> total, processed |-> processed]
      BY <1>5 DEF Load, IInv, WorkerInv, WorkerTypeOK
    <3>3. QED
      BY <1>5, <3>1, <3>2 DEF Load, storeVars, SessionIsFresh, LoopIsAt, HasLoaded,
         HasClaimed, AtTables, InTable
  <2>2. QED
    BY <1>5, <2>1, RequestsAfterWorker, StoreUnchangedSerial DEF Load, SerialInv
<1>6. CASE Claim(w)
  <2>1. status \in Active /\ seen[w].status = status
    BY <1>6 DEF Claim, SerialInv, SerialWorkers, SessionIsFresh
  <2>2. status' = "running" /\ UNCHANGED <<tables, DoneTables>>
    BY <1>6, <2>1 DEF Claim, DoneTables
  <2>3. SerialWorkers'
    <3> SUFFICES ASSUME NEW v \in Workers
                 PROVE  (SessionIsFresh(v) /\ LoopIsAt(v))'
      BY DEF SerialWorkers
    <3>1. v = w /\ wpc'[w] = "setup"
      BY <1>0, <1>00, <1>6 DEF Claim, Go
    <3>2. QED
      BY <1>6, <2>2, <3>1 DEF Claim, SerialInv, SerialWorkers, SessionIsFresh,
         LoopIsAt, HasLoaded, HasClaimed, AtTables, InTable
  <2>4. SerialRequests'
    BY <1>6, LoadedExcludesRequests DEF Claim, apiVars, SerialRequests, HasLoaded
  <2>5. SerialStore' /\ SerialCounts'
    BY <1>6, <2>2 DEF Claim, SerialInv, SerialStore, SerialCounts
  <2>6. JobStep
    BY <2>1, <2>2 DEF JobStep, Job!Next, Job!Begin, Job!jobVars, DoneTables, Active
  <2>7. QED
    BY <2>3, <2>4, <2>5, <2>6 DEF SerialInv
<1>7. CASE ClaimStale(w)
  BY <1>7, FreeStepSerial DEF ClaimStale, GiveUp, EndTask
<1>8. CASE Setup(w)
  <2>1. status = "running"
    BY <1>8 DEF Setup, SerialInv, SerialWorkers, SessionIsFresh, HasClaimed
  <2>2. SerialWorkers'
    <3> SUFFICES ASSUME NEW v \in Workers
                 PROVE  (SessionIsFresh(v) /\ LoopIsAt(v))'
      BY DEF SerialWorkers
    <3>1. v = w /\ wpc'[w] = "loop"
      BY <1>0, <1>00, <1>8 DEF Setup, Go
    <3>2. local'[w] = tables /\ have'[w] = rowsTotal /\ ed'[w] = edition /\ cur'[w] = 1
      BY <1>8, <2>1 DEF Setup, IInv, WorkerInv, WorkerTypeOK
    <3>3. \A t \in Tables : ~(t < 1)
      BY DEF Tables
    <3>4. QED
      BY <1>8, <2>1, <3>1, <3>2, <3>3 DEF Setup, storeVars, SerialInv, SerialWorkers,
         SessionIsFresh, LoopIsAt, HasLoaded, HasClaimed, AtTables, InTable
  <2>3. QED
    BY <1>8, <2>2, RequestsAfterWorker, StoreUnchangedSerial DEF Setup, SerialInv
<1>9. CASE SetupFails(w)
  BY <1>9, EndSerial DEF SetupFails, HasClaimed
<1>10. CASE DsnRaises(w)
  BY <1>10, FreeStepSerial DEF DsnRaises, GiveUp, EndTask
<1>11. QED
  BY <1>1, <1>2, <1>3, <1>4, <1>5, <1>6, <1>7, <1>8, <1>9, <1>10

(* Nothing was cancelled.                                                  *)
LEMMA NeverCancelled ==
    ASSUME SerialInv, NEW w \in Workers
    PROVE  ~IsCancelled /\ wpc[w] # "cancelled" /\ RowExists
  BY DEF SerialInv, SerialStore, SerialWorkers, LoopIsAt, IsCancelled

(* Counting a table adds to the table's total and to the migration's.      *)
LEMMA CountSerial ==
    ASSUME SerialDeployment, IInv, SerialInv, NEW w \in Workers, UNCHANGED apiVars,
           CountRows(w)
    PROVE  SerialInv' /\ JobStep
<1> DEFINE c == cur[w]
           rows == Rows[c]
<1>0. /\ wpc[w] = "count" /\ c \in Tables /\ rows \in Nat
      /\ wpc[w] \in AtTables /\ wpc[w] \in HasLoaded
  BY DEF CountRows, IInv, WorkerInv, PositionInv, InTable, AtTables, HasClaimed, HasLoaded
<1>1. /\ mem[w] = [total |-> total, processed |-> processed]
      /\ local[w] = tables /\ have[w] = rowsTotal /\ ed[w] = edition
      /\ status = "running" /\ tables[c] = "running"
  BY <1>0 DEF SerialInv, SerialWorkers, SessionIsFresh, LoopIsAt, AtTables,
     HasClaimed, HasLoaded, InTable
<1>2. /\ total \in Nat /\ processed \in Nat /\ rowsTotal \in [Tables -> Nat]
      /\ have \in [Workers -> [Tables -> Nat]]
      /\ mem \in [Workers -> [total : Nat, processed : Nat]]
  BY DEF IInv, StoreTypeOK, WorkerInv, WorkerTypeOK
<1> HIDE DEF c
<1>3. total' = total + rows
  BY <1>0, <1>1, <1>2 DEF CountRows, c
<1>4. rowsTotal' = [rowsTotal EXCEPT ![c] = rows]
  BY <1>0, <1>1, <1>2 DEF CountRows, c
<1>5. UNCHANGED <<status, processed, tables, rowsDone, edition, local, ed, cur, DoneTables>>
  BY DEF CountRows, DoneTables
<1>6. SerialWorkers'
  <2> SUFFICES ASSUME NEW v \in Workers
               PROVE  (SessionIsFresh(v) /\ LoopIsAt(v))'
    BY DEF SerialWorkers
  <2>1. v = w /\ wpc'[w] = "engine"
    BY DEF SerialDeployment, OneWorker, CountRows, Go, IInv, WorkerInv, WorkerTypeOK
  <2>2. mem'[w] = [total |-> total', processed |-> processed']
    <3>1. mem' = [mem EXCEPT ![w].total = @ + rows]
      BY DEF CountRows, c
    <3>2. mem'[w] = [mem[w] EXCEPT !.total = @ + rows]
      BY <1>2, <3>1
    <3>3. QED
      BY <1>1, <1>3, <1>5, <3>2
  <2>3. have'[w] = rowsTotal'
    <3>1. have' = [have EXCEPT ![w][c] = rows]
      BY DEF CountRows, c
    <3>2. have'[w] = [have[w] EXCEPT ![c] = rows]
      BY <1>2, <3>1
    <3>3. QED
      BY <1>1, <1>4, <3>2
  <2>4. SessionIsFresh(v)'
    BY <1>1, <1>5, <2>1, <2>2, <2>3 DEF SessionIsFresh, HasLoaded, HasClaimed
  <2>5. LoopIsAt(v)'
    BY <1>0, <1>1, <1>5, <2>1 DEF SerialInv, SerialWorkers, LoopIsAt, AtTables, InTable, c
  <2>6. QED
    BY <2>4, <2>5
<1>7. SerialRequests'
  BY <1>0, LoadedExcludesRequests DEF apiVars, SerialRequests
<1>8. SerialStore' /\ JobStep
  BY <1>5, SilentStep DEF SerialInv, SerialStore
<1>9. SerialCounts'
  <2>1. \A t \in DoneTables' : rowsDone'[t] = rowsTotal'[t]
    <3> SUFFICES ASSUME NEW t \in DoneTables PROVE rowsDone[t] = rowsTotal'[t]
      BY <1>5
    <3>1. t # c /\ t \in Tables
      BY <1>1 DEF DoneTables
    <3>2. QED
      BY <1>2, <1>4, <3>1 DEF SerialInv, SerialCounts
  <2>2. processed' = SumOver(rowsDone', DoneTables')
    BY <1>5 DEF SerialInv, SerialCounts
  <2>3. SumOver(rowsTotal', Tables) <= total'
    <3> HIDE DEF rows
    <3>1. /\ rowsTotal' \in [Tables -> Nat] /\ rowsTotal'[c] = rows
          /\ \A t \in Tables \ {c} : rowsTotal'[t] = rowsTotal[t]
      BY <1>0, <1>2, <1>4
    <3>2. SumOver(rowsTotal', Tables) <= SumOver(rowsTotal, Tables) + rowsTotal'[c]
      BY <1>0, <1>2, <3>1, SumAtMost
    <3>3. SumOver(rowsTotal, Tables) <= total
      BY DEF SerialInv, SerialCounts
    <3>4. SumOver(rowsTotal, Tables) \in Nat /\ SumOver(rowsTotal', Tables) \in Nat
      BY <1>2, <3>1, TablesFinite, SumIsNat
    <3>5. QED
      BY <1>0, <1>2, <1>3, <3>1, <3>2, <3>3, <3>4
  <2>4. QED
    BY <2>1, <2>2, <2>3 DEF SerialCounts
<1>10. QED
  BY <1>6, <1>7, <1>8, <1>9 DEF SerialInv

(* Storing DONE adds the table's rows to the migration's, once.            *)
LEMMA StoreSerial ==
    ASSUME SerialDeployment, IInv, SerialInv, NEW w \in Workers, UNCHANGED apiVars,
           StoreDone(w)
    PROVE  SerialInv' /\ JobStep
<1> DEFINE c == cur[w]
           rows == rowsTotal[c]
<1>0. /\ wpc[w] = "store" /\ c \in Tables
      /\ wpc[w] \in AtTables /\ wpc[w] \in HasLoaded
  BY DEF StoreDone, IInv, WorkerInv, PositionInv, InTable, AtTables, HasClaimed, HasLoaded
<1>1. /\ mem[w] = [total |-> total, processed |-> processed]
      /\ local[w] = tables /\ have[w] = rowsTotal /\ ed[w] = edition
      /\ status = "running" /\ tables[c] = "running"
  BY <1>0 DEF SerialInv, SerialWorkers, SessionIsFresh, LoopIsAt, AtTables,
     HasClaimed, HasLoaded, InTable
<1>2. /\ total \in Nat /\ processed \in Nat /\ rowsTotal \in [Tables -> Nat]
      /\ rowsDone \in [Tables -> Nat] /\ tables \in [Tables -> TableStatus]
      /\ local \in [Workers -> [Tables -> TableStatus]]
      /\ mem \in [Workers -> [total : Nat, processed : Nat]] /\ rows \in Nat
  BY <1>0 DEF IInv, StoreTypeOK, WorkerInv, WorkerTypeOK
<1> HIDE DEF c
<1>3. processed' = processed + rows
  BY <1>0, <1>1, <1>2 DEF StoreDone, c
<1>4. rowsDone' = [rowsDone EXCEPT ![c] = rows]
  BY <1>1 DEF StoreDone, c
<1>5. UNCHANGED <<status, total, rowsTotal, edition, have, ed, cur>>
  BY DEF StoreDone
<1>6. tables' = [tables EXCEPT ![c] = "done"]
  BY DEF StoreDone, SetTable, c
<1>7. DoneTables' = DoneTables \cup {c} /\ c \notin DoneTables
  BY <1>0, <1>1, <1>2, <1>6 DEF DoneTables
<1>8. SerialWorkers'
  <2> SUFFICES ASSUME NEW v \in Workers
               PROVE  (SessionIsFresh(v) /\ LoopIsAt(v))'
    BY DEF SerialWorkers
  <2>1. v = w /\ wpc'[w] = "checkpoint"
    BY DEF SerialDeployment, OneWorker, StoreDone, Go, IInv, WorkerInv, WorkerTypeOK
  <2>2. mem'[w] = [total |-> total', processed |-> processed']
    <3>1. mem' = [mem EXCEPT ![w].processed = @ + rows]
      BY <1>1 DEF StoreDone, c
    <3>2. mem'[w] = [mem[w] EXCEPT !.processed = @ + rows]
      BY <1>2, <3>1
    <3>3. QED
      BY <1>1, <1>3, <1>5, <3>2
  <2>3. local'[w] = tables'
    <3>1. local' = [local EXCEPT ![w][c] = "done"]
      BY DEF StoreDone, SetTable, c
    <3>2. local'[w] = [local[w] EXCEPT ![c] = "done"]
      BY <1>2, <3>1
    <3>3. QED
      BY <1>1, <1>6, <3>2
  <2>4. SessionIsFresh(v)'
    BY <1>1, <1>5, <2>1, <2>2, <2>3 DEF SessionIsFresh, HasLoaded, HasClaimed
  <2>5. tables'[c] = "done" /\ \A t \in Tables : tables[t] = "done" => tables'[t] = "done"
    BY <1>0, <1>2, <1>6
  <2>6. LoopIsAt(v)'
    BY <1>0, <1>5, <2>1, <2>5 DEF SerialInv, SerialWorkers, LoopIsAt, AtTables, InTable, c
  <2>7. QED
    BY <2>4, <2>6
<1>9. SerialRequests'
  BY <1>0, LoadedExcludesRequests DEF apiVars, SerialRequests
<1>10. SerialStore'
  BY <1>1, <1>5 DEF SerialInv, SerialStore
<1>11. JobStep
  BY <1>0, <1>1, <1>5, <1>7 DEF JobStep, Job!Next, Job!FinishTable, Job!JobTables,
     DoneTables, Tables
<1>12. SerialCounts'
  <2>1. \A t \in DoneTables' : rowsDone'[t] = rowsTotal'[t]
    <3> SUFFICES ASSUME NEW t \in DoneTables' PROVE rowsDone'[t] = rowsTotal[t]
      BY <1>5
    <3>1. CASE t = c
      BY <1>0, <1>2, <1>4, <3>1
    <3>2. CASE t # c
      <4>1. t \in DoneTables /\ t \in Tables
        BY <1>7, <3>2 DEF DoneTables
      <4>2. QED
        BY <1>2, <1>4, <3>2, <4>1 DEF SerialInv, SerialCounts
    <3>3. QED
      BY <3>1, <3>2
  <2>2. processed' = SumOver(rowsDone', DoneTables')
    <3> DEFINE D == DoneTables'
    <3>1. D \in SUBSET Tables /\ c \in D /\ DoneTables = D \ {c}
      BY <1>0, <1>7 DEF DoneTables
    <3> HIDE DEF rows, D
    <3>2. /\ rowsDone' \in [Tables -> Nat] /\ rowsDone'[c] = rows
          /\ \A t \in DoneTables : rowsDone'[t] = rowsDone[t]
      BY <1>0, <1>2, <1>4, <3>1
    <3>3. SumOver(rowsDone', D) = rowsDone'[c] + SumOver(rowsDone, DoneTables)
      BY <1>2, <3>1, <3>2, SumUpdate
    <3>4. processed = SumOver(rowsDone, DoneTables)
      BY DEF SerialInv, SerialCounts
    <3>5. processed' = SumOver(rowsDone', D)
      BY <1>2, <1>3, <3>2, <3>3, <3>4
    <3>6. QED
      BY <3>5 DEF D
  <2>3. SumOver(rowsTotal', Tables) <= total'
    BY <1>5 DEF SerialInv, SerialCounts
  <2>4. QED
    BY <2>1, <2>2, <2>3 DEF SerialCounts
<1>13. QED
  BY <1>8, <1>9, <1>10, <1>11, <1>12 DEF SerialInv

(* A table of the loop and what the worker's session says of it.           *)
LEMMA AtTable ==
    ASSUME SerialDeployment, IInv, SerialInv, NEW w \in Workers
    PROVE  /\ wpc[w] \in InTable \cup {"failed"} => wpc[w] \in AtTables \ {"loop"}
           /\ wpc[w] = "loop" => wpc[w] \in AtTables
           /\ wpc[w] \in InTable => cur[w] \in Tables /\ RowsValid(w)
           /\ wpc[w] \in AtTables => local[w] = tables
           /\ wpc[w] \in InTable \cup {"failed", "loop"} => status = "running"
<1>1. wpc[w] \in InTable => cur[w] \in Tables
  BY DEF IInv, WorkerInv, PositionInv
<1>2. wpc[w] \in AtTables => /\ local[w] = tables /\ ed[w] = edition
                             /\ status = "running"
  BY DEF SerialInv, SerialWorkers, SessionIsFresh, HasClaimed
<1>3. QED
  BY <1>1, <1>2, NeverCancelled DEF RowsValid, TableRowsExist, AtTables, InTable

(* The loop over the tables.                                               *)
LEMMA TableSerial ==
    ASSUME SerialDeployment, IInv, SerialInv, NEW w \in Workers, UNCHANGED apiVars,
           \/ SeesCancelled(w) \/ SkipDone(w) \/ StartTable(w)
           \/ MarkRunning(w) \/ MarkRunningStale(w)
           \/ PreflightOk(w) \/ TargetMissing(w) \/ TableRaises(w) \/ PreflightStale(w)
           \/ CountRows(w) \/ CountFails(w) \/ CountStale(w)
           \/ OutputEnds(w) \/ EngineSucceeds(w) \/ EngineFails(w)
           \/ EngineRaises(w) \/ EngineCancelled(w) \/ EngineStale(w)
    PROVE  SerialInv' /\ JobStep
<1>0. \A t \in Tables : tables[t] \in TableStatus
  BY DEF IInv, StoreTypeOK
<1>1. CASE SeesCancelled(w) \/ EngineCancelled(w)
  BY <1>1, NeverCancelled DEF SeesCancelled, EngineCancelled
<1>2. CASE SkipDone(w)
  <2>1. cur[w] \in Tables
    BY <1>2 DEF SkipDone, IInv, WorkerInv, WorkerTypeOK, Tables
  <2>2. QED
    BY <1>2, <2>1, AtTable, PassSerial DEF SkipDone, storeVars, AtTables
<1>3. CASE StartTable(w)
  BY <1>3, AtTable, MoveSerial DEF StartTable, Continue, AtTables, InTable
<1>4. CASE MarkRunning(w)
  <2>1. tables[cur[w]] # "done"
    BY <1>4 DEF MarkRunning, SerialInv, SerialWorkers, LoopIsAt
  <2>2. CASE local[w][cur[w]] = "running"
    <3>1. tables[cur[w]] = "running" /\ UNCHANGED <<storeVars, local>>
      BY <1>4, <2>2, AtTable DEF MarkRunning, InTable, storeVars
    <3>2. QED
      BY <1>4, <3>1, AtTable, MoveSerial DEF MarkRunning, AtTables, InTable
  <2>3. CASE local[w][cur[w]] # "running"
    <3>1. SetTable(w, "running") /\ wpc[w] \in InTable
      BY <1>4, <2>3 DEF MarkRunning, InTable
    <3>2. QED
      BY <1>4, <2>1, <3>1, MarkSerial DEF MarkRunning
  <2>4. QED
    BY <2>2, <2>3
<1>5. CASE MarkRunningStale(w) \/ PreflightStale(w) \/ CountStale(w) \/ EngineStale(w)
  BY <1>5, FreeStepSerial DEF MarkRunningStale, PreflightStale, CountStale,
     EngineStale, GiveUp, EndTask
<1>6. CASE PreflightOk(w)
  <2>1. tables[cur[w]] = "running"
    BY <1>6 DEF PreflightOk, SerialInv, SerialWorkers, LoopIsAt
  <2>2. QED
    BY <1>6, <2>1, AtTable, MoveSerial DEF PreflightOk, Continue, AtTables, InTable
<1>7. CASE TargetMissing(w) \/ EngineFails(w)
  <2>1. tables[cur[w]] = "running" /\ wpc[w] \in InTable
    BY <1>7 DEF TargetMissing, EngineFails, AtEngine, SerialInv, SerialWorkers,
       LoopIsAt, InTable
  <2>2. QED
    BY <1>7, <2>1, MarkSerial DEF TargetMissing, EngineFails
<1>8. CASE TableRaises(w) \/ EngineRaises(w)
  BY <1>8, AtTable, MoveSerial DEF TableRaises, EngineRaises, Continue, AtTables,
     InTable
<1>9. CASE CountRows(w)
  BY <1>9, CountSerial
<1>10. CASE CountFails(w)
  <2>1. tables[cur[w]] = "running"
    BY <1>10 DEF CountFails, SerialInv, SerialWorkers, LoopIsAt
  <2>2. QED
    BY <1>10, <2>1, AtTable, MoveSerial DEF CountFails, Continue, AtTables, InTable
<1>11. CASE OutputEnds(w) \/ EngineSucceeds(w)
  <2>1. tables[cur[w]] = "running"
    BY <1>11 DEF OutputEnds, EngineSucceeds, AtEngine, SerialInv, SerialWorkers,
       LoopIsAt
  <2>2. QED
    BY <1>11, <2>1, AtTable, MoveSerial DEF OutputEnds, EngineSucceeds, AtEngine,
       Continue, AtTables, InTable
<1>12. QED
  BY <1>1, <1>2, <1>3, <1>4, <1>5, <1>6, <1>7, <1>8, <1>9, <1>10, <1>11

(* Storing a result and ending the loop; COMPLETED is written by a loop    *)
(* that has passed every table.                                            *)
LEMMA ResultSerial ==
    ASSUME SerialDeployment, IInv, SerialInv, NEW w \in Workers, UNCHANGED apiVars,
           \/ StoreDone(w) \/ StoreDoneStale(w)
           \/ CheckpointFound(w) \/ CheckpointAbsent(w)
           \/ CheckpointInsert(w) \/ CheckpointRefused(w)
           \/ Complete(w) \/ HandleFailure(w) \/ HandleCancelled(w)
    PROVE  SerialInv' /\ JobStep
<1>1. CASE StoreDone(w)
  BY <1>1, StoreSerial
<1>2. CASE StoreDoneStale(w) \/ CheckpointRefused(w)
  BY <1>2, FreeStepSerial DEF StoreDoneStale, CheckpointRefused, GiveUp, EndTask
<1>3. CASE CheckpointFound(w) \/ CheckpointInsert(w)
  <2>1. tables[cur[w]] = "done"
    BY <1>3 DEF CheckpointFound, CheckpointInsert, SerialInv, SerialWorkers, LoopIsAt
  <2>2. wpc[w] \in InTable
    BY <1>3 DEF CheckpointFound, CheckpointInsert, InTable
  <2>3. QED
    BY <1>3, <2>1, <2>2, AtTable, PassSerial
       DEF CheckpointFound, CheckpointInsert, storeVars, AtTables
<1>4. CASE CheckpointAbsent(w)
  <2>1. tables[cur[w]] = "done"
    BY <1>4 DEF CheckpointAbsent, SerialInv, SerialWorkers, LoopIsAt
  <2>2. QED
    BY <1>4, <2>1, AtTable, MoveSerial DEF CheckpointAbsent, Continue, AtTables, InTable
<1>5. CASE Complete(w)
  <2>1. \A t \in Tables : t < cur[w]
    BY <1>5, NumTablesAssumption DEF Complete, IInv, WorkerInv, WorkerTypeOK, Tables
  <2>2. DoneTables = Tables
    BY <1>5, <2>1 DEF Complete, SerialInv, SerialWorkers, LoopIsAt, DoneTables, AtTables
  <2>3. QED
    BY <1>5, <2>2, EndSerial DEF Complete, HasClaimed, AtTables
<1>6. CASE HandleFailure(w)
  BY <1>6, EndSerial DEF HandleFailure, HasClaimed, AtTables
<1>7. CASE HandleCancelled(w)
  BY <1>7, NeverCancelled DEF HandleCancelled
<1>8. QED
  BY <1>1, <1>2, <1>3, <1>4, <1>5, <1>6, <1>7

------------------------------------------------------------------------------
(* The serial deployment: the requests *)

(* While a migration is not queued or running, no worker has it loaded, so *)
(* that a request may write what it likes.                                 *)
LEMMA ResetKeepsWorkers ==
    ASSUME SerialInv, status \notin Active, UNCHANGED workerVars
    PROVE  SerialWorkers'
<1> SUFFICES ASSUME NEW w \in Workers
             PROVE  (SessionIsFresh(w) /\ LoopIsAt(w))'
  BY DEF SerialWorkers
<1>1. wpc[w] \notin HasLoaded /\ wpc[w] # "cancelled"
  BY LoadedExcludesRequests, NeverCancelled
<1>2. QED
  BY <1>1 DEF workerVars, SessionIsFresh, LoopIsAt, HasLoaded, HasClaimed, AtTables,
     InTable

(* A step of a request that writes neither the status nor the tables.      *)
LEMMA QuietRequest ==
    ASSUME SerialInv, SerialRequests', UNCHANGED workerVars,
           UNCHANGED <<status, total, processed, tables, rowsTotal, rowsDone, edition>>
    PROVE  SerialInv' /\ JobStep
<1>1. SerialWorkers'
  BY DEF workerVars, SerialInv, SerialWorkers, SessionIsFresh, LoopIsAt
<1>2. UNCHANGED DoneTables
  BY DEF DoneTables
<1>3. SerialStore' /\ SerialCounts' /\ JobStep
  BY <1>2, SilentStep DEF SerialInv, SerialStore, SerialCounts
<1>4. QED
  BY <1>1, <1>3 DEF SerialInv

(* The only request, when it is idle or between its commits.               *)
LEMMA OnlyRequest ==
    ASSUME SerialDeployment, NEW r \in Requests, ApiTypeOK,
           NEW step \in {"idle", "enqueue", "record"}, GoTo(r, step)
    PROVE  SerialRequests'
<1>1. \A q \in Requests : rpc'[q] = step
  BY DEF SerialDeployment, OneRequest, ApiTypeOK, GoTo
<1>2. QED
  BY <1>1 DEF SerialRequests

(* A step of the request keeps the serial invariant and is a step of the  *)
(* abstract job.                                                           *)
LEMMA RequestSerial ==
    ASSUME SerialDeployment, IInv, SerialInv, NEW r \in Requests,
           RequestStep(r) \/ NewRequest(r) \/ ApiCrash(r), UNCHANGED workerVars
    PROVE  SerialInv' /\ JobStep
<1>0. ApiTypeOK /\ rpc[r] \in {"idle", "start", "enqueue", "record", "update"}
  BY DEF IInv, RequestInv, SerialInv, SerialRequests
<1>1. CASE StartLoad(r)
  <2>1. SerialRequests'
    <3>1. \A q \in Requests : q = r
      BY DEF SerialDeployment, OneRequest
    <3>2. rpc'[r] = "start" /\ rtables'[r] = tables /\ red'[r] = edition
      BY <1>0, <1>1 DEF StartLoad, GoTo, ApiTypeOK
    <3>3. QED
      BY <1>1, <3>1, <3>2 DEF StartLoad, storeVars, SerialRequests
  <2>2. QED
    BY <1>1, <2>1, QuietRequest DEF StartLoad, storeVars
<1>2. CASE StartCommit(r)
  <2>1. status \in STARTABLE_STATUSES /\ rtables[r] = tables
    BY <1>2 DEF StartCommit, SerialInv, SerialRequests
  <2>2. SerialWorkers'
    BY <2>1, ResetKeepsWorkers DEF Active, STARTABLE_STATUSES
  <2>3. SerialRequests'
    BY <1>0, <1>2, OnlyRequest DEF StartCommit, Proceed
  <2>4. UNCHANGED DoneTables
    <3>1. \A t \in Tables : tables'[t] = IF t \in ResetTables(r) THEN "pending" ELSE tables[t]
      BY <1>2 DEF StartCommit
    <3>2. \A t \in ResetTables(r) : tables[t] # "done"
      BY <2>1 DEF ResetTables
    <3>3. QED
      BY <3>1, <3>2 DEF DoneTables
  <2>5. SerialStore' /\ SerialCounts'
    BY <1>2, <2>4 DEF StartCommit, SerialInv, SerialStore, SerialCounts
  <2>6. JobStep
    BY <1>2, <2>1, <2>4 DEF StartCommit, JobStep, Job!Next, Job!Start, Job!STARTABLE_STATUSES,
       STARTABLE_STATUSES, DoneTables
  <2>7. QED
    BY <2>2, <2>3, <2>5, <2>6 DEF SerialInv
<1>3. CASE StartCommitStale(r) \/ UpdateCommitStale(r) \/ ApiCrash(r)
  <2>1. SerialRequests'
    BY <1>0, <1>3, OnlyRequest DEF StartCommitStale, UpdateCommitStale, ApiCrash, EndRequest
  <2>2. QED
    BY <1>3, <2>1, QuietRequest
       DEF StartCommitStale, UpdateCommitStale, ApiCrash, storeVars
<1>4. CASE Enqueue(r)
  <2>1. SerialRequests'
    BY <1>0, <1>4, OnlyRequest DEF Enqueue, Proceed
  <2>2. QED
    BY <1>4, <2>1, QuietRequest DEF Enqueue, storeVars
<1>5. CASE RecordTaskId(r)
  <2>1. SerialRequests'
    BY <1>0, <1>5, OnlyRequest DEF RecordTaskId, EndRequest
  <2>2. QED
    BY <1>5, <2>1, QuietRequest DEF RecordTaskId
<1>6. CASE UpdateLoad(r)
  <2>1. SerialRequests'
    <3>1. \A q \in Requests : q = r
      BY DEF SerialDeployment, OneRequest
    <3>2. rpc'[r] = "update"
      BY <1>0, <1>6 DEF UpdateLoad, GoTo, ApiTypeOK
    <3>3. QED
      BY <1>6, <3>1, <3>2 DEF UpdateLoad, storeVars, SerialRequests
  <2>2. QED
    BY <1>6, <2>1, QuietRequest DEF UpdateLoad, storeVars
<1>7. CASE UpdateCommit(r)
  <2>1. status = "draft" /\ DoneTables = {}
    BY <1>7 DEF UpdateCommit, SerialInv, SerialRequests, SerialStore
  <2>2. SerialWorkers'
    BY <2>1, ResetKeepsWorkers DEF Active
  <2>3. SerialRequests'
    BY <1>0, <1>7, OnlyRequest DEF UpdateCommit, EndRequest
  <2>4. DoneTables' = {}
    BY <1>7 DEF UpdateCommit, DoneTables
  <2>5. SerialStore'
    BY <1>7, <2>1, <2>4 DEF UpdateCommit, SerialInv, SerialStore
  <2>6. SerialCounts'
    <3>1. processed' = SumOver(rowsDone', {})
      <4>1. processed = SumOver(rowsDone, {})
        BY <2>1 DEF SerialInv, SerialCounts
      <4>2. SumOver(rowsDone, {}) = SumOver(rowsDone', {})
        BY FS_EmptySet, SumSame
      <4>3. QED
        BY <1>7, <4>1, <4>2 DEF UpdateCommit
    <3>2. SumOver(rowsTotal', Tables) = 0
      <4>1. \A t \in Tables : rowsTotal'[t] = 0
        BY <1>7 DEF UpdateCommit
      <4>2. QED
        BY <4>1, TablesFinite, SumOfZeros
    <3>3. total' \in Nat
      BY <1>7 DEF UpdateCommit, IInv, StoreTypeOK
    <3>4. QED
      BY <2>4, <3>1, <3>2, <3>3 DEF SerialCounts
  <2>7. JobStep
    BY <1>7, <2>1, <2>4 DEF UpdateCommit, JobStep, Job!jobVars, DoneTables
  <2>8. QED
    BY <2>2, <2>3, <2>5, <2>6, <2>7 DEF SerialInv
<1>8. CASE \/ CancelLoad(r) \/ DeleteLoad(r)
           \/ EnqueueFails(r) \/ EnqueueReplyLost(r)
           \/ Compensate(r) \/ CancelCommit(r) \/ CancelCommitStale(r)
           \/ Revoke(r) \/ DeleteCommit(r)
  BY <1>0, <1>8 DEF SerialDeployment, CancelLoad, DeleteLoad, EnqueueFails,
     EnqueueReplyLost, Compensate, CancelCommit, CancelCommitStale, Revoke, DeleteCommit
<1>9. QED
  BY <1>1, <1>2, <1>3, <1>4, <1>5, <1>6, <1>7, <1>8 DEF RequestStep, NewRequest

(* Every step of the system keeps the invariant, and is a step of the      *)
(* abstract job or shows nothing.                                          *)
LEMMA SerialStep ==
    ASSUME SerialDeployment, IInv, SerialInv, [Next]_vars
    PROVE  SerialInv' /\ JobStep
<1>1. CASE UNCHANGED vars
  <2>1. UNCHANGED <<storeVars, apiVars, workerVars>>
    BY <1>1 DEF vars
  <2>2. SerialRequests' /\ SerialWorkers'
    BY <2>1 DEF storeVars, apiVars, workerVars, SerialInv, SerialRequests,
       SerialWorkers, SessionIsFresh, LoopIsAt
  <2>3. QED
    BY <2>1, <2>2, StoreUnchangedSerial DEF SerialInv
<1>2. ASSUME NEW r \in Requests, Client(r) \/ Request(r) \/ ApiDeath(r)
      PROVE  SerialInv' /\ JobStep
  BY <1>2, RequestSerial DEF Client, Request, ApiDeath
<1>3. ASSUME NEW w \in Workers, Task(w) \/ Exit(w) \/ Poll(w)
      PROVE  SerialInv' /\ JobStep
  <2>1. UNCHANGED apiVars /\ (TaskStep(w) \/ EngineExit(w) \/ EnginePoll(w))
    BY <1>3 DEF Task, Exit, Poll
  <2>2. QED
    BY <2>1, ClaimSerial, TableSerial, ResultSerial DEF TaskStep, EngineExit, EnginePoll
<1>4. ASSUME NEW w \in Workers, WorkerDeath(w)
      PROVE  SerialInv' /\ JobStep
  BY <1>4, FreeStepSerial DEF WorkerDeath, WorkerCrash, ResetWorker
<1>5. CASE Restore
  <2>1. UNCHANGED <<storeVars, workerVars, apiVars>>
    BY <1>5 DEF Restore, RestoreUnacked
  <2>2. SerialRequests' /\ SerialWorkers'
    BY <2>1 DEF storeVars, apiVars, workerVars, SerialInv, SerialRequests,
       SerialWorkers, SessionIsFresh, LoopIsAt
  <2>3. QED
    BY <2>1, <2>2, StoreUnchangedSerial DEF SerialInv
<1>6. QED
  BY <1>1, <1>2, <1>3, <1>4, <1>5 DEF Next

------------------------------------------------------------------------------
(* The serial deployment: what it keeps *)

(* The two invariants together are inductive.                              *)
THEOREM SerialInvariance ==
    ASSUME SerialDeployment
    PROVE  Spec => [](IInv /\ SerialInv)
<1>1. Init => IInv /\ SerialInv
  BY InitInv, SerialInit
<1>2. IInv /\ SerialInv /\ [Next]_vars => (IInv /\ SerialInv)'
  BY StepInv, SerialStep
<1>3. QED
  BY <1>1, <1>2, PTL DEF Spec

(* COMPLETED, which Complete writes without reading anything again, means  *)
(* that every table row says DONE.                                         *)
THEOREM CompletedJobsAreDone ==
    ASSUME SerialDeployment
    PROVE  Spec => []CompletedMeansDone
<1>1. SerialInv => CompletedMeansDone
  BY DEF SerialInv, SerialStore, CompletedMeansDone, DoneTables
<1>2. QED
  BY <1>1, SerialInvariance, PTL

(* processed_rows, kept by adding in a worker's session over any number of *)
(* attempts, is the sum of what the DONE tables record.                    *)
THEOREM ProcessedRowsAddUp ==
    ASSUME SerialDeployment
    PROVE  Spec => []ProcessedAddsUp
<1>1. SerialInv => ProcessedAddsUp
  BY DEF SerialInv, SerialCounts, ProcessedAddsUp, DoneTables
<1>2. QED
  BY <1>1, SerialInvariance, PTL

(* The progress shown never exceeds 100%: what the DONE tables record is   *)
(* what was counted for them, and that is part of the total.               *)
THEOREM ProgressWithinTotal ==
    ASSUME SerialDeployment
    PROVE  Spec => []ProcessedWithinTotal
<1>1. IInv /\ SerialInv => ProcessedWithinTotal
  <2> SUFFICES ASSUME IInv, SerialInv PROVE processed <= total
    BY DEF ProcessedWithinTotal
  <2>1. /\ \A t \in DoneTables : rowsDone[t] = rowsTotal[t]
        /\ processed = SumOver(rowsDone, DoneTables)
        /\ SumOver(rowsTotal, Tables) <= total
    BY DEF SerialInv, SerialCounts
  <2>2. DoneTables \in SUBSET Tables /\ Tables \in SUBSET Tables
    BY DEF DoneTables
  <2>3. rowsTotal \in [Tables -> Nat] /\ total \in Nat /\ processed \in Nat
    BY DEF IInv, StoreTypeOK
  <2>4. SumOver(rowsDone, DoneTables) = SumOver(rowsTotal, DoneTables)
    BY <2>1, <2>2, TablesFinite, SumSame
  <2>5. SumOver(rowsTotal, DoneTables) <= SumOver(rowsTotal, Tables)
    BY <2>2, <2>3, TablesFinite, SumGrows
  <2>6. SumOver(rowsTotal, Tables) \in Nat
    BY <2>2, <2>3, TablesFinite, SumIsNat
  <2>7. QED
    BY <2>1, <2>3, <2>4, <2>5, <2>6
<1>2. QED
  BY <1>1, SerialInvariance, PTL

(* A step of the abstract job undoes no DONE.                              *)
LEMMA JobStepKeepsDone ==
    JobStep => \A t \in Tables : tables[t] = "done" => tables'[t] = "done"
<1> SUFFICES ASSUME JobStep PROVE DoneTables \subseteq DoneTables'
  BY DEF DoneTables
<1>1. QED
  BY DEF JobStep, Job!Next, Job!jobVars, Job!Start, Job!Withdraw, Job!Begin,
     Job!Complete, Job!Fail, Job!FinishTable, DoneTables

(* A table that is DONE stays DONE: restarts and redeliveries skip it.     *)
THEOREM DoneTablesStayDone ==
    ASSUME SerialDeployment
    PROVE  Spec => DoneNeverUndone
<1>1. IInv /\ SerialInv /\ [Next]_vars =>
          [\A t \in Tables : tables[t] = "done" => tables'[t] = "done"]_vars
  BY SerialStep, JobStepKeepsDone
<1>2. QED
  BY <1>1, SerialInvariance, PTL DEF Spec, DoneNeverUndone

(* The system implements the job its states promise to clients: it starts  *)
(* as a draft with nothing done, and every step is one of the abstract job *)
(* or changes nothing a client sees.                                       *)
THEOREM SystemImplementsJob ==
    ASSUME SerialDeployment
    PROVE  Spec => ImplementsJob
<1>1. Init => Job!Init
  BY DEF Init, StoreInit, Job!Init, Tables
<1>2. IInv /\ SerialInv /\ [Next]_vars => [Job!Next]_(Job!jobVars)
  BY SerialStep DEF JobStep
<1>3. QED
  BY <1>1, <1>2, SerialInvariance, PTL DEF Spec, ImplementsJob, Job!Spec

------------------------------------------------------------------------------
(* One worker: the task ids *)

(* At first no id is in circulation and nothing is queued or running.      *)
LEMMA OneWorkerInit == Init => OneWorkerInv
<1> SUFFICES ASSUME Init PROVE OneWorkerInv
  OBVIOUS
<1> USE DEF Init, StoreInit, BrokerInit, ApiInit, WorkerInit
<1>1. Queued = {}
  BY DEF Queued
<1>2. \A id \in HeldIds : id = 0
  BY <1>1 DEF HeldIds
<1>3. FreshIds /\ IdsAreCounted
  BY <1>2 DEF FreshIds, IdsAreCounted
<1>4. DeliveriesAreHeld /\ RowsAreIts /\ status \notin Active
  BY DEF DeliveriesAreHeld, RowsAreIts, Active
<1>5. QED
  BY <1>3, <1>4 DEF OneWorkerInv

(* The parts of what is held.                                              *)
LEMMA Holding ==
    /\ Queued \subseteq HeldIds
    /\ taskId \in HeldIds
    /\ \A w \in Workers : job[w] \in HeldIds /\ revoked[w] \subseteq HeldIds
  BY DEF HeldIds

(* Whoever holds ids after a step, holds members of a set that has all the *)
(* ids of each holder.                                                     *)
LEMMA HoldingNext ==
    ASSUME NEW X,
           Queued' \subseteq X, taskId' \in X,
           \A w \in Workers : job'[w] \in X /\ revoked'[w] \subseteq X
    PROVE  HeldIds' \subseteq X
  BY DEF HeldIds

(* Ids are numbers, and the queue is what is in it.                        *)
LEMMA HeldNat ==
    ASSUME IInv
    PROVE  /\ HeldIds \subseteq Nat
           /\ Queued \subseteq TaskIdSpace
           /\ \A r \in Requests : rtask[r] \in Nat
           /\ starts \in Nat
<1>1. Queued \subseteq TaskIdSpace
  BY DEF Queued, IInv, BrokerInv
<1>2. taskId \in Nat /\ \A w \in Workers : job[w] \in Nat
  BY DEF IInv, StoreTypeOK, WorkerInv, WorkerTypeOK, TaskIdSpace
<1>3. \A w \in Workers : revoked[w] \subseteq Nat
  BY DEF IInv, BrokerInv, BrokerTypeOK, TaskIds
<1>4. (\A r \in Requests : rtask[r] \in Nat) /\ starts \in Nat
  BY DEF IInv, RequestInv, ApiTypeOK, TaskIdSpace
<1>5. TaskIdSpace \subseteq Nat
  BY DEF TaskIdSpace
<1>6. HeldIds \subseteq Nat
  BY <1>1, <1>2, <1>3, <1>5, Zenon DEF HeldIds
<1>7. QED
  BY <1>1, <1>4, <1>6

(* Publishing adds one id to the queue.                                    *)
LEMMA QueuedAppend ==
    ASSUME IInv, NEW id, Publish(id)
    PROVE  Queued' = Queued \cup {id}
<1>1. queue \in Seq(TaskIdSpace)
  BY DEF IInv, BrokerInv
<1>2. queue' = Append(queue, id)
  BY DEF Publish
<1>3. Len(queue) \in Nat /\ Len(queue') = Len(queue) + 1
  BY <1>1, <1>2
<1>4. \A i \in 1..Len(queue) : queue'[i] = queue[i]
  BY <1>1, <1>2
<1>5. queue'[Len(queue) + 1] = id
  BY <1>1, <1>2
<1>6. 1..Len(queue') = 1..Len(queue) \cup {Len(queue) + 1}
  BY <1>3
<1>7. QED
  BY <1>4, <1>5, <1>6 DEF Queued

(* Delivering takes the first id from the queue, which may be there twice. *)
LEMMA QueuedTail ==
    ASSUME IInv, queue # <<>>, queue' = Tail(queue)
    PROVE  /\ Head(queue) \in Queued
           /\ Queued' \subseteq Queued
           /\ Queued \subseteq Queued' \cup {Head(queue)}
<1>1. queue \in Seq(TaskIdSpace)
  BY DEF IInv, BrokerInv
<1>2. Len(queue) \in Nat \ {0} /\ Head(queue) = queue[1] /\ Len(queue') = Len(queue) - 1
  BY <1>1
<1>3. \A i \in 1..Len(queue') : queue'[i] = queue[i + 1]
  BY <1>1
<1>4. \A i \in 1..Len(queue') : i + 1 \in 1..Len(queue)
  BY <1>2
<1>5. \A i \in 1..Len(queue) : i # 1 => i - 1 \in 1..Len(queue') /\ (i - 1) + 1 = i
  BY <1>2
<1>6. Queued' \subseteq Queued
  BY <1>3, <1>4 DEF Queued
<1>7. Queued \subseteq Queued' \cup {Head(queue)}
  <2> SUFFICES ASSUME NEW i \in 1..Len(queue), i # 1
               PROVE  queue[i] \in Queued'
    BY <1>2 DEF Queued
  <2>1. i - 1 \in 1..Len(queue') /\ queue'[i - 1] = queue[i]
    BY <1>3, <1>5
  <2>2. QED
    BY <2>1 DEF Queued
<1>8. QED
  BY <1>2, <1>6, <1>7 DEF Queued

(* A step that lets nobody get hold of an id that is to be published.      *)
LEMMA IdsKept ==
    ASSUME IInv, FreshIds, IdsAreCounted, UNCHANGED starts,
           NEW X, X = {rtask[q] : q \in {p \in Requests : rpc'[p] \notin {"start", "enqueue"}}},
           HeldIds' \subseteq HeldIds \cup {0} \cup X,
           \A q \in Requests : rtask'[q] \in HeldIds \cup {0, rtask[q]},
           \A q \in Requests : rpc'[q] \in {"start", "enqueue"} =>
               rpc[q] \in {"start", "enqueue"} /\ rtask'[q] = rtask[q]
    PROVE  FreshIds' /\ IdsAreCounted'
<1>1. FreshIds'
  <2> SUFFICES ASSUME NEW r \in Requests, rpc'[r] \in {"start", "enqueue"}
               PROVE  /\ rtask[r] \notin HeldIds'
                      /\ \A q \in Requests \ {r} : rtask'[q] # rtask[r]
    BY DEF FreshIds
  <2>1. rpc[r] \in {"start", "enqueue"}
    OBVIOUS
  <2>2. rtask[r] # 0
    BY <2>1 DEF IInv, RequestInv, TaskIdSpace
  <2>3. rtask[r] \notin HeldIds /\ \A q \in Requests \ {r} : rtask[q] # rtask[r]
    BY <2>1 DEF FreshIds
  <2>4. rtask[r] \notin X
    BY <2>3
  <2>5. QED
    BY <2>2, <2>3, <2>4
<1>2. 0 <= starts
  BY HeldNat
<1>3. IdsAreCounted'
  BY <1>2 DEF IdsAreCounted
<1>4. QED
  BY <1>1, <1>3

------------------------------------------------------------------------------
(* One worker: the worker's steps *)

(* A step of the worker within its task.                                   *)
LEMMA TaskKeeps ==
    ASSUME OneWorkerDeployment, IInv, OneWorkerInv, NEW w \in Workers,
           wpc[w] # "idle", NEW step \in WorkerPc \ {"idle"}, Go(w, step),
           UNCHANGED <<brokerVars, apiVars, job, edition>>,
           taskId' \in {taskId, job[w]}, ed'[w] \in {0, 1},
           step = "insert" => cur'[w] \notin checkpoints',
           status' \in Active => \/ step \in Unfinished
                                 \/ wpc[w] \notin Unfinished /\ status \in Active
    PROVE  OneWorkerInv'
<1>1. \A v \in Workers : v = w /\ wpc'[v] = step
  BY DEF OneWorkerDeployment, OneWorker, Go, IInv, WorkerInv, WorkerTypeOK
<1>2. FreshIds' /\ IdsAreCounted'
  <2>1. HeldIds' \subseteq HeldIds
    <3>1. UNCHANGED Queued
      BY DEF brokerVars, Queued
    <3>2. QED
      BY <3>1, Holding, HoldingNext DEF brokerVars
  <2>2. QED
    BY <2>1, IdsKept DEF apiVars, OneWorkerInv
<1>3. DeliveriesAreHeld'
  <2>1. \A m \in unacked : m[2] \in Workers
    BY DEF IInv, BrokerInv
  <2>2. QED
    BY <1>1, <2>1 DEF brokerVars, OneWorkerInv, DeliveriesAreHeld
<1>4. RowsAreIts'
  BY <1>1 DEF apiVars, OneWorkerInv, RowsAreIts
<1>5. ASSUME status' \in Active PROVE SomebodyWorks'
  <2>1. CASE step \in Unfinished
    BY <1>1, <2>1 DEF SomebodyWorks, Unfinished
  <2>2. CASE wpc[w] \notin Unfinished /\ status \in Active
    <3>1. Enqueuing \/ \E id \in Queued : NotRevoked(id)
      BY <1>1, <2>2 DEF OneWorkerInv, SomebodyWorks
    <3>2. UNCHANGED <<Enqueuing, Queued>> /\ \A id : NotRevoked(id) => NotRevoked(id)'
      BY DEF Enqueuing, Queued, NotRevoked, brokerVars, apiVars
    <3>3. QED
      BY <3>1, <3>2 DEF SomebodyWorks
  <2>3. QED
    BY <1>5, <2>1, <2>2
<1>6. QED
  BY <1>2, <1>3, <1>4, <1>5 DEF OneWorkerInv

(* It goes on.                                                             *)
LEMMA StayKeeps ==
    ASSUME OneWorkerDeployment, IInv, OneWorkerInv, NEW w \in Workers,
           wpc[w] # "idle", NEW step \in Unfinished \ {"insert"}, Go(w, step),
           UNCHANGED <<brokerVars, apiVars, job, edition, ed>>,
           taskId' \in {taskId, job[w]}
    PROVE  OneWorkerInv'
<1>1. ed'[w] \in {0, 1}
  BY DEF OneWorkerInv, RowsAreIts
<1>2. QED
  BY <1>1, TaskKeeps DEF Unfinished

(* It ends, and the migration is not queued or running any more.           *)
LEMMA EndKeeps ==
    ASSUME OneWorkerDeployment, IInv, OneWorkerInv, NEW w \in Workers,
           wpc[w] # "idle", EndTask(w),
           UNCHANGED <<brokerVars, apiVars, edition, taskId>>,
           status' \notin Active \/ (wpc[w] = "cancelled" /\ UNCHANGED status)
    PROVE  OneWorkerInv'
<1>1. ed'[w] = 0 /\ Go(w, "ack") /\ UNCHANGED job
  BY DEF EndTask, CloseSession, IInv, WorkerInv, WorkerTypeOK
<1>2. QED
  BY <1>1, TaskKeeps DEF Unfinished, WorkerPc

(* It gives up: only ever because the migration is gone.                   *)
LEMMA GiveUpKeeps ==
    ASSUME OneWorkerDeployment, IInv, OneWorkerInv, NEW w \in Workers,
           wpc[w] # "idle", GiveUp(w), UNCHANGED apiVars,
           ~RowExists \/ (wpc[w] \in InTable /\ ~RowsValid(w))
    PROVE  OneWorkerInv'
<1>1. ~RowExists
  BY DEF IInv, WorkerInv, PositionInv, OneWorkerInv, RowsAreIts, RowsValid,
     TableRowsExist
<1>2. QED
  BY <1>1, EndKeeps DEF GiveUp, storeVars, Active

(* The steps of the worker within its task.                                *)
LEMMA WorkerActionsKeep ==
    ASSUME OneWorkerDeployment, IInv, OneWorkerInv, NEW w \in Workers, UNCHANGED apiVars,
           \/ LoadSkips(w) \/ Load(w) \/ Claim(w) \/ ClaimStale(w)
           \/ Setup(w) \/ SetupFails(w) \/ DsnRaises(w)
           \/ SeesCancelled(w) \/ SkipDone(w) \/ StartTable(w)
           \/ MarkRunning(w) \/ MarkRunningStale(w)
           \/ PreflightOk(w) \/ TargetMissing(w) \/ TableRaises(w) \/ PreflightStale(w)
           \/ CountRows(w) \/ CountFails(w) \/ CountStale(w)
           \/ OutputEnds(w) \/ EngineSucceeds(w) \/ EngineFails(w)
           \/ EngineRaises(w) \/ EngineCancelled(w) \/ EngineStale(w)
           \/ StoreDone(w) \/ StoreDoneStale(w)
           \/ CheckpointFound(w) \/ CheckpointAbsent(w)
           \/ CheckpointInsert(w) \/ CheckpointRefused(w)
           \/ Complete(w) \/ HandleFailure(w) \/ HandleCancelled(w)
    PROVE  OneWorkerInv'
<1>1. CASE LoadSkips(w)
  BY <1>1, EndKeeps DEF LoadSkips, storeVars
<1>2. CASE Load(w)
  BY <1>2, StayKeeps DEF Load, storeVars, Unfinished, WorkerPc
<1>3. CASE Claim(w)
  BY <1>3, StayKeeps DEF Claim, Unfinished, WorkerPc
<1>4. CASE \/ ClaimStale(w) \/ MarkRunningStale(w) \/ PreflightStale(w)
           \/ CountStale(w) \/ EngineStale(w) \/ StoreDoneStale(w)
  <2>1. wpc[w] # "idle" /\ GiveUp(w) /\ (~RowExists \/ (wpc[w] \in InTable /\ ~RowsValid(w)))
    BY <1>4 DEF ClaimStale, MarkRunningStale, PreflightStale, CountStale, EngineStale,
       StoreDoneStale, AtEngine, InTable, RowsValid, TableRowsExist
  <2>2. QED
    BY <2>1, GiveUpKeeps
<1>5. CASE Setup(w)
  <2>1. ed'[w] \in {0, 1}
    BY <1>5 DEF Setup, OneWorkerInv, RowsAreIts, IInv, WorkerInv, WorkerTypeOK
  <2>2. QED
    BY <1>5, <2>1, TaskKeeps DEF Setup, storeVars, Unfinished, WorkerPc
<1>6. CASE SetupFails(w) \/ Complete(w) \/ HandleFailure(w)
  <2>1. /\ wpc[w] # "idle" /\ EndTask(w)
        /\ UNCHANGED <<brokerVars, edition, taskId>> /\ status' \notin Active
    BY <1>6 DEF SetupFails, Complete, HandleFailure, SetStatus, storeVars, Active
  <2>2. QED
    BY <2>1, EndKeeps
<1>7. CASE DsnRaises(w)
  BY <1>7 DEF DsnRaises, OneWorkerDeployment
<1>8. CASE SeesCancelled(w) \/ EngineCancelled(w)
  <2>1. status' \notin Active /\ Go(w, "cancelled") /\ UNCHANGED <<job, edition, ed, taskId>>
    BY <1>8 DEF SeesCancelled, EngineCancelled, IsCancelled, Continue, storeVars, Active
  <2>2. ed'[w] \in {0, 1}
    BY <2>1 DEF OneWorkerInv, RowsAreIts
  <2>3. QED
    BY <1>8, <2>1, <2>2, TaskKeeps DEF SeesCancelled, EngineCancelled, WorkerPc
<1>9. CASE SkipDone(w) \/ CheckpointFound(w) \/ CheckpointInsert(w)
  BY <1>9, StayKeeps DEF SkipDone, CheckpointFound, CheckpointInsert, NextTable,
     storeVars, Unfinished, WorkerPc
<1>10. CASE \/ StartTable(w) \/ PreflightOk(w) \/ TableRaises(w) \/ CountFails(w)
            \/ OutputEnds(w) \/ EngineRaises(w)
  BY <1>10, StayKeeps DEF StartTable, PreflightOk, TableRaises, CountFails, OutputEnds,
     EngineRaises, Continue, storeVars, Unfinished, WorkerPc
<1>11. CASE MarkRunning(w) \/ TargetMissing(w) \/ EngineFails(w)
  BY <1>11, StayKeeps DEF MarkRunning, TargetMissing, EngineFails, AtEngine, Unfinished,
     WorkerPc
<1>12. CASE CountRows(w) \/ EngineSucceeds(w) \/ StoreDone(w)
  BY <1>12, StayKeeps DEF CountRows, EngineSucceeds, AtEngine, StoreDone, storeVars,
     Unfinished, WorkerPc
<1>13. CASE CheckpointAbsent(w)
  <2>1. ed'[w] \in {0, 1} /\ cur'[w] \notin checkpoints'
    BY <1>13 DEF CheckpointAbsent, Continue, storeVars, OneWorkerInv, RowsAreIts
  <2>2. QED
    BY <1>13, <2>1, TaskKeeps DEF CheckpointAbsent, Continue, storeVars, Unfinished,
       WorkerPc
<1>14. CASE CheckpointRefused(w)
  <2>1. ~RowExists
    BY <1>14 DEF CheckpointRefused, OneWorkerInv, RowsAreIts
  <2>2. wpc[w] # "idle" /\ GiveUp(w)
    BY <1>14 DEF CheckpointRefused
  <2>3. QED
    BY <2>1, <2>2, GiveUpKeeps
<1>15. CASE HandleCancelled(w)
  BY <1>15, EndKeeps DEF HandleCancelled
<1>16. QED
  BY <1>1, <1>2, <1>3, <1>4, <1>5, <1>6, <1>7, <1>8, <1>9, <1>10, <1>11, <1>12,
     <1>13, <1>14, <1>15

(* Taking, dropping and acknowledging a message; the message of the one    *)
(* worker is not put back while it is at work.                             *)
LEMMA BrokerActionsKeep ==
    ASSUME OneWorkerDeployment, IInv, OneWorkerInv, NEW w \in Workers, UNCHANGED apiVars,
           \/ Deliver(w) \/ DropRevoked(w) \/ Ack(w)
           \/ \E m \in unacked : RestoreUnacked(m)
    PROVE  OneWorkerInv'
<1>0. /\ \A v \in Workers : v = w
      /\ \A m \in unacked : m = <<job[w], w>> /\ wpc[w] # "idle"
  <2>1. \A m \in unacked : m \in TaskIdSpace \X Workers
    BY DEF IInv, BrokerInv
  <2>2. QED
    BY <2>1 DEF OneWorkerDeployment, OneWorker, OneWorkerInv, DeliveriesAreHeld
<1>00. wpc \in [Workers -> WorkerPc] /\ job \in [Workers -> TaskIdSpace \cup {0}]
  BY DEF IInv, WorkerInv, WorkerTypeOK
<1>1. CASE Deliver(w)
  <2>1. /\ Head(queue) \in Queued /\ Queued' \subseteq Queued
        /\ wpc'[w] = "load" /\ job'[w] = Head(queue)
    BY <1>00, <1>1, QueuedTail DEF Deliver, Take, Go
  <2>2. HeldIds' \subseteq HeldIds
    BY <1>0, <1>1, <2>1, Holding, HoldingNext DEF Deliver, Take, storeVars
  <2>3. FreshIds' /\ IdsAreCounted'
    BY <2>2, IdsKept DEF apiVars, OneWorkerInv
  <2>4. DeliveriesAreHeld'
    <3>1. unacked' = {<<Head(queue), w>>}
      BY <1>0, <1>1 DEF Deliver, Take
    <3>2. QED
      BY <1>0, <2>1, <3>1 DEF DeliveriesAreHeld
  <2>5. RowsAreIts' /\ SomebodyWorks'
    BY <1>0, <1>1, <2>1 DEF Deliver, storeVars, apiVars, OneWorkerInv, RowsAreIts, SomebodyWorks,
       Unfinished, WorkerPc
  <2>6. QED
    BY <2>3, <2>4, <2>5 DEF OneWorkerInv
<1>2. CASE DropRevoked(w)
  <2>1. /\ Queued' \subseteq Queued /\ Queued \subseteq Queued' \cup {Head(queue)}
        /\ Head(queue) \in revoked[w]
        /\ UNCHANGED <<storeVars, workerVars, unacked, revoked>>
    BY <1>2, QueuedTail DEF DropRevoked, Discard
  <2>2. HeldIds' \subseteq HeldIds
    BY <2>1, Holding, HoldingNext DEF storeVars, workerVars
  <2>3. FreshIds' /\ IdsAreCounted'
    BY <2>2, IdsKept DEF apiVars, OneWorkerInv
  <2>4. DeliveriesAreHeld' /\ RowsAreIts'
    BY <2>1 DEF storeVars, workerVars, apiVars, OneWorkerInv, DeliveriesAreHeld, RowsAreIts
  <2>5. ASSUME SomebodyWorks PROVE SomebodyWorks'
    <3>1. \A id : NotRevoked(id) => NotRevoked(id)' /\ id # Head(queue)
      BY <2>1 DEF NotRevoked, apiVars
    <3>2. UNCHANGED <<Enqueuing, wpc>>
      BY <2>1 DEF Enqueuing, apiVars, workerVars
    <3>3. QED
      BY <2>1, <2>5, <3>1, <3>2 DEF SomebodyWorks
  <2>6. QED
    BY <2>1, <2>3, <2>4, <2>5 DEF storeVars, OneWorkerInv
<1>3. CASE Ack(w)
  <2>1. /\ UNCHANGED <<storeVars, queue, revoked>>
        /\ wpc[w] = "ack" /\ wpc'[w] = "idle" /\ job'[w] = 0
        /\ unacked' = {} /\ ed'[w] = 0
    BY <1>0, <1>00, <1>3 DEF Ack, Acknowledge, ResetWorker, Go, CloseSession, IInv,
       WorkerInv, WorkerTypeOK
  <2>2. HeldIds' \subseteq HeldIds \cup {0}
    <3>1. UNCHANGED Queued
      BY <2>1 DEF Queued
    <3> DEFINE Y == HeldIds \cup {0}
    <3>2. Queued' \subseteq Y /\ taskId' \in Y
      BY <2>1, <3>1, Holding DEF storeVars
    <3>3. \A v \in Workers : job'[v] \in Y /\ revoked'[v] \subseteq Y
      BY <1>0, <2>1, Holding
    <3> HIDE DEF Y
    <3>4. HeldIds' \subseteq Y
      BY <3>2, <3>3, HoldingNext
    <3>5. QED
      BY <3>4 DEF Y
  <2>3. FreshIds' /\ IdsAreCounted'
    BY <2>2, IdsKept DEF apiVars, OneWorkerInv
  <2>4. DeliveriesAreHeld' /\ RowsAreIts'
    BY <1>0, <2>1 DEF storeVars, apiVars, OneWorkerInv, DeliveriesAreHeld, RowsAreIts
  <2>5. ASSUME SomebodyWorks PROVE SomebodyWorks'
    <3>1. Enqueuing \/ \E id \in Queued : NotRevoked(id)
      BY <1>0, <2>1, <2>5 DEF SomebodyWorks, Unfinished
    <3>2. UNCHANGED <<Enqueuing, Queued>> /\ \A id : NotRevoked(id) => NotRevoked(id)'
      BY <2>1 DEF Enqueuing, Queued, NotRevoked, apiVars
    <3>3. QED
      BY <3>1, <3>2 DEF SomebodyWorks
  <2>6. QED
    BY <2>1, <2>3, <2>4, <2>5 DEF storeVars, OneWorkerInv
<1>4. CASE \E m \in unacked : RestoreUnacked(m)
  BY <1>0, <1>4 DEF RestoreUnacked
<1>5. QED
  BY <1>1, <1>2, <1>3, <1>4

------------------------------------------------------------------------------
(* One worker: the requests' steps *)

(* A step of a request that leaves the worker and the broker alone.        *)
LEMMA RequestKeeps ==
    ASSUME IInv, OneWorkerInv, FreshIds', IdsAreCounted', UNCHANGED <<brokerVars, workerVars>>,
           UNCHANGED edition, checkpoints' \subseteq checkpoints,
           \A q \in Requests : rpc'[q] # "update",
           \/ Enqueuing'
           \/ status' \notin Active
           \/ /\ UNCHANGED status
              /\ Enqueuing => Enqueuing'
              /\ \A q \in Requests : rpc'[q] = "revoke" => rpc[q] = "revoke" /\ rtask'[q] = rtask[q]
    PROVE  OneWorkerInv'
<1>1. DeliveriesAreHeld' /\ RowsAreIts'
  BY DEF brokerVars, workerVars, OneWorkerInv, DeliveriesAreHeld, RowsAreIts
<1>2. UNCHANGED <<Queued, wpc>>
  BY DEF Queued, brokerVars, workerVars
<1>3. ASSUME status' \in Active PROVE SomebodyWorks'
  <2>1. CASE Enqueuing'
    BY <2>1 DEF SomebodyWorks
  <2>2. CASE /\ UNCHANGED status
             /\ Enqueuing => Enqueuing'
             /\ \A q \in Requests : rpc'[q] = "revoke" => rpc[q] = "revoke" /\ rtask'[q] = rtask[q]
    <3>1. \A id : NotRevoked(id) => NotRevoked(id)'
      BY <2>2 DEF NotRevoked, brokerVars
    <3>2. SomebodyWorks
      BY <1>3, <2>2 DEF OneWorkerInv
    <3>3. QED
      BY <1>2, <2>2, <3>1, <3>2 DEF SomebodyWorks
  <2>3. QED
    BY <1>3, <2>1, <2>2
<1>4. QED
  BY <1>1, <1>3 DEF OneWorkerInv

(* A step of a request keeps what one worker guarantees.                   *)
LEMMA RequestActionsKeep ==
    ASSUME OneWorkerDeployment, IInv, OneWorkerInv, NEW r \in Requests,
           RequestStep(r) \/ NewRequest(r), UNCHANGED workerVars
    PROVE  OneWorkerInv'
<1>0. /\ rpc \in [Requests -> RequestPc]
      /\ rtask \in [Requests -> TaskIdSpace \cup {0}]
  BY DEF IInv, RequestInv, ApiTypeOK
<1>00. ASSUME NEW step \in RequestPc \ {"update"}, rpc' = [rpc EXCEPT ![r] = step]
       PROVE  \A q \in Requests : rpc'[q] # "update"
  BY <1>0, <1>00 DEF OneWorkerInv, RowsAreIts
<1>1. CASE StartLoad(r)
  <2>1. /\ UNCHANGED <<storeVars, brokerVars>> /\ starts' = starts + 1
        /\ rpc' = [rpc EXCEPT ![r] = "start"] /\ rtask' = [rtask EXCEPT ![r] = starts + 1]
        /\ rpc[r] = "idle"
    BY <1>1 DEF StartLoad, GoTo
  <2>2. HeldIds' \subseteq HeldIds
    <3>1. UNCHANGED Queued
      BY <2>1 DEF Queued, brokerVars
    <3>2. QED
      BY <2>1, <3>1, Holding, HoldingNext DEF storeVars, brokerVars, workerVars
  <2>3. /\ \A id \in HeldIds : id <= starts /\ id \in Nat
        /\ \A q \in Requests : rtask[q] <= starts /\ rtask[q] \in Nat
        /\ starts \in Nat
    BY HeldNat DEF OneWorkerInv, IdsAreCounted
  <2>4. /\ \A id \in HeldIds : id # starts + 1 /\ id <= starts + 1
        /\ \A q \in Requests : rtask[q] # starts + 1 /\ rtask[q] <= starts + 1
    BY <2>3
  <2>5. FreshIds'
    BY <1>0, <2>1, <2>2, <2>4 DEF FreshIds, OneWorkerInv
  <2>6. IdsAreCounted'
    BY <1>0, <2>1, <2>2, <2>3, <2>4 DEF IdsAreCounted
  <2>7. Enqueuing => Enqueuing'
    BY <1>0, <2>1 DEF Enqueuing
  <2>8. QED
    BY <1>0, <1>00, <2>1, <2>5, <2>6, <2>7, RequestKeeps DEF storeVars, RequestPc
<1>2. ASSUME NEW step \in RequestPc \ {"start"}, rpc' = [rpc EXCEPT ![r] = step],
             step = "enqueue" => rpc[r] = "start",
             \/ UNCHANGED rtask
             \/ step = "idle" /\ rtask' = [rtask EXCEPT ![r] = 0]
             \/ step = "cancel" /\ rtask' = [rtask EXCEPT ![r] = taskId],
             UNCHANGED starts, UNCHANGED workerVars,
             Queued' \subseteq HeldIds \cup {rtask[r]},
             taskId' \in HeldIds \cup {0, rtask[r]},
             \A w \in Workers : revoked'[w] \subseteq HeldIds \cup {rtask[r]},
             step = "enqueue" => UNCHANGED <<brokerVars, taskId>>
      PROVE  FreshIds' /\ IdsAreCounted'
  <2> DEFINE X == {rtask[q] : q \in {p \in Requests : rpc'[p] \notin {"start", "enqueue"}}}
  <2>1. HeldIds' \subseteq HeldIds \cup {0} \cup X
    <3>1. CASE step = "enqueue"
      <4>1. UNCHANGED Queued
        BY <1>2, <3>1 DEF Queued, brokerVars
      <4>2. QED
        BY <1>2, <3>1, <4>1, Holding, HoldingNext DEF brokerVars, workerVars
    <3>2. CASE step # "enqueue"
      <4>1. rtask[r] \in X
        BY <1>0, <1>2, <3>2
      <4> HIDE DEF X
      <4>2. Queued' \subseteq HeldIds \cup {0} \cup X
        BY <1>2, <4>1
      <4>3. taskId' \in HeldIds \cup {0} \cup X
        BY <1>2, <4>1
      <4>4. \A w \in Workers : job'[w] \in HeldIds /\ revoked'[w] \subseteq HeldIds \cup {0} \cup X
        BY <1>2, <4>1, Holding DEF workerVars
      <4>5. QED
        BY <4>2, <4>3, <4>4, HoldingNext
    <3>3. QED
      BY <3>1, <3>2
  <2>2. \A q \in Requests : rtask'[q] \in HeldIds \cup {0, rtask[q]}
    BY <1>0, <1>2, Holding
  <2>3. \A q \in Requests : rpc'[q] \in {"start", "enqueue"} =>
            rpc[q] \in {"start", "enqueue"} /\ rtask'[q] = rtask[q]
    BY <1>0, <1>2
  <2>4. X = {rtask[q] : q \in {p \in Requests : rpc'[p] \notin {"start", "enqueue"}}}
    OBVIOUS
  <2> HIDE DEF X
  <2>5. QED
    BY <1>2, <2>1, <2>2, <2>3, <2>4, IdsKept DEF OneWorkerInv
<1>3. CASE StartCommit(r)
  <2>1. /\ rpc' = [rpc EXCEPT ![r] = "enqueue"] /\ rpc[r] = "start"
        /\ UNCHANGED <<rtask, starts, brokerVars, taskId, edition, checkpoints>>
    BY <1>3 DEF StartCommit, Proceed, GoTo
  <2>2. FreshIds' /\ IdsAreCounted'
    BY <1>2, <2>1, Holding DEF brokerVars, Queued, RequestPc
  <2>3. Enqueuing'
    BY <1>0, <2>1 DEF Enqueuing
  <2>4. QED
    BY <1>00, <2>1, <2>2, <2>3, RequestKeeps DEF RequestPc
<1>4. CASE Enqueue(r) \/ EnqueueReplyLost(r)
  <2> PICK step \in {"record", "compensate"} :
        /\ rpc' = [rpc EXCEPT ![r] = step] /\ rpc[r] = "enqueue" /\ Publish(rtask[r])
        /\ UNCHANGED <<rtask, starts, storeVars>>
    BY <1>4 DEF Enqueue, EnqueueReplyLost, Proceed, GoTo
  <2>1. Queued' = Queued \cup {rtask[r]} /\ UNCHANGED <<unacked, revoked>>
    BY QueuedAppend DEF Publish
  <2>2. FreshIds' /\ IdsAreCounted'
    BY <1>2, <2>1, Holding DEF storeVars, RequestPc
  <2>3. NotRevoked(rtask[r])'
    <3>1. /\ \A w \in Workers : rtask[r] \notin revoked[w]
          /\ \A q \in Requests \ {r} : rtask[q] # rtask[r]
      BY Holding DEF OneWorkerInv, FreshIds
    <3>2. QED
      BY <1>0, <2>1, <3>1 DEF NotRevoked
  <2>4. SomebodyWorks'
    BY <2>1, <2>3 DEF SomebodyWorks
  <2>5. DeliveriesAreHeld' /\ RowsAreIts'
    BY <2>1 DEF storeVars, workerVars, OneWorkerInv, DeliveriesAreHeld, RowsAreIts
  <2>6. QED
    BY <2>2, <2>4, <2>5 DEF OneWorkerInv
<1>5. CASE EnqueueFails(r)
  <2>1. /\ rpc' = [rpc EXCEPT ![r] = "compensate"]
        /\ UNCHANGED <<rtask, starts, storeVars, brokerVars>>
    BY <1>5 DEF EnqueueFails, Proceed, GoTo
  <2>2. FreshIds' /\ IdsAreCounted'
    BY <1>2, <2>1, Holding DEF storeVars, brokerVars, Queued, RequestPc
  <2>3. Enqueuing'
    BY <1>0, <2>1 DEF Enqueuing
  <2>4. QED
    BY <1>00, <2>1, <2>2, <2>3, RequestKeeps DEF storeVars, RequestPc
<1>6. CASE \/ StartCommitStale(r) \/ Compensate(r) \/ RecordTaskId(r)
           \/ CancelCommitStale(r) \/ DeleteCommit(r)
  <2>1. /\ rpc' = [rpc EXCEPT ![r] = "idle"] /\ rtask' = [rtask EXCEPT ![r] = 0]
        /\ UNCHANGED <<starts, brokerVars>>
        /\ rpc[r] \in {"compensate", "delete"} => status' \notin Active
        /\ rpc[r] \notin {"compensate", "delete"} => UNCHANGED status
        /\ rpc[r] # "enqueue"
    BY <1>6 DEF StartCommitStale, Compensate, RecordTaskId, CancelCommitStale,
       DeleteCommit, EndRequest, GoTo, SetStatus, DropRow, storeVars, Active
  <2>2. /\ taskId' \in {0, taskId, rtask[r]} /\ UNCHANGED edition
        /\ checkpoints' \subseteq checkpoints
    BY <1>6 DEF StartCommitStale, Compensate, RecordTaskId, CancelCommitStale,
       DeleteCommit, SetStatus, DropRow, storeVars
  <2>3. FreshIds' /\ IdsAreCounted'
    BY <1>2, <2>1, <2>2, Holding DEF brokerVars, Queued, RequestPc
  <2>4. rpc[r] \notin {"compensate", "delete"} => (Enqueuing => Enqueuing')
    BY <1>0, <2>1 DEF Enqueuing
  <2>5. \A q \in Requests : rpc'[q] = "revoke" => rpc[q] = "revoke" /\ rtask'[q] = rtask[q]
    BY <1>0, <2>1
  <2>6. QED
    BY <1>00, <2>1, <2>2, <2>3, <2>4, <2>5, RequestKeeps DEF RequestPc
<1>7. CASE CancelLoad(r)
  <2>1. /\ rpc' = [rpc EXCEPT ![r] = "cancel"] /\ rtask' = [rtask EXCEPT ![r] = taskId]
        /\ rpc[r] = "idle" /\ UNCHANGED <<starts, storeVars, brokerVars>>
    BY <1>7 DEF CancelLoad, GoTo
  <2>2. FreshIds' /\ IdsAreCounted'
    BY <1>2, <2>1, Holding DEF storeVars, brokerVars, Queued, RequestPc
  <2>3. Enqueuing => Enqueuing'
    BY <1>0, <2>1 DEF Enqueuing
  <2>4. \A q \in Requests : rpc'[q] = "revoke" => rpc[q] = "revoke" /\ rtask'[q] = rtask[q]
    BY <1>0, <2>1
  <2>5. QED
    BY <1>00, <2>1, <2>2, <2>3, <2>4, RequestKeeps DEF storeVars, RequestPc
<1>8. CASE DeleteLoad(r)
  <2>1. /\ rpc' = [rpc EXCEPT ![r] = "delete"] /\ rpc[r] = "idle"
        /\ UNCHANGED <<rtask, starts, storeVars, brokerVars>>
    BY <1>8 DEF DeleteLoad, GoTo
  <2>2. FreshIds' /\ IdsAreCounted'
    BY <1>2, <2>1, Holding DEF storeVars, brokerVars, Queued, RequestPc
  <2>3. Enqueuing => Enqueuing'
    BY <1>0, <2>1 DEF Enqueuing
  <2>4. \A q \in Requests : rpc'[q] = "revoke" => rpc[q] = "revoke" /\ rtask'[q] = rtask[q]
    BY <1>0, <2>1
  <2>5. QED
    BY <1>00, <2>1, <2>2, <2>3, <2>4, RequestKeeps DEF storeVars, RequestPc
<1>9. CASE CancelCommit(r)
  <2>1. /\ \/ rpc' = [rpc EXCEPT ![r] = "idle"] /\ rtask' = [rtask EXCEPT ![r] = 0]
           \/ rpc' = [rpc EXCEPT ![r] = "revoke"] /\ rtask' = rtask
        /\ UNCHANGED <<starts, brokerVars, taskId, edition, checkpoints>>
        /\ status' \notin Active
    BY <1>9 DEF CancelCommit, EndRequest, Proceed, GoTo, SetStatus, Active
  <2>2. FreshIds' /\ IdsAreCounted'
    BY <1>2, <2>1, Holding DEF brokerVars, Queued, RequestPc
  <2>3. QED
    BY <1>00, <2>1, <2>2, RequestKeeps DEF RequestPc
<1>10. CASE Revoke(r)
  <2>1. /\ rpc' = [rpc EXCEPT ![r] = "idle"] /\ rtask' = [rtask EXCEPT ![r] = 0]
        /\ rpc[r] = "revoke" /\ UNCHANGED <<starts, storeVars, queue, unacked>>
        /\ \A w \in Workers : revoked'[w] \subseteq revoked[w] \cup {rtask[r]}
    BY <1>10 DEF Revoke, RevokeTask, EndRequest, GoTo
  <2>2. FreshIds' /\ IdsAreCounted'
    BY <1>2, <2>1, Holding DEF storeVars, Queued, RequestPc
  <2>3. \A id : NotRevoked(id) => NotRevoked(id)'
    BY <1>0, <2>1 DEF NotRevoked
  <2>4. Enqueuing => Enqueuing'
    BY <1>0, <2>1 DEF Enqueuing
  <2>5. UNCHANGED <<Queued, wpc>>
    BY <2>1 DEF Queued, workerVars
  <2>6. SomebodyWorks => SomebodyWorks'
    BY <2>3, <2>4, <2>5 DEF SomebodyWorks
  <2>7. DeliveriesAreHeld' /\ RowsAreIts'
    BY <2>1 DEF storeVars, workerVars, OneWorkerInv, DeliveriesAreHeld, RowsAreIts
  <2>8. QED
    BY <2>1, <2>2, <2>6, <2>7 DEF storeVars, OneWorkerInv
<1>11. CASE UpdateLoad(r)
  BY <1>11 DEF UpdateLoad, OneWorkerDeployment
<1>12. CASE UpdateCommit(r) \/ UpdateCommitStale(r)
  BY <1>12 DEF UpdateCommit, UpdateCommitStale, OneWorkerInv, RowsAreIts
<1>13. QED
  BY <1>1, <1>3, <1>4, <1>5, <1>6, <1>7, <1>8, <1>9, <1>10, <1>11, <1>12
     DEF RequestStep, NewRequest

(* Every step keeps the invariant.                                         *)
LEMMA OneWorkerStep ==
    ASSUME OneWorkerDeployment, IInv, OneWorkerInv, [Next]_vars
    PROVE  OneWorkerInv'
<1>1. CASE UNCHANGED vars
  BY <1>1 DEF vars, storeVars, brokerVars, apiVars, workerVars, OneWorkerInv, FreshIds,
     IdsAreCounted, HeldIds, Queued, DeliveriesAreHeld, RowsAreIts, SomebodyWorks,
     Enqueuing, NotRevoked
<1>2. ASSUME NEW r \in Requests, Client(r) \/ Request(r)
      PROVE  OneWorkerInv'
  BY <1>2, RequestActionsKeep DEF Client, Request
<1>3. ASSUME NEW w \in Workers, Task(w) \/ Exit(w) \/ Poll(w)
      PROVE  OneWorkerInv'
  <2>1. UNCHANGED apiVars /\ (TaskStep(w) \/ EngineExit(w) \/ EnginePoll(w))
    BY <1>3 DEF Task, Exit, Poll
  <2>2. QED
    BY <2>1, WorkerActionsKeep, BrokerActionsKeep DEF TaskStep, EngineExit, EnginePoll
<1>4. CASE Restore
  <2>1. PICK m \in unacked : RestoreUnacked(m) /\ UNCHANGED apiVars
    BY <1>4 DEF Restore
  <2>2. PICK w \in Workers : wpc[w] = "idle"
    BY <2>1 DEF RestoreUnacked
  <2>3. QED
    BY <2>1, <2>2, BrokerActionsKeep
<1>5. ASSUME NEW r \in Requests, ApiDeath(r) PROVE FALSE
  BY <1>5 DEF ApiDeath, Death, OneWorkerDeployment
<1>6. ASSUME NEW w \in Workers, WorkerDeath(w) PROVE FALSE
  BY <1>6 DEF WorkerDeath, Death, OneWorkerDeployment
<1>7. QED
  BY <1>1, <1>2, <1>3, <1>4, <1>5, <1>6 DEF Next

------------------------------------------------------------------------------
(* One worker: what it keeps *)

(* The two invariants together are inductive.                              *)
THEOREM OneWorkerInvariance ==
    ASSUME OneWorkerDeployment
    PROVE  Spec => [](IInv /\ OneWorkerInv)
<1>1. Init => IInv /\ OneWorkerInv
  BY InitInv, OneWorkerInit
<1>2. IInv /\ OneWorkerInv /\ [Next]_vars => (IInv /\ OneWorkerInv)'
  BY StepInv, OneWorkerStep
<1>3. QED
  BY <1>1, <1>2, PTL DEF Spec

(* Somebody works on every migration that says PENDING or RUNNING: a start *)
(* that is publishing its task or taking PENDING back, a message nobody    *)
(* will drop, or the worker.  Deletes, cancels, restarts and publishing    *)
(* that fails may come in any number and order.                            *)
THEOREM NoJobIsStranded ==
    ASSUME OneWorkerDeployment
    PROVE  Spec => []NoStrandedJob
<1>1. IInv /\ OneWorkerInv => NoStrandedJob
  <2> SUFFICES ASSUME IInv, OneWorkerInv, status \in Active
               PROVE  Enqueuing \/ \E id \in TaskIdSpace : LiveTask(id)
    BY DEF NoStrandedJob
  <2>1. SomebodyWorks
    BY DEF OneWorkerInv
  <2>2. ASSUME NEW w \in Workers, wpc[w] \in Unfinished
        PROVE  \E id \in TaskIdSpace : LiveTask(id)
    <3>1. <<job[w], w>> \in unacked
      BY <2>2 DEF OneWorkerInv, DeliveriesAreHeld, Unfinished
    <3>2. job[w] \in TaskIdSpace
      BY <3>1 DEF IInv, BrokerInv
    <3>3. LiveTask(job[w])
      BY <3>1 DEF LiveTask
    <3>4. QED
      BY <3>2, <3>3
  <2>3. ASSUME NEW id \in Queued
        PROVE  \E t \in TaskIdSpace : LiveTask(t)
    <3>1. id \in TaskIdSpace
      BY HeldNat
    <3>2. LiveTask(id)
      BY DEF Queued, LiveTask
    <3>3. QED
      BY <3>1, <3>2
  <2>4. QED
    BY <2>1, <2>2, <2>3 DEF SomebodyWorks
<1>2. QED
  BY <1>1, OneWorkerInvariance, PTL

==============================================================================
