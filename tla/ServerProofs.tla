---------------------------- MODULE ServerProofs ----------------------------
(****************************************************************************)
(* Theorems about the HTTP server: about Server for any number of calls,    *)
(* workers and edits, and in the second half about TokenCheck for any       *)
(* number of requests and keys and all times: what the cache knows of the   *)
(* issuer is bounded by its age, and the two floors space the fetches.      *)
(****************************************************************************)
EXTENDS Server, TokenCheck, FiniteSetTheorems, TLAPS

Storing(where) == {c \in Calls : where[c] = "storing"}

(* The gate counts the calls it admitted that have not ended.               *)
GateCounts ==
  server # "closed" => gate.inflight = Cardinality(Storing(calls))

(* What a disabling rests on: from CloseGate to its report the gate stays     *)
(* closed, so that "closed" of the drain, once it is said, remains true.    *)
DrainIsSound ==
  /\ reload.pc \in {"deleting", "draining", "disabled"} => ~gate.open
  /\ reload.pc = "disabled" => gate.drained = "closed"
  /\ ~gate.open /\ gate.drained = "closed" => gate.inflight = 0

(* A worker that passed the check and has not begun its job passed it before  *)
(* the file stopped allowing it, and began none since.                      *)
LateIsFresh ==
  /\ late \in [Workers -> 0..1]
  /\ ~WorkerAllowed => \A w \in Workers : workers[w] = "allowed" => late[w] = 0

IInv ==
  /\ TypeOK
  /\ left \in Nat
  /\ GateCounts
  /\ DrainIsSound
  /\ NoReloadOutlives
  /\ LateIsFresh

-----------------------------------------------------------------------------
(* Counting.                                                                *)

LEMMA StoringIsFinite ==
  ASSUME NEW where
  PROVE  /\ IsFiniteSet(Storing(where))
         /\ Cardinality(Storing(where)) \in 0..Cardinality(Calls)
<1>1. Storing(where) \subseteq Calls  BY DEF Storing
<1>2. IsFiniteSet(Calls)  BY ServerAssumption
<1>3. /\ IsFiniteSet(Storing(where))
      /\ Cardinality(Storing(where)) <= Cardinality(Calls)
  BY <1>1, <1>2, FS_Subset
<1>4. Cardinality(Storing(where)) \in Nat /\ Cardinality(Calls) \in Nat
  BY <1>2, <1>3, FS_CardinalityType
<1>5. QED BY <1>3, <1>4

(* A call that is admitted is one more, one that ends is one less.          *)
LEMMA OneMore ==
  ASSUME NEW where \in [Calls -> {"out", "found", "storing"}], NEW c \in Calls,
         where[c] # "storing"
  PROVE  Cardinality(Storing([where EXCEPT ![c] = "storing"])) = Cardinality(Storing(where)) + 1
<1>1. Storing([where EXCEPT ![c] = "storing"]) = Storing(where) \cup {c}  BY DEF Storing
<1>2. c \notin Storing(where)  BY DEF Storing
<1>3. QED BY <1>1, <1>2, StoringIsFinite, FS_AddElement

LEMMA OneLess ==
  ASSUME NEW where \in [Calls -> {"out", "found", "storing"}], NEW c \in Calls,
         where[c] = "storing"
  PROVE  Cardinality(Storing([where EXCEPT ![c] = "out"])) = Cardinality(Storing(where)) - 1
<1>1. Storing([where EXCEPT ![c] = "out"]) = Storing(where) \ {c}  BY DEF Storing
<1>2. c \in Storing(where)  BY DEF Storing
<1>3. QED BY <1>1, <1>2, StoringIsFinite, FS_RemoveElement

LEMMA NobodyMoves ==
  ASSUME NEW where \in [Calls -> {"out", "found", "storing"}], NEW c \in Calls,
         where[c] # "storing", NEW to \in {"out", "found"}
  PROVE  Storing([where EXCEPT ![c] = to]) = Storing(where)
  BY DEF Storing

-----------------------------------------------------------------------------
(* The record of a reload, and its updates.                                 *)

Reloads == [pc : {"idle", "loading", "checking", "opening", "adding", "closing", "deleting",
                  "draining", "disabled"}, was : BOOLEAN, want : BOOLEAN]

LEMMA ReloadFacts ==
  /\ Idle \in Reloads
  /\ [Idle EXCEPT !.pc = "disabled"] \in Reloads
  /\ \A open \in BOOLEAN : [Idle EXCEPT !.pc = "loading", !.was = open] \in Reloads
  /\ \A r \in Reloads, pc \in {"checking", "opening", "adding", "deleting", "draining", "closing"} :
       /\ [r EXCEPT !.pc = pc] \in Reloads
       /\ \A want \in BOOLEAN : [r EXCEPT !.pc = pc, !.want = want] \in Reloads
  BY DEF Reloads, Idle

(* A reload ends with the reading of the config, or goes on to enable or to     *)
(* disable.                                                                 *)
LEMMA LoadOutcome ==
  ASSUME LoadConfig
  PROVE  \/ reload' = Idle
         \/ \E want \in BOOLEAN :
              reload' = [reload EXCEPT !.pc = IF want THEN "checking" ELSE "closing",
                                       !.want = want]
<1>1. (file \in {"on", "blocked"}) \in BOOLEAN  OBVIOUS
<1>2. QED BY <1>1, Zenon DEF LoadConfig

-----------------------------------------------------------------------------
LEMMA InitIInv == Init => IInv
<1>1. SUFFICES ASSUME Init PROVE IInv  OBVIOUS
<1>2. Storing(calls) = {}  BY <1>1 DEF Init, Storing
<1>3. Cardinality(Storing(calls)) = 0  BY <1>2, FS_EmptySet
<1>4. Cardinality(Calls) \in Nat  BY ServerAssumption, FS_CardinalityType
<1>5. TypeOK
  <2>1. gate \in [open : BOOLEAN, inflight : 0..Cardinality(Calls),
                 drained : {"none", "waiting", "closed"}]
    <3>1. (file = "on") \in BOOLEAN  OBVIOUS
    <3>2. 0 \in 0..Cardinality(Calls)  BY <1>4
    <3>3. QED BY <1>1, <3>1, <3>2, Zenon DEF Init
  <2>2. reload \in Reloads  BY <1>1, ReloadFacts DEF Init
  <2>3. listed \in BOOLEAN  BY <1>1 DEF Init
  <2>4. file \in Settings /\ hups \in 0..1 /\ pending \in 0..1  BY <1>1 DEF Init, Settings
  <2>5. cancelled \in BOOLEAN  BY <1>1 DEF Init
  <2>6. /\ calls \in [Calls -> {"out", "found", "storing"}]
        /\ workers \in [Workers -> {"polling", "allowed", "running"}]
        /\ server \in {"serving", "stopping", "joining", "closed"}
    BY <1>1 DEF Init
  <2>7. QED BY <2>1, <2>2, <2>3, <2>4, <2>5, <2>6, Zenon DEF TypeOK, Reloads
<1>6. GateCounts  BY <1>1, <1>3 DEF Init, GateCounts
<1>7. DrainIsSound /\ NoReloadOutlives
  BY <1>1 DEF Init, DrainIsSound, NoReloadOutlives, Idle
<1>8. LateIsFresh /\ left \in Nat
  BY <1>1, ServerAssumption DEF Init, LateIsFresh
<1>9. QED BY <1>5, <1>6, <1>7, <1>8 DEF IInv

(* Steps of the file and of the workers leave the gate alone.               *)
LEMMA EditStep ==
  ASSUME IInv, NEW setting \in Settings, EditConfig(setting) PROVE IInv'
<1>1. TypeOK' /\ left' \in Nat
  BY ServerAssumption DEF IInv, EditConfig, TypeOK, Settings
<1>2. GateCounts' /\ DrainIsSound' /\ NoReloadOutlives'
  BY DEF IInv, EditConfig, GateCounts, DrainIsSound, NoReloadOutlives
<1>3. LateIsFresh'
  <2>1. CASE WorkerAllowed
    BY <2>1 DEF EditConfig, LateIsFresh
  <2>2. CASE ~WorkerAllowed
    BY <2>2 DEF IInv, EditConfig, LateIsFresh, WorkerAllowed
  <2>3. QED BY <2>1, <2>2
<1>4. QED BY <1>1, <1>2, <1>3 DEF IInv

LEMMA WorkerStep ==
  ASSUME IInv, NEW w \in Workers, CheckGate(w) \/ RunJob(w) \/ JobEnds(w) PROVE IInv'
<1>1. TypeOK' /\ left' \in Nat
  BY DEF IInv, CheckGate, RunJob, JobEnds, TypeOK, running
<1>2. GateCounts' /\ DrainIsSound' /\ NoReloadOutlives'
  BY DEF IInv, CheckGate, RunJob, JobEnds, running, GateCounts, DrainIsSound, NoReloadOutlives
<1>3. LateIsFresh'
  <2>1. CASE CheckGate(w)
    BY <2>1 DEF IInv, CheckGate, LateIsFresh, WorkerAllowed
  <2>2. CASE RunJob(w)
    BY <2>2 DEF IInv, RunJob, LateIsFresh, WorkerAllowed, TypeOK
  <2>3. CASE JobEnds(w)
    BY <2>3 DEF IInv, JobEnds, LateIsFresh, WorkerAllowed, TypeOK
  <2>4. QED BY <2>1, <2>2, <2>3
<1>4. QED BY <1>1, <1>2, <1>3 DEF IInv

LEMMA LifeStep ==
  ASSUME IInv, Terminate \/ ServeStep PROVE IInv'
<1>1. TypeOK' /\ left' \in Nat
  <2>1. CASE Terminate \/ ShutDown  BY <2>1, Zenon DEF IInv, Terminate, ShutDown, TypeOK
  <2>2. CASE TakeSignal
    <3>1. Queued \in 0..1 /\ 0 \in 0..1  BY DEF Queued
    <3>2. QED BY <2>2, <3>1, Zenon DEF IInv, TakeSignal, TypeOK
  <2>3. CASE CloseArchive
    <3>1. calls' \in [Calls -> {"out", "found", "storing"}]  BY <2>3 DEF CloseArchive
    <3>2. QED BY <2>3, <3>1, Zenon DEF IInv, CloseArchive, TypeOK
  <2>4. QED BY <2>1, <2>2, <2>3 DEF ServeStep
<1>2. GateCounts'
  BY DEF IInv, Terminate, ServeStep, TakeSignal, ShutDown, CloseArchive, GateCounts, TypeOK
<1>3. DrainIsSound' /\ NoReloadOutlives'
  BY DEF IInv, Terminate, ServeStep, TakeSignal, ShutDown, CloseArchive, Joined, Queued,
         DrainIsSound, NoReloadOutlives
<1>4. LateIsFresh'
  BY DEF IInv, Terminate, ServeStep, TakeSignal, ShutDown, CloseArchive, LateIsFresh,
         WorkerAllowed
<1>5. QED BY <1>1, <1>2, <1>3, <1>4 DEF IInv

(* Steps of a reload: only OpenGate and CloseGate change the gate, and they   *)
(* leave its count alone.                                                   *)
LEMMA ReloadIInv ==
  ASSUME IInv, server # "closed", ReloadStep \/ DrainGivenUp PROVE IInv'
<1> USE DEF running
<1>1. TypeOK' /\ left' \in Nat
  <2>1. gate.open \in BOOLEAN /\ reload \in Reloads  BY DEF IInv, TypeOK, Reloads
  <2>2. reload' \in Reloads
    <3>1. CASE BeginReload  BY <2>1, <3>1, ReloadFacts, Zenon DEF BeginReload
    <3>2. CASE LoadConfig
      <4>1. CASE reload' = Idle  BY <4>1, ReloadFacts
      <4>2. CASE \E want \in BOOLEAN :
                   reload' = [reload EXCEPT !.pc = IF want THEN "checking" ELSE "closing",
                                            !.want = want]
        <5>1. PICK want \in BOOLEAN : reload' = [reload EXCEPT
                                  !.pc = IF want THEN "checking" ELSE "closing", !.want = want]
          BY <4>2
        <5>2. (IF want THEN "checking" ELSE "closing")
                \in {"checking", "opening", "adding", "deleting", "draining", "closing"}
          OBVIOUS
        <5>3. QED BY <2>1, <5>1, <5>2, ReloadFacts, Zenon
      <4>3. QED BY <3>2, <4>1, <4>2, LoadOutcome
    <3>3. CASE CheckActivation \/ OpenGate \/ CloseGate \/ DeleteTools
      BY <2>1, <3>3, ReloadFacts DEF CheckActivation, OpenGate, CloseGate, DeleteTools, Goto
    <3>4. CASE AddTools \/ Drained \/ DrainGivenUp \/ ReloadReturns
      BY <3>4, ReloadFacts DEF AddTools, Drained, DrainGivenUp, ReloadReturns
    <3>5. QED BY <3>1, <3>2, <3>3, <3>4 DEF ReloadStep
  <2>3. gate' \in [open : BOOLEAN, inflight : 0..Cardinality(Calls),
                  drained : {"none", "waiting", "closed"}]
    <3>1. CASE OpenGate  BY <3>1 DEF IInv, TypeOK, OpenGate, Opened
    <3>2. CASE CloseGate  BY <3>2 DEF IInv, TypeOK, CloseGate, Closed
    <3>3. CASE gate' = gate  BY <3>3 DEF IInv, TypeOK
    <3>4. QED
      BY <3>1, <3>2, <3>3 DEF ReloadStep, BeginReload, LoadConfig, CheckActivation, AddTools,
                              DeleteTools, Drained, DrainGivenUp, ReloadReturns
  <2>4. pending' \in 0..1
    BY DEF IInv, TypeOK, ReloadStep, BeginReload, LoadConfig, CheckActivation, OpenGate, AddTools,
           CloseGate, DeleteTools, Drained, DrainGivenUp, ReloadReturns
  <2>5. listed' \in BOOLEAN
    BY Zenon DEF IInv, TypeOK, ReloadStep, BeginReload, LoadConfig, CheckActivation, OpenGate,
           AddTools, CloseGate, DeleteTools, Drained, DrainGivenUp, ReloadReturns
  <2>6. UNCHANGED <<file, hups, server, cancelled, calls, workers, left>>
    BY DEF ReloadStep, BeginReload, LoadConfig, CheckActivation, OpenGate, AddTools,
           CloseGate, DeleteTools, Drained, DrainGivenUp, ReloadReturns
  <2>7. QED BY <2>2, <2>3, <2>4, <2>5, <2>6, Zenon DEF IInv, TypeOK, Reloads
<1>2. GateCounts' /\ NoReloadOutlives'
  <2>1. server' = server /\ calls' = calls /\ gate'.inflight = gate.inflight
    BY DEF IInv, TypeOK, ReloadStep, BeginReload, LoadConfig, CheckActivation, OpenGate, AddTools,
           CloseGate, DeleteTools, Drained, DrainGivenUp, ReloadReturns, Opened, Closed
  <2>2. QED BY <2>1 DEF IInv, GateCounts, NoReloadOutlives
<1>3. DrainIsSound'
  <2>1. CASE gate' = gate /\ reload' = reload  BY <2>1, Zenon DEF IInv, DrainIsSound
  <2>2. CASE gate' = gate /\ reload'.pc \in {"idle", "loading", "checking", "closing"}
    <3>1. reload'.pc \notin {"deleting", "draining", "disabled"}  BY <2>2
    <3>2. QED BY <2>2, <3>1, Zenon DEF IInv, DrainIsSound
  <2>3. CASE CheckActivation BY <2>3 DEF IInv, DrainIsSound, TypeOK, CheckActivation, Goto, Idle
  <2>4. CASE OpenGate BY <2>4 DEF IInv, DrainIsSound, TypeOK, OpenGate, Opened, Goto
  <2>5. CASE AddTools BY <2>5 DEF IInv, DrainIsSound, TypeOK, AddTools, Idle
  <2>6. CASE CloseGate BY <2>6 DEF IInv, DrainIsSound, TypeOK, CloseGate, Closed, Goto
  <2>7. CASE DeleteTools BY <2>7 DEF IInv, DrainIsSound, TypeOK, DeleteTools, Goto
  <2>8. CASE Drained \/ DrainGivenUp \/ ReloadReturns
    BY <2>8 DEF IInv, DrainIsSound, TypeOK, Drained, DrainGivenUp, ReloadReturns, Idle
  <2>9. CASE BeginReload \/ LoadConfig
    <3>1. gate' = gate  BY <2>9 DEF BeginReload, LoadConfig
    <3>2. reload' = reload \/ reload'.pc \in {"idle", "loading", "checking", "closing"}
      <4>1. CASE BeginReload  BY <4>1 DEF BeginReload, Idle
      <4>2. CASE LoadConfig
        <5>1. CASE reload' = Idle  BY <5>1 DEF Idle
        <5>2. ASSUME NEW want \in BOOLEAN,
                     reload' = [reload EXCEPT !.pc = IF want THEN "checking" ELSE "closing",
                                              !.want = want]
              PROVE  reload'.pc \in {"checking", "closing"}
          BY <5>2 DEF IInv, TypeOK
        <5>3. QED BY <4>2, <5>1, <5>2, LoadOutcome
      <4>3. QED BY <2>9, <4>1, <4>2
    <3>3. QED BY <2>1, <2>2, <3>1, <3>2
  <2>10. QED BY <2>3, <2>4, <2>5, <2>6, <2>7, <2>8, <2>9 DEF ReloadStep
<1>4. LateIsFresh'
  BY DEF IInv, LateIsFresh, WorkerAllowed, ReloadStep, BeginReload, LoadConfig, CheckActivation,
         OpenGate, AddTools, CloseGate, DeleteTools, Drained, DrainGivenUp, ReloadReturns
<1>5. QED BY <1>1, <1>2, <1>3, <1>4 DEF IInv

LEMMA CallIInv ==
  ASSUME IInv, server # "closed", NEW c \in Calls,
         LookUpHandler(c) \/ EnterGate(c) \/ CallEnds(c)
  PROVE  IInv'
<1> USE DEF running
<1>1. calls \in [Calls -> {"out", "found", "storing"}] /\ gate.inflight \in Nat
  <2>1. Cardinality(Calls) \in Nat  BY ServerAssumption, FS_CardinalityType
  <2>2. QED BY <2>1 DEF IInv, TypeOK
<1>2. GateCounts'
  <2>1. CASE LookUpHandler(c)
    BY <2>1, <1>1, NobodyMoves DEF IInv, GateCounts, LookUpHandler
  <2>2. CASE EnterGate(c)
    <3>1. CASE Enter /\ gate' = [gate EXCEPT !.inflight = @ + 1]
                     /\ calls' = [calls EXCEPT ![c] = "storing"]
      <4>1. Cardinality(Storing(calls')) = Cardinality(Storing(calls)) + 1
        <5>1. calls[c] # "storing"  BY <2>2 DEF EnterGate
        <5>2. QED BY <1>1, <3>1, <5>1, OneMore
      <4>2. gate'.inflight = gate.inflight + 1  BY <3>1 DEF IInv, TypeOK
      <4>3. server' = server  BY <2>2 DEF EnterGate
      <4>4. QED BY <4>1, <4>2, <4>3 DEF IInv, GateCounts
    <3>2. CASE ~Enter
      BY <2>2, <3>2, <1>1, NobodyMoves DEF IInv, GateCounts, EnterGate
    <3>3. QED BY <2>2, <3>1, <3>2 DEF EnterGate
  <2>3. CASE CallEnds(c)
    <3>1. calls[c] = "storing" /\ calls' = [calls EXCEPT ![c] = "out"]  BY <2>3 DEF CallEnds
    <3>2. Cardinality(Storing(calls')) = Cardinality(Storing(calls)) - 1
      BY <1>1, <3>1, OneLess
    <3>3. gate'.inflight = gate.inflight - 1  BY <2>3 DEF IInv, TypeOK, CallEnds, Released
    <3>4. server' = server  BY <2>3 DEF CallEnds
    <3>5. QED BY <3>2, <3>3, <3>4 DEF IInv, GateCounts
  <2>4. QED BY <2>1, <2>2, <2>3
<1>3. TypeOK' /\ left' \in Nat
  <2>1. server' = server  BY DEF LookUpHandler, EnterGate, CallEnds
  <2>2. gate'.inflight \in 0..Cardinality(Calls)
    BY <2>1, <1>2, StoringIsFinite DEF GateCounts
  <2>3. CASE LookUpHandler(c)  BY <2>3 DEF IInv, TypeOK, LookUpHandler
  <2>4. CASE EnterGate(c)  BY <2>4, <2>2 DEF IInv, TypeOK, EnterGate
  <2>5. CASE CallEnds(c)  BY <2>5, <2>2 DEF IInv, TypeOK, CallEnds, Released
  <2>6. QED BY <2>3, <2>4, <2>5
<1>4. DrainIsSound'
  <2>1. CASE LookUpHandler(c)  BY <2>1 DEF IInv, DrainIsSound, LookUpHandler
  <2>2. CASE EnterGate(c)  BY <2>2 DEF IInv, DrainIsSound, EnterGate, Enter, TypeOK
  <2>3. CASE CallEnds(c)
    <3>1. gate.inflight # 0
      <4>1. c \in Storing(calls)  BY <2>3 DEF CallEnds, Storing
      <4>2. Cardinality(Storing(calls)) # 0  BY <4>1, StoringIsFinite, FS_EmptySet
      <4>3. QED BY <4>2 DEF IInv, GateCounts
    <3>2. gate.open \/ gate.drained # "closed"  BY <3>1 DEF IInv, DrainIsSound
    <3>3. QED BY <2>3, <1>1, <3>2 DEF IInv, DrainIsSound, CallEnds, Released, TypeOK
  <2>4. QED BY <2>1, <2>2, <2>3
<1>5. NoReloadOutlives' /\ LateIsFresh'
  BY DEF IInv, NoReloadOutlives, LateIsFresh, WorkerAllowed, LookUpHandler, EnterGate, CallEnds
<1>6. QED BY <1>2, <1>3, <1>4, <1>5 DEF IInv

LEMMA NextIInv == IInv /\ [Next]_vars => IInv'
<1>1. ASSUME IInv, UNCHANGED vars PROVE IInv'
  BY <1>1 DEF IInv, vars, TypeOK, GateCounts, DrainIsSound, NoReloadOutlives, LateIsFresh,
              WorkerAllowed
<1>2. ASSUME IInv, Next PROVE IInv'
  BY <1>2, EditStep, WorkerStep, LifeStep, ReloadIInv, CallIInv DEF Next
<1>3. QED BY <1>1, <1>2

(* The inductive invariant holds in every reachable state.                  *)
THEOREM InvariantHolds == Spec => []IInv
<1>1. QED BY InitIInv, NextIInv, PTL DEF Spec

(* Every variable keeps its type; the gate never counts more calls than there  *)
(* are, nor fewer than none (ArchiveGate.inflight).                         *)
THEOREM TypeCorrect == Spec => []TypeOK
<1>1. IInv => TypeOK  BY DEF IInv
<1>2. QED BY <1>1, InvariantHolds, PTL

(* When a reload reports capture disabled, no call stores (ArchiveGate.Close). *)
THEOREM DisabledQuiet == Spec => []DisabledIsQuiet
<1>1. IInv => DisabledIsQuiet
  <2>1. SUFFICES ASSUME IInv, reload.pc = "disabled"
                 PROVE  \A c \in Calls : calls[c] # "storing"
    BY DEF DisabledIsQuiet
  <2>2. gate.inflight = 0  BY <2>1 DEF IInv, DrainIsSound
  <2>3. server # "closed"  BY <2>1 DEF IInv, NoReloadOutlives
  <2>4. Cardinality(Storing(calls)) = 0  BY <2>1, <2>2, <2>3 DEF IInv, GateCounts
  <2>5. Storing(calls) = {}  BY <2>4, StoringIsFinite, FS_EmptySet
  <2>6. QED BY <2>5 DEF Storing
<1>2. QED BY <1>1, InvariantHolds, PTL

(* The archive is closed only once no reload runs or is queued.             *)
THEOREM ReloadEndsFirst == Spec => []NoReloadOutlives
<1>1. IInv => NoReloadOutlives  BY DEF IInv
<1>2. QED BY <1>1, InvariantHolds, PTL

(* A worker begins at most one job after the file stopped allowing it.      *)
THEOREM WorkersStop == Spec => []WorkersStopAtOnce
<1>1. IInv => WorkersStopAtOnce  BY DEF IInv, LateIsFresh, WorkersStopAtOnce
<1>2. QED BY <1>1, InvariantHolds, PTL

-----------------------------------------------------------------------------
(* TokenCheck.                                                               *)

Places == Ended \cup {"asking", "waiting", "woken", "fetching"}

Request == [pc : Places, kid : Kids \cup {Unknown}, life : Int]

Shape ==
  /\ issuer \in [keys : SUBSET Kids, up : BOOLEAN, upFor : Nat, since : [Kids -> 0..Oldest]]
  /\ cache \in [keys : SUBSET Kids, fetched : 0..TTL, forced : 0..Floor, attempted : 0..Floor,
                failed : BOOLEAN]
  /\ fetch \in [by : Requests \cup {"none"}, forced : BOOLEAN, got : {"nothing", "keys", "error"},
                keys : SUBSET Kids, age : 0..FetchMax]
  /\ fetch.by = "none" => fetch = NoFetch
  /\ requests \in [Requests -> Request]
  /\ starts \in Seq(0..(Spacing - 1))

(* Where cache and issuer differ, the issuer changed since the fetch began.  *)
CacheIsCurrent ==
  \A k \in SymDiff(cache.keys, issuer.keys) :
    cache.fetched < TTL => issuer.since[k] <= cache.fetched + FetchMax

FetchIsCurrent ==
  fetch.got = "keys" => \A k \in SymDiff(fetch.keys, issuer.keys) : issuer.since[k] <= fetch.age

(* Time stands still between a result and the requests it wakes.             *)
WokenSeesNew ==
  \A r \in Requests : requests[r].pc = "woken" => cache.failed \/ cache.fetched = 0

(* Keys that came without an error later than the last forced fetch are its  *)
(* own or newer.                                                            *)
ForcedIsOlder ==
  ~cache.failed /\ cache.forced < Floor => cache.fetched <= cache.forced

LastStart == starts[Len(starts)]

(* Of two starts within the spacing the second is forced; the last one is still *)
(* under way, or its result is in the cache.                                *)
Spaced ==
  /\ Len(starts) <= 2
  /\ Len(starts) = 2 => /\ starts[1] >= starts[2]
                        /\ (fetch # NoFetch /\ fetch.forced) \/ cache.forced <= starts[1]
  /\ starts # <<>> => IF fetch # NoFetch THEN LastStart = fetch.age
                      ELSE /\ cache.attempted <= LastStart
                           /\ cache.failed \/ cache.fetched <= LastStart

TokenInv ==
  /\ Shape
  /\ CacheIsCurrent
  /\ FetchIsCurrent
  /\ WokenSeesNew
  /\ ForcedIsOlder
  /\ Spaced

-----------------------------------------------------------------------------
LEMMA Bounds ==
  /\ TTL \in Nat /\ Floor \in Nat /\ FetchMax \in Nat /\ Oldest \in Nat /\ Leeway \in Nat
  /\ 0 < Floor /\ 0 < TTL /\ 0 < FetchMax
  /\ Spacing \in Nat /\ 0 < Spacing /\ Spacing <= Floor /\ Spacing <= TTL
  /\ Oldest >= TTL + FetchMax + 1 /\ Oldest >= Floor + FetchMax + 1
BY TokenAssumption DEF Oldest, Max2, Spacing

LEMMA AsSequence ==
  ASSUME NEW S, NEW n \in Nat, NEW s \in [1..n -> S]
  PROVE  s \in Seq(S) /\ Len(s) = n
OBVIOUS

LEMMA UpToTwo == \A n \in Nat : n <= 2 => n \in {0, 1, 2}
OBVIOUS

LEMMA Ageing ==
  ASSUME NEW bound \in Nat, NEW age \in 0..bound
  PROVE  /\ Older(age, bound) \in 0..bound
         /\ Older(age, bound) <= age + 1
         /\ Older(age, bound) < bound => Older(age, bound) = age + 1 /\ age < bound
BY DEF Older

(* Answers are places a request ends at.                                     *)
LEMMA AnswerType ==
  ASSUME NEW request, NEW found, NEW failed
  PROVE  /\ Answered(request, found, failed) \in Request
         /\ WithKey(request) \in Request
         /\ Answered(request, found, failed).pc # "woken"
         /\ WithKey(request).pc # "woken"
         /\ WithKey(request).pc # "notfound"
         /\ WithKey(request).pc = "admitted" => request.life > 0
         /\ Answered(request, found, failed).pc = "admitted" => ~failed /\ found /\ request.life > 0
         /\ Answered(request, found, failed).pc = "notfound" => ~failed /\ ~found
BY DEF Answered, WithKey, Over, Request, Places, Ended, Admissible

LEMMA InitToken == TokenInit => TokenInv
<1> SUFFICES ASSUME TokenInit PROVE TokenInv  OBVIOUS
<1> USE Bounds
<1>1. PICK keys \in SUBSET Kids :
        issuer = [keys |-> keys, up |-> TRUE, upFor |-> Oldest, since |-> [k \in Kids |-> Oldest]]
  BY DEF TokenInit
<1>2. cache = [keys |-> {}, fetched |-> TTL, forced |-> Floor, attempted |-> Floor, failed |-> FALSE]
  BY DEF TokenInit
<1>3. fetch = NoFetch /\ starts = <<>>  BY DEF TokenInit
<1>4. \A r \in Requests : requests[r] = Over("out")  BY DEF TokenInit
<1>5. Shape
  <2>1. issuer \in [keys : SUBSET Kids, up : BOOLEAN, upFor : Nat, since : [Kids -> 0..Oldest]]
    BY <1>1
  <2>2. cache \in [keys : SUBSET Kids, fetched : 0..TTL, forced : 0..Floor, attempted : 0..Floor,
                   failed : BOOLEAN]
    BY <1>2
  <2>3. /\ fetch \in [by : Requests \cup {"none"}, forced : BOOLEAN,
                      got : {"nothing", "keys", "error"}, keys : SUBSET Kids, age : 0..FetchMax]
        /\ fetch.by = "none" => fetch = NoFetch
    BY <1>3 DEF NoFetch
  <2>4. requests \in [Requests -> Request]
    BY DEF TokenInit, Over, Request, Places, Ended
  <2>5. starts \in Seq(0..(Spacing - 1))  BY <1>3
  <2>6. QED BY <2>1, <2>2, <2>3, <2>4, <2>5 DEF Shape
<1>6. CacheIsCurrent /\ ForcedIsOlder  BY <1>2 DEF CacheIsCurrent, ForcedIsOlder
<1>7. FetchIsCurrent  BY <1>3 DEF FetchIsCurrent, NoFetch
<1>8. WokenSeesNew  BY <1>4 DEF WokenSeesNew, Over
<1>9. Spaced
  <2>1. Len(starts) = 0  BY <1>3
  <2>2. QED BY <1>3, <2>1 DEF Spaced
<1>10. QED BY <1>5, <1>6, <1>7, <1>8, <1>9 DEF TokenInv

-----------------------------------------------------------------------------
(* The steps.                                                               *)

(* A step of one request that is not a fetch.                                *)
LEMMA RequestStep ==
  ASSUME TokenInv, UNCHANGED <<issuer, cache, fetch, starts>>,
         NEW r \in Requests, NEW request \in Request,
         requests' = [requests EXCEPT ![r] = request], request.pc # "woken"
  PROVE  TokenInv'
<1>1. requests' \in [Requests -> Request]  BY DEF TokenInv, Shape
<1>2. \A q \in Requests : requests'[q].pc = "woken" => requests[q].pc = "woken"
  BY DEF TokenInv, Shape
<1>3. Shape'  BY <1>1 DEF TokenInv, Shape
<1>4. CacheIsCurrent'  BY DEF TokenInv, CacheIsCurrent
<1>5. FetchIsCurrent'  BY DEF TokenInv, FetchIsCurrent
<1>6. WokenSeesNew'  BY <1>2 DEF TokenInv, WokenSeesNew
<1>7. ForcedIsOlder'  BY DEF TokenInv, ForcedIsOlder
<1>8. Spaced'  BY DEF TokenInv, Spaced, LastStart
<1>9. QED BY <1>3, <1>4, <1>5, <1>6, <1>7, <1>8 DEF TokenInv

LEMMA AskingStep ==
  ASSUME TokenInv, NEW r \in Requests,
         Send(r) \/ Hit(r) \/ Join(r) \/ HeldBack(r) \/ Wake(r) \/ Cancel(r)
  PROVE  TokenInv'
<1>1. requests[r] \in Request /\ requests \in [Requests -> Request]  BY DEF TokenInv, Shape
<1>2. UNCHANGED <<issuer, cache, fetch, starts>>
  BY DEF Send, Hit, Join, HeldBack, Wake, Cancel
<1>3. \E request \in Request : /\ requests' = [requests EXCEPT ![r] = request]
                               /\ request.pc # "woken"
  <2>1. CASE Send(r)
    <3>1. PICK kid \in Kids \cup {Unknown}, life \in Lives :
            requests' = [requests EXCEPT ![r] = [pc |-> "asking", kid |-> kid, life |-> life]]
      BY <2>1 DEF Send
    <3>2. life \in Int  BY TokenAssumption
    <3>3. [pc |-> "asking", kid |-> kid, life |-> life] \in Request
      BY <3>2 DEF Request, Places
    <3>4. QED BY <3>1, <3>3
  <2>2. CASE Hit(r)
    <3>1. requests' = [requests EXCEPT ![r] = WithKey(requests[r])]  BY <2>2 DEF Hit
    <3>2. WithKey(requests[r]) \in Request /\ WithKey(requests[r]).pc # "woken"  BY AnswerType
    <3>3. QED BY <3>1, <3>2
  <2>3. CASE Join(r)
    <3>1. requests' = [requests EXCEPT ![r] = [requests[r] EXCEPT !.pc = "waiting"]]
      BY <2>3 DEF Join
    <3>2. PICK request : request = [requests[r] EXCEPT !.pc = "waiting"]  OBVIOUS
    <3>3. request \in Request /\ request.pc = "waiting"  BY <1>1, <3>2 DEF Request, Places
    <3>4. QED BY <3>1, <3>2, <3>3
  <2>4. CASE HeldBack(r)
    <3>1. requests' = [requests EXCEPT ![r] = Answered(requests[r], FALSE, cache.failed)]
      BY <2>4 DEF HeldBack
    <3>2. PICK request : request = Answered(requests[r], FALSE, cache.failed)  OBVIOUS
    <3>3. request \in Request /\ request.pc # "woken"  BY <3>2, AnswerType, Zenon
    <3>4. QED BY <3>1, <3>2, <3>3
  <2>5. CASE Wake(r)
    <3>1. requests' = [requests EXCEPT ![r] = Answered(requests[r], requests[r].kid \in cache.keys,
                                                       cache.failed)]
      BY <2>5 DEF Wake
    <3>2. PICK request : request = Answered(requests[r], requests[r].kid \in cache.keys, cache.failed)
      OBVIOUS
    <3>3. request \in Request /\ request.pc # "woken"  BY <3>2, AnswerType, Zenon
    <3>4. QED BY <3>1, <3>2, <3>3
  <2>6. CASE Cancel(r)
    <3>1. requests' = [requests EXCEPT ![r] = Over("out")]  BY <2>6 DEF Cancel
    <3>2. Over("out") \in Request /\ Over("out").pc # "woken"
      BY DEF Over, Request, Places, Ended
    <3>3. QED BY <3>1, <3>2
  <2>7. QED BY <2>1, <2>2, <2>3, <2>4, <2>5, <2>6
<1>4. QED BY <1>2, <1>3, RequestStep

(* A fetch begins only where neither floor holds it back: with one start     *)
(* within the floor it is a forced one, with two there is none.             *)
LEMMA BeginFetchStep ==
  ASSUME TokenInv, NEW r \in Requests, BeginFetch(r)
  PROVE  TokenInv'
<1> USE Bounds
<1>1. /\ fetch = NoFetch /\ ~ForcedFloorActive /\ ~ErrorFloorActive
      /\ fetch' = [NoFetch EXCEPT !.by = r, !.forced = Fresh]
      /\ requests' = [requests EXCEPT ![r].pc = "fetching"]
      /\ starts' = Append(starts, 0)
      /\ UNCHANGED <<issuer, cache>>
  BY DEF BeginFetch
<1>2. fetch' = [by |-> r, forced |-> Fresh, got |-> "nothing", keys |-> {}, age |-> 0]
  BY <1>1 DEF NoFetch
<1>3. r # "none"  BY TokenAssumption
<1>4. fetch'.by = r /\ fetch'.got = "nothing" /\ fetch'.age = 0 /\ fetch' # NoFetch
  BY <1>2, <1>3 DEF NoFetch
<1>5. fetch'.forced <=> Fresh  BY <1>2
<1>6. requests' \in [Requests -> Request]
      /\ \A q \in Requests : requests'[q].pc = "woken" => requests[q].pc = "woken"
  BY <1>1 DEF TokenInv, Shape, Request, Places
<1>7. starts \in Seq(0..(Spacing - 1)) /\ 0 \in 0..(Spacing - 1)  BY DEF TokenInv, Shape
<1>8. /\ starts' \in Seq(0..(Spacing - 1)) /\ Len(starts') = Len(starts) + 1
      /\ starts'[Len(starts')] = 0 /\ Len(starts) \in Nat
      /\ \A i \in 1..Len(starts) : starts'[i] = starts[i] /\ starts[i] \in 0..(Spacing - 1)
  BY <1>1, <1>7
<1>9. Shape'
  <2>1. fetch' \in [by : Requests \cup {"none"}, forced : BOOLEAN,
                    got : {"nothing", "keys", "error"}, keys : SUBSET Kids, age : 0..FetchMax]
    BY <1>2 DEF Fresh
  <2>2. QED BY <1>1, <1>3, <1>4, <1>6, <1>8, <2>1 DEF TokenInv, Shape
<1>10. CacheIsCurrent' /\ ForcedIsOlder'  BY <1>1 DEF TokenInv, CacheIsCurrent, ForcedIsOlder
<1>11. FetchIsCurrent'  BY <1>4 DEF FetchIsCurrent
<1>12. WokenSeesNew'  BY <1>1, <1>6 DEF TokenInv, WokenSeesNew
<1>13. Spaced'
  <2>1. CASE Len(starts) = 0
    <3>1. Len(starts') = 1  BY <1>8, <2>1
    <3>2. LastStart' = fetch'.age  BY <1>4, <1>8 DEF LastStart
    <3>3. QED BY <1>4, <3>1, <3>2 DEF Spaced
  <2>2. CASE Len(starts) \in {1, 2}
    <3>1. PICK last : last = starts[Len(starts)]  OBVIOUS
    <3>2. last \in 0..(Spacing - 1)
      <4>1. Len(starts) \in 1..Len(starts)  BY <2>2
      <4>2. QED BY <1>8, <3>1, <4>1
    <3>3. starts # <<>>
      <4>1. Len(<<>>) = 0  OBVIOUS
      <4>2. QED BY <2>2, <4>1
    <3>4. cache.attempted <= last /\ (cache.failed \/ cache.fetched <= last)
      BY <1>1, <3>1, <3>3 DEF TokenInv, Spaced, LastStart
    <3>5. /\ cache.attempted \in Nat /\ cache.fetched \in Nat /\ cache.forced \in Nat
      BY DEF TokenInv, Shape
    <3>6. cache.attempted < Floor  BY <3>2, <3>4, <3>5
    <3>7. ~cache.failed  BY <1>1, <3>6 DEF ErrorFloorActive
    <3>8. Fresh  BY <3>2, <3>4, <3>5, <3>7 DEF Fresh
    <3>9. ~(cache.forced < Floor)  BY <1>1, <3>8 DEF ForcedFloorActive
    <3>10. Len(starts) # 2
      <4>1. SUFFICES ASSUME Len(starts) = 2 PROVE FALSE  OBVIOUS
      <4>2. cache.forced <= starts[1]  BY <1>1, <4>1 DEF TokenInv, Spaced
      <4>3. starts[1] \in 0..(Spacing - 1)  BY <1>8, <4>1
      <4>4. QED BY <3>5, <3>9, <4>2, <4>3
    <3>11. Len(starts) = 1 /\ Len(starts') = 2  BY <1>8, <2>2, <3>10
    <3>12. starts'[1] >= 0 /\ starts'[2] = 0  BY <1>8, <3>11
    <3>13. fetch' # NoFetch /\ fetch'.forced  BY <1>4, <1>5, <3>8
    <3>14. starts'[1] >= starts'[2]  BY <3>12
    <3>15. LastStart' = fetch'.age  BY <1>4, <1>8 DEF LastStart
    <3>16. QED BY <3>11, <3>13, <3>14, <3>15 DEF Spaced
  <2>3. Len(starts) = 0 \/ Len(starts) \in {1, 2}
    <3>1. Len(starts) \in Nat /\ Len(starts) <= 2  BY <1>8 DEF TokenInv, Spaced
    <3>2. Len(starts) \in {0, 1, 2}  BY <3>1, UpToTwo, Zenon
    <3>3. QED BY <3>2
  <2>4. QED BY <2>1, <2>2, <2>3
<1>14. QED BY <1>9, <1>10, <1>11, <1>12, <1>13 DEF TokenInv

LEMMA RespondStep ==
  ASSUME TokenInv, Respond
  PROVE  TokenInv'
<1> USE Bounds
<1>1. /\ fetch # NoFetch /\ UNCHANGED <<issuer, cache, requests, starts>>
      /\ fetch' = IF issuer.up THEN [fetch EXCEPT !.got = "keys", !.keys = issuer.keys]
                  ELSE [fetch EXCEPT !.got = "error"]
  BY DEF Respond
<1>2. PICK f : f = fetch  OBVIOUS
<1>3. f \in [by : Requests \cup {"none"}, forced : BOOLEAN, got : {"nothing", "keys", "error"},
             keys : SUBSET Kids, age : 0..FetchMax]
  BY <1>2 DEF TokenInv, Shape
<1>4. f.by # "none"  BY <1>1, <1>2 DEF TokenInv, Shape
<1>5. issuer.keys \in SUBSET Kids  BY DEF TokenInv, Shape
<1>6. PICK got, keys :
        /\ fetch' = [f EXCEPT !.got = got, !.keys = keys]
        /\ \/ got = "keys" /\ keys = issuer.keys
           \/ got = "error" /\ keys = f.keys
  <2>1. CASE issuer.up
    <3>1. fetch' = [f EXCEPT !.got = "keys", !.keys = issuer.keys]  BY <1>1, <1>2, <2>1
    <3>2. QED BY <3>1
  <2>2. CASE ~issuer.up
    <3>1. [f EXCEPT !.got = "error"] = [f EXCEPT !.got = "error", !.keys = f.keys]  BY <1>3
    <3>2. QED BY <1>1, <1>2, <2>2, <3>1
  <2>3. QED BY <2>1, <2>2
<1>7. /\ fetch' \in [by : Requests \cup {"none"}, forced : BOOLEAN,
                     got : {"nothing", "keys", "error"}, keys : SUBSET Kids, age : 0..FetchMax]
      /\ fetch'.by = f.by /\ fetch'.age = f.age /\ fetch'.got = got /\ fetch'.keys = keys
  BY <1>3, <1>5, <1>6
<1>8. f.forced => fetch'.forced  BY <1>3, <1>6
<1>9. fetch' # NoFetch  BY <1>4, <1>7 DEF NoFetch
<1>10. Shape'  BY <1>1, <1>4, <1>7 DEF TokenInv, Shape
<1>11. CacheIsCurrent' /\ ForcedIsOlder'  BY <1>1 DEF TokenInv, CacheIsCurrent, ForcedIsOlder
<1>12. FetchIsCurrent'
  <2>1. SymDiff(issuer.keys, issuer.keys) = {}  BY DEF SymDiff
  <2>2. QED BY <1>1, <1>6, <1>7, <2>1 DEF FetchIsCurrent
<1>13. WokenSeesNew'  BY <1>1 DEF TokenInv, WokenSeesNew
<1>14. Spaced'
  BY <1>1, <1>2, <1>7, <1>8, <1>9 DEF TokenInv, Spaced, LastStart
<1>15. QED BY <1>10, <1>11, <1>12, <1>13, <1>14 DEF TokenInv

(* The result of a fetch, as the cache keeps it.                             *)
LEMMA CommitFetchStep ==
  ASSUME TokenInv, CommitFetch
  PROVE  TokenInv'
<1> USE Bounds
<1>1. /\ fetch # NoFetch /\ fetch.got # "nothing"
      /\ cache' = Committed(fetch) /\ fetch' = NoFetch /\ UNCHANGED <<issuer, starts>>
  BY DEF CommitFetch, AfterFetch
<1>2. PICK f, c : f = fetch /\ c = cache  OBVIOUS
<1>3. f \in [by : Requests \cup {"none"}, forced : BOOLEAN, got : {"nothing", "keys", "error"},
             keys : SUBSET Kids, age : 0..FetchMax]
  BY <1>2 DEF TokenInv, Shape
<1>4. c \in [keys : SUBSET Kids, fetched : 0..TTL, forced : 0..Floor, attempted : 0..Floor,
             failed : BOOLEAN]
  BY <1>2 DEF TokenInv, Shape
<1>5. f.got = "keys" \/ f.got = "error"  BY <1>1, <1>2, <1>3
<1>6. cache' = [keys |-> IF f.got = "keys" THEN f.keys ELSE c.keys,
                fetched |-> IF f.got = "keys" THEN 0 ELSE c.fetched,
                forced |-> IF f.forced THEN 0 ELSE c.forced,
                attempted |-> 0,
                failed |-> f.got = "error"]
  BY <1>1, <1>2 DEF Committed
<1>7. /\ cache'.keys = IF f.got = "keys" THEN f.keys ELSE c.keys
      /\ cache'.fetched = IF f.got = "keys" THEN 0 ELSE c.fetched
      /\ cache'.forced = IF f.forced THEN 0 ELSE c.forced
      /\ cache'.attempted = 0
  BY <1>6
<1>8. cache'.failed <=> f.got = "error"  BY <1>6
<1>9. cache' \in [keys : SUBSET Kids, fetched : 0..TTL, forced : 0..Floor, attempted : 0..Floor,
                  failed : BOOLEAN]
  BY <1>3, <1>4, <1>6
<1>10. requests' \in [Requests -> Request]
  <2>1. requests' = [r \in Requests |->
          IF r = fetch.by
          THEN Answered(requests[r], requests[r].kid \in cache'.keys, cache'.failed)
          ELSE IF requests[r].pc = "waiting" THEN [requests[r] EXCEPT !.pc = "woken"]
               ELSE requests[r]]
    BY DEF CommitFetch, AfterFetch
  <2>2. SUFFICES ASSUME NEW r \in Requests PROVE requests'[r] \in Request  BY <2>1
  <2>3. requests[r] \in Request  BY DEF TokenInv, Shape
  <2>4. [requests[r] EXCEPT !.pc = "woken"] \in Request  BY <2>3 DEF Request, Places
  <2>5. Answered(requests[r], requests[r].kid \in cache'.keys, cache'.failed) \in Request
    BY AnswerType
  <2>6. QED BY <2>1, <2>3, <2>4, <2>5
<1>11. Shape'
  <2>1. fetch' \in [by : Requests \cup {"none"}, forced : BOOLEAN,
                    got : {"nothing", "keys", "error"}, keys : SUBSET Kids, age : 0..FetchMax]
    BY <1>1 DEF NoFetch
  <2>2. QED BY <1>1, <1>9, <1>10, <2>1 DEF TokenInv, Shape
<1>12. CacheIsCurrent'
  <2>1. CASE f.got = "keys"
    <3>1. ASSUME NEW k \in SymDiff(f.keys, issuer.keys)
          PROVE  issuer.since[k] <= FetchMax
      <4>1. issuer.since[k] <= f.age  BY <1>2, <2>1, <3>1 DEF TokenInv, FetchIsCurrent
      <4>2. k \in Kids  BY <1>3 DEF TokenInv, Shape, SymDiff
      <4>3. issuer.since[k] \in Nat  BY <4>2 DEF TokenInv, Shape
      <4>4. QED BY <1>3, <4>1, <4>3
    <3>2. QED BY <1>1, <1>7, <2>1, <3>1 DEF CacheIsCurrent
  <2>2. CASE f.got = "error"
    BY <1>1, <1>2, <1>7, <2>2 DEF TokenInv, CacheIsCurrent
  <2>3. QED BY <1>5, <2>1, <2>2
<1>13. FetchIsCurrent'  BY <1>1 DEF FetchIsCurrent, NoFetch
<1>14. WokenSeesNew'  BY <1>5, <1>7, <1>8 DEF WokenSeesNew
<1>15. ForcedIsOlder'  BY <1>5, <1>7, <1>8, <1>9 DEF ForcedIsOlder
<1>16. Spaced'
  <2>1. starts \in Seq(0..(Spacing - 1)) /\ Len(starts) \in Nat  BY DEF TokenInv, Shape
  <2>2. \A i \in 1..Len(starts) : starts[i] \in 0..(Spacing - 1)  BY <2>1
  <2>3. starts # <<>> => LastStart \in 0..(Spacing - 1)
    <3>1. starts # <<>> => Len(starts) \in 1..Len(starts)  BY <2>1
    <3>2. QED BY <2>2, <3>1 DEF LastStart
  <2>4. starts # <<>> => /\ cache'.attempted <= LastStart
                         /\ cache'.failed \/ cache'.fetched <= LastStart
    BY <1>5, <1>7, <1>8, <2>3
  <2>5. Len(starts) = 2 => starts[1] >= starts[2] /\ cache'.forced <= starts[1]
    <3>1. Len(starts) = 2 => starts[1] \in 0..(Spacing - 1)  BY <2>2
    <3>2. Len(starts) = 2 => f.forced \/ c.forced <= starts[1]
      BY <1>2 DEF TokenInv, Spaced
    <3>3. Len(starts) = 2 => cache'.forced <= starts[1]
      <4>1. CASE f.forced  BY <1>7, <3>1, <4>1
      <4>2. CASE ~f.forced  BY <1>7, <3>2, <4>2
      <4>3. QED BY <4>1, <4>2
    <3>4. QED BY <3>3 DEF TokenInv, Spaced
  <2>6. LastStart' = LastStart  BY <1>1 DEF LastStart
  <2>7. QED BY <1>1, <2>4, <2>5, <2>6 DEF TokenInv, Spaced
<1>17. QED BY <1>11, <1>12, <1>13, <1>14, <1>15, <1>16 DEF TokenInv

(* The issuer changes: what changed is of age 0.                             *)
LEMMA IssuerStep ==
  ASSUME TokenInv, Rotate \/ Outage
  PROVE  TokenInv'
<1> USE Bounds
<1>1. UNCHANGED <<cache, fetch, requests, starts>>  BY DEF Rotate, Outage
<1>2. issuer \in [keys : SUBSET Kids, up : BOOLEAN, upFor : Nat, since : [Kids -> 0..Oldest]]
  BY DEF TokenInv, Shape
<1>3. /\ issuer' \in [keys : SUBSET Kids, up : BOOLEAN, upFor : Nat, since : [Kids -> 0..Oldest]]
      /\ \A keys \in SUBSET Kids : \A k \in SymDiff(keys, issuer'.keys) :
           \/ issuer'.since[k] = 0
           \/ k \in SymDiff(keys, issuer.keys) /\ issuer'.since[k] = issuer.since[k]
  <2>1. CASE Rotate
    <3>1. PICK keys \in SUBSET Kids :
            issuer' = [issuer EXCEPT !.keys = keys,
                         !.since = [k \in Kids |-> IF k \in SymDiff(keys, issuer.keys) THEN 0
                                                   ELSE issuer.since[k]]]
      BY <2>1 DEF Rotate
    <3>2. PICK since : since = [k \in Kids |-> IF k \in SymDiff(keys, issuer.keys) THEN 0
                                               ELSE issuer.since[k]]
      OBVIOUS
    <3>3. since \in [Kids -> 0..Oldest]  BY <1>2, <3>2
    <3>4. issuer' = [issuer EXCEPT !.keys = keys, !.since = since]  BY <3>1, <3>2
    <3>5. issuer' \in [keys : SUBSET Kids, up : BOOLEAN, upFor : Nat, since : [Kids -> 0..Oldest]]
      BY <1>2, <3>3, <3>4
    <3>6. issuer'.keys = keys /\ issuer'.since = since  BY <1>2, <3>4
    <3>7. ASSUME NEW other \in SUBSET Kids, NEW k \in SymDiff(other, keys)
          PROVE  since[k] = 0 \/ (k \in SymDiff(other, issuer.keys) /\ since[k] = issuer.since[k])
      BY <3>2, <3>7 DEF SymDiff
    <3>8. \A other \in SUBSET Kids : \A k \in SymDiff(other, keys) :
            since[k] = 0 \/ (k \in SymDiff(other, issuer.keys) /\ since[k] = issuer.since[k])
      BY <3>7, Zenon
    <3>9. QED BY <3>5, <3>6, <3>8, Zenon
  <2>2. CASE Outage
    <3>1. PICK up : up = ~issuer.up  OBVIOUS
    <3>2. issuer' = [issuer EXCEPT !.up = up, !.upFor = 0]  BY <2>2, <3>1 DEF Outage
    <3>3. up \in BOOLEAN  BY <3>1
    <3>4. issuer' \in [keys : SUBSET Kids, up : BOOLEAN, upFor : Nat, since : [Kids -> 0..Oldest]]
      BY <1>2, <3>2, <3>3
    <3>5. issuer'.keys = issuer.keys /\ issuer'.since = issuer.since  BY <1>2, <3>2
    <3>6. QED BY <3>4, <3>5
  <2>3. QED BY <2>1, <2>2
<1>4. Shape'  BY <1>1, <1>3 DEF TokenInv, Shape
<1>5. CacheIsCurrent'
  <2>1. cache.keys \in SUBSET Kids /\ cache.fetched \in Nat  BY DEF TokenInv, Shape
  <2>2. ASSUME NEW k \in SymDiff(cache.keys, issuer'.keys), cache.fetched < TTL
        PROVE  issuer'.since[k] <= cache.fetched + FetchMax
    <3>1. CASE issuer'.since[k] = 0  BY <2>1, <3>1
    <3>2. CASE k \in SymDiff(cache.keys, issuer.keys) /\ issuer'.since[k] = issuer.since[k]
      BY <2>2, <3>2 DEF TokenInv, CacheIsCurrent
    <3>3. QED BY <1>3, <2>1, <2>2, <3>1, <3>2
  <2>3. QED BY <1>1, <2>2 DEF CacheIsCurrent
<1>6. FetchIsCurrent'
  <2>1. fetch.keys \in SUBSET Kids /\ fetch.age \in Nat  BY DEF TokenInv, Shape
  <2>2. ASSUME NEW k \in SymDiff(fetch.keys, issuer'.keys), fetch.got = "keys"
        PROVE  issuer'.since[k] <= fetch.age
    <3>1. CASE issuer'.since[k] = 0  BY <2>1, <3>1
    <3>2. CASE k \in SymDiff(fetch.keys, issuer.keys) /\ issuer'.since[k] = issuer.since[k]
      BY <2>2, <3>2 DEF TokenInv, FetchIsCurrent
    <3>3. QED BY <1>3, <2>1, <2>2, <3>1, <3>2
  <2>3. QED BY <1>1, <2>2 DEF FetchIsCurrent
<1>7. WokenSeesNew' /\ ForcedIsOlder'  BY <1>1 DEF TokenInv, WokenSeesNew, ForcedIsOlder
<1>8. Spaced'  BY <1>1 DEF TokenInv, Spaced, LastStart
<1>9. QED BY <1>4, <1>5, <1>6, <1>7, <1>8 DEF TokenInv

-----------------------------------------------------------------------------
(* Time.                                                                    *)

(* Of at most two starts, the oldest first, the youngest stay.               *)
LEMMA RecentStarts ==
  ASSUME TokenInv, Tick
  PROVE  /\ starts' \in Seq(0..(Spacing - 1))
         /\ \/ Len(starts') = 0
            \/ /\ Len(starts') = 1 /\ Len(starts) \in {1, 2}
               /\ starts'[1] = starts[Len(starts)] + 1 /\ starts[Len(starts)] \in Nat
            \/ /\ Len(starts') = 2 /\ Len(starts) = 2
               /\ starts'[1] = starts[1] + 1 /\ starts'[2] = starts[2] + 1
               /\ starts[1] \in Nat /\ starts[2] \in Nat
<1>a. PICK recent, gone, new :
         /\ recent = {n \in DOMAIN starts : starts[n] + 1 < Spacing}
         /\ gone = Len(starts) - Cardinality(recent)
         /\ new = [n \in 1..Cardinality(recent) |-> starts[gone + n] + 1]
         /\ starts' = new
  BY DEF Tick
<1> SUFFICES /\ new \in Seq(0..(Spacing - 1))
             /\ \/ Len(new) = 0
                \/ /\ Len(new) = 1 /\ Len(starts) \in {1, 2}
                   /\ new[1] = starts[Len(starts)] + 1 /\ starts[Len(starts)] \in Nat
                \/ /\ Len(new) = 2 /\ Len(starts) = 2
                   /\ new[1] = starts[1] + 1 /\ new[2] = starts[2] + 1
                   /\ starts[1] \in Nat /\ starts[2] \in Nat
  BY <1>a
<1>b. recent = {n \in DOMAIN starts : starts[n] + 1 < Spacing}  BY <1>a
<1>c. gone = Len(starts) - Cardinality(recent)  BY <1>a
<1>d. new = [n \in 1..Cardinality(recent) |-> starts[gone + n] + 1]  BY <1>a
<1> USE <1>b, <1>c, <1>d
<1> USE Bounds
<1>1. starts \in Seq(0..(Spacing - 1)) /\ Len(starts) \in Nat /\ DOMAIN starts = 1..Len(starts)
  BY DEF TokenInv, Shape
<1>2. \A i \in DOMAIN starts : starts[i] \in 0..(Spacing - 1)  BY <1>1
<1>3. Len(starts) <= 2 /\ (Len(starts) = 2 => starts[1] >= starts[2])
  BY DEF TokenInv, Spaced
<1>4. Len(starts) \in {0, 1, 2}  BY <1>1, <1>3
<1>5. /\ Cardinality({}) = 0 /\ Cardinality({1}) = 1 /\ Cardinality({2}) = 1
      /\ Cardinality({1, 2}) = 2
  <2>1. Cardinality({}) = 0 /\ Cardinality({1}) = 1 /\ Cardinality({2}) = 1
    BY FS_EmptySet, FS_Singleton
  <2>2. {1, 2} = 1..2  OBVIOUS
  <2>3. Cardinality(1..2) = 2
    <3>1. \A a, b \in Int : Cardinality(a..b) = IF a > b THEN 0 ELSE b - a + 1
      BY FS_Interval
    <3>2. Cardinality(1..2) = IF 1 > 2 THEN 0 ELSE 2 - 1 + 1
      <4>1. 1 \in Int /\ 2 \in Int  OBVIOUS
      <4>2. QED BY <3>1, <4>1, Zenon
    <3>3. QED BY <3>2
  <2>4. QED BY <2>1, <2>2, <2>3
<1>6. \/ recent = {}
      \/ recent = {1} /\ Len(starts) = 1
      \/ recent = {2} /\ Len(starts) = 2
      \/ recent = {1, 2} /\ Len(starts) = 2
  <2>1. CASE Len(starts) = 0  BY <1>1, <2>1
  <2>2. CASE Len(starts) = 1
    <3>1. DOMAIN starts = {1}  BY <1>1, <2>2
    <3>2. QED BY <2>2, <3>1
  <2>3. CASE Len(starts) = 2
    <3>1. DOMAIN starts = {1, 2}  BY <1>1, <2>3
    <3>2. starts[1] \in Nat /\ starts[2] \in Nat /\ starts[1] >= starts[2]
      BY <1>2, <1>3, <2>3, <3>1
    <3>3. 1 \in recent => 2 \in recent  BY <3>1, <3>2
    <3>4. QED BY <2>3, <3>1, <3>3
  <2>4. QED BY <1>4, <2>1, <2>2, <2>3
<1>7. PICK ages : ages = 0..(Spacing - 1)  OBVIOUS
<1>8. ASSUME NEW n \in Nat, n = Cardinality(recent), n <= Len(starts),
             \A i \in 1..n : (Len(starts) - n) + i \in recent
      PROVE  /\ new \in Seq(ages) /\ Len(new) = n
             /\ \A i \in 1..n : /\ new[i] = starts[(Len(starts) - n) + i] + 1
                               /\ starts[(Len(starts) - n) + i] \in Nat
  <2>1. new = [i \in 1..n |-> starts[gone + i] + 1] /\ gone = Len(starts) - n  BY <1>8
  <2>2. \A i \in 1..n : /\ starts[gone + i] + 1 \in ages /\ starts[gone + i] \in Nat
    <3>1. SUFFICES ASSUME NEW i \in 1..n
                   PROVE  starts[gone + i] + 1 \in ages /\ starts[gone + i] \in Nat
      OBVIOUS
    <3>2. gone + i \in recent  BY <1>8, <2>1
    <3>3. gone + i \in DOMAIN starts /\ starts[gone + i] + 1 < Spacing  BY <3>2
    <3>4. starts[gone + i] \in 0..(Spacing - 1)  BY <1>2, <3>3
    <3>5. QED BY <1>7, <3>3, <3>4
  <2>3. new \in [1..n -> ages]  BY <2>1, <2>2
  <2>4. new \in Seq(ages) /\ Len(new) = n  BY <2>3, AsSequence
  <2>5. QED BY <2>1, <2>2, <2>4
<1>9. CASE recent = {}
  <2>1. Cardinality(recent) = 0  BY <1>5, <1>9
  <2>2. 1..0 = {} /\ 0 \in Nat  OBVIOUS
  <2>3. 0 <= Len(starts)  BY <1>1
  <2>4. new \in Seq(ages) /\ Len(new) = 0  BY <1>8, <2>1, <2>2, <2>3
  <2>5. QED BY <1>7, <2>4
<1>10. ASSUME NEW n \in {1, 2}, recent = {n}, Len(starts) = n
      PROVE  /\ new \in Seq(ages) /\ Len(new) = 1
             /\ new[1] = starts[n] + 1 /\ starts[n] \in Nat
  <2>1. Cardinality(recent) = 1  BY <1>5, <1>10
  <2>2. (Len(starts) - 1) + 1 = n  BY <1>10
  <2>3. \A i \in 1..1 : i = 1  OBVIOUS
  <2>4. \A i \in 1..1 : (Len(starts) - 1) + i \in recent  BY <1>10, <2>2, <2>3
  <2>5. 1 \in Nat /\ 1 \in 1..1 /\ 1 <= Len(starts)  BY <1>10
  <2>6. /\ new \in Seq(ages) /\ Len(new) = 1
        /\ \A i \in 1..1 : /\ new[i] = starts[(Len(starts) - 1) + i] + 1
                          /\ starts[(Len(starts) - 1) + i] \in Nat
    BY <1>8, <2>1, <2>4, <2>5
  <2>7. QED BY <2>2, <2>5, <2>6
<1>11. CASE recent = {1, 2} /\ Len(starts) = 2
  <2>1. Cardinality(recent) = 2  BY <1>5, <1>11
  <2>2. \A i \in 1..2 : (Len(starts) - 2) + i = i /\ i \in {1, 2}  BY <1>11
  <2>3. \A i \in 1..2 : (Len(starts) - 2) + i \in recent  BY <1>11, <2>2
  <2>4. 2 \in Nat /\ 1 \in 1..2 /\ 2 \in 1..2 /\ 2 <= Len(starts)  BY <1>11
  <2>5. /\ new \in Seq(ages) /\ Len(new) = 2
        /\ \A i \in 1..2 : /\ new[i] = starts[(Len(starts) - 2) + i] + 1
                          /\ starts[(Len(starts) - 2) + i] \in Nat
    BY <1>8, <2>1, <2>3, <2>4
  <2>6. (Len(starts) - 2) + 1 = 1 /\ (Len(starts) - 2) + 2 = 2  BY <2>2, <2>4
  <2>7. /\ new[1] = starts[1] + 1 /\ new[2] = starts[2] + 1
        /\ starts[1] \in Nat /\ starts[2] \in Nat
    BY <2>4, <2>5, <2>6
  <2>8. QED BY <1>7, <1>11, <2>5, <2>7
<1>12. QED BY <1>6, <1>7, <1>9, <1>10, <1>11

LEMMA TickStep ==
  ASSUME TokenInv, Tick
  PROVE  TokenInv'
<1> USE Bounds
<1>1. PICK i, c, f : i = issuer /\ c = cache /\ f = fetch  OBVIOUS
<1>2. /\ i \in [keys : SUBSET Kids, up : BOOLEAN, upFor : Nat, since : [Kids -> 0..Oldest]]
      /\ c \in [keys : SUBSET Kids, fetched : 0..TTL, forced : 0..Floor, attempted : 0..Floor,
                failed : BOOLEAN]
      /\ f \in [by : Requests \cup {"none"}, forced : BOOLEAN, got : {"nothing", "keys", "error"},
                keys : SUBSET Kids, age : 0..FetchMax]
      /\ f.by = "none" => f = NoFetch
  BY <1>1 DEF TokenInv, Shape
<1>3. PICK upFor, since :
        /\ upFor = IF i.up THEN Older(i.upFor, Oldest) ELSE 0
        /\ since = [k \in Kids |-> Older(i.since[k], Oldest)]
  OBVIOUS
<1>4. PICK fetched, forced, attempted :
        /\ fetched = Older(c.fetched, TTL) /\ forced = Older(c.forced, Floor)
        /\ attempted = Older(c.attempted, Floor)
  OBVIOUS
<1>5. PICK age : age = IF f = NoFetch THEN f.age ELSE f.age + 1  OBVIOUS
<1>6. /\ issuer' = [i EXCEPT !.upFor = upFor, !.since = since]
      /\ cache' = [c EXCEPT !.fetched = fetched, !.forced = forced, !.attempted = attempted]
      /\ fetch' = [f EXCEPT !.age = age]
      /\ f # NoFetch => f.age < FetchMax
      /\ \A r \in Requests : requests[r].pc \notin {"asking", "woken"}
  BY <1>1, <1>3, <1>4, <1>5 DEF Tick
<1>7. /\ upFor \in Nat /\ since \in [Kids -> 0..Oldest]
      /\ \A k \in Kids : since[k] <= i.since[k] + 1 /\ i.since[k] \in Nat /\ since[k] \in Nat
  <2>1. upFor \in Nat  BY <1>2, <1>3 DEF Older
  <2>2. \A k \in Kids : i.since[k] \in 0..Oldest  BY <1>2
  <2>3. \A k \in Kids : Older(i.since[k], Oldest) \in 0..Oldest
                        /\ Older(i.since[k], Oldest) <= i.since[k] + 1
    BY <2>2, Ageing
  <2>4. QED BY <1>3, <2>1, <2>2, <2>3
<1>8. /\ fetched \in 0..TTL /\ forced \in 0..Floor /\ attempted \in 0..Floor
      /\ fetched <= c.fetched + 1 /\ forced <= c.forced + 1 /\ attempted <= c.attempted + 1
      /\ fetched < TTL => fetched = c.fetched + 1 /\ c.fetched < TTL
      /\ forced < Floor => forced = c.forced + 1 /\ c.forced < Floor
      /\ c.fetched = 0 => fetched = 1 \/ TTL = 0
  BY <1>2, <1>4, Ageing DEF Older
<1>9. /\ age \in 0..FetchMax /\ (f # NoFetch => age = f.age + 1)
      /\ f = NoFetch => age = 0
  BY <1>2, <1>5, <1>6 DEF NoFetch
<1>10. /\ issuer' \in [keys : SUBSET Kids, up : BOOLEAN, upFor : Nat, since : [Kids -> 0..Oldest]]
       /\ issuer'.keys = i.keys /\ issuer'.since = since
  BY <1>2, <1>6, <1>7
<1>11. /\ cache' \in [keys : SUBSET Kids, fetched : 0..TTL, forced : 0..Floor,
                      attempted : 0..Floor, failed : BOOLEAN]
       /\ cache'.keys = c.keys /\ cache'.fetched = fetched /\ cache'.forced = forced
       /\ cache'.attempted = attempted
  BY <1>2, <1>6, <1>8
<1>12. cache'.failed <=> c.failed  BY <1>2, <1>6
<1>13. /\ fetch' \in [by : Requests \cup {"none"}, forced : BOOLEAN,
                      got : {"nothing", "keys", "error"}, keys : SUBSET Kids, age : 0..FetchMax]
       /\ fetch'.by = f.by /\ fetch'.got = f.got /\ fetch'.keys = f.keys /\ fetch'.age = age
  BY <1>2, <1>6, <1>9
<1>14. fetch'.forced <=> f.forced  BY <1>2, <1>6
<1>15. fetch' = NoFetch <=> f = NoFetch
  <2>1. CASE f = NoFetch  BY <1>6, <1>9, <2>1 DEF NoFetch
  <2>2. CASE f # NoFetch  BY <1>2, <1>13, <2>2 DEF NoFetch
  <2>3. QED BY <2>1, <2>2
<1>16. requests' \in [Requests -> Request] /\ \A r \in Requests : requests'[r].pc = requests[r].pc
  <2>1. requests' = [r \in Requests |->
          IF Busy(r) /\ requests[r].life > -Leeway
          THEN [requests[r] EXCEPT !.life = requests[r].life - 1] ELSE requests[r]]
    BY DEF Tick
  <2>2. SUFFICES ASSUME NEW r \in Requests
                 PROVE  requests'[r] \in Request /\ requests'[r].pc = requests[r].pc
    BY <2>1
  <2>3. PICK q : q = requests[r]  OBVIOUS
  <2>4. q \in Request  BY <2>3 DEF TokenInv, Shape
  <2>5. PICK life : life = q.life - 1  OBVIOUS
  <2>6. life \in Int  BY <2>4, <2>5 DEF Request
  <2>7. [q EXCEPT !.life = life] \in Request /\ [q EXCEPT !.life = life].pc = q.pc
    BY <2>4, <2>6 DEF Request
  <2>8. requests'[r] = [q EXCEPT !.life = life] \/ requests'[r] = q  BY <2>1, <2>3, <2>5
  <2>9. QED BY <2>3, <2>4, <2>7, <2>8
<1>18. PICK new : new = starts'  OBVIOUS
<1>19. /\ new \in Seq(0..(Spacing - 1))
       /\ \/ Len(new) = 0
          \/ /\ Len(new) = 1 /\ Len(starts) \in {1, 2}
             /\ new[1] = starts[Len(starts)] + 1 /\ starts[Len(starts)] \in Nat
          \/ /\ Len(new) = 2 /\ Len(starts) = 2
             /\ new[1] = starts[1] + 1 /\ new[2] = starts[2] + 1
             /\ starts[1] \in Nat /\ starts[2] \in Nat
  BY <1>18, RecentStarts
<1>20. Shape'  BY <1>10, <1>11, <1>13, <1>15, <1>16, <1>18, <1>19, <1>2 DEF Shape
<1>21. CacheIsCurrent'
  <2>1. SUFFICES ASSUME NEW k \in SymDiff(c.keys, i.keys), fetched < TTL
                 PROVE  since[k] <= fetched + FetchMax
    BY <1>10, <1>11 DEF CacheIsCurrent
  <2>2. k \in Kids  BY <1>2 DEF SymDiff
  <2>3. i.since[k] <= c.fetched + FetchMax
    BY <1>1, <1>8, <2>1 DEF TokenInv, CacheIsCurrent
  <2>4. c.fetched \in Nat  BY <1>2
  <2>5. QED BY <1>7, <1>8, <2>1, <2>2, <2>3, <2>4
<1>22. FetchIsCurrent'
  <2>1. SUFFICES ASSUME NEW k \in SymDiff(f.keys, i.keys), f.got = "keys"
                 PROVE  since[k] <= age
    BY <1>10, <1>13 DEF FetchIsCurrent
  <2>2. k \in Kids  BY <1>2 DEF SymDiff
  <2>3. i.since[k] <= f.age  BY <1>1, <2>1 DEF TokenInv, FetchIsCurrent
  <2>4. f # NoFetch  BY <2>1 DEF NoFetch
  <2>5. f.age \in Nat  BY <1>2
  <2>6. QED BY <1>7, <1>9, <2>2, <2>3, <2>4, <2>5
<1>23. WokenSeesNew'  BY <1>6, <1>16 DEF WokenSeesNew
<1>24. ForcedIsOlder'
  <2>1. SUFFICES ASSUME ~c.failed, forced < Floor PROVE fetched <= forced
    BY <1>11, <1>12 DEF ForcedIsOlder
  <2>2. c.fetched <= c.forced  BY <1>1, <1>8, <2>1 DEF TokenInv, ForcedIsOlder
  <2>3. c.fetched \in Nat /\ c.forced \in Nat  BY <1>2
  <2>4. QED BY <1>8, <2>1, <2>2, <2>3
<1>25. Spaced'
  <2>1. c.fetched \in Nat /\ c.forced \in Nat /\ c.attempted \in Nat /\ f.age \in Nat
    BY <1>2
  <2>2. CASE Len(new) = 0
    <3>1. new = <<>>  BY <1>19, <2>2
    <3>2. QED BY <1>18, <2>2, <3>1 DEF Spaced
  <2>3. CASE Len(new) \in {1, 2}
    <3>1. PICK last : last = starts[Len(starts)]  OBVIOUS
    <3>2. /\ last \in Nat /\ new[Len(new)] = last + 1 /\ Len(starts) \in {1, 2}
      <4>1. CASE Len(new) = 1  BY <1>19, <3>1, <4>1
      <4>2. CASE Len(new) = 2
        <5>1. Len(starts) = 2 /\ new[2] = starts[2] + 1 /\ starts[2] \in Nat
          BY <1>19, <4>2
        <5>2. QED BY <3>1, <4>2, <5>1
      <4>3. QED BY <2>3, <4>1, <4>2
    <3>3. starts # <<>>
      <4>1. Len(<<>>) = 0  OBVIOUS
      <4>2. QED BY <3>2, <4>1
    <3>4. f # NoFetch => last = f.age
      BY <1>1, <3>1, <3>3 DEF TokenInv, Spaced, LastStart
    <3>5. f = NoFetch => c.attempted <= last /\ (c.failed \/ c.fetched <= last)
      BY <1>1, <3>1, <3>3 DEF TokenInv, Spaced, LastStart
    <3>6. f # NoFetch => last + 1 = age  BY <1>9, <3>4
    <3>7. f = NoFetch => attempted <= last + 1  BY <1>8, <2>1, <3>2, <3>5
    <3>8. c.fetched <= last => fetched <= last + 1  BY <1>8, <2>1, <3>2
    <3>9. LastStart' = last + 1  BY <1>18, <3>2 DEF LastStart
    <3>10. Len(new) = 2 => new[1] >= new[2]
                           /\ ((f # NoFetch /\ f.forced) \/ forced <= new[1])
      <4>1. SUFFICES ASSUME Len(new) = 2
                     PROVE  new[1] >= new[2] /\ ((f # NoFetch /\ f.forced) \/ forced <= new[1])
        OBVIOUS
      <4>2. /\ Len(starts) = 2 /\ new[1] = starts[1] + 1 /\ new[2] = starts[2] + 1
            /\ starts[1] \in Nat /\ starts[2] \in Nat
        BY <1>19, <4>1
      <4>3. /\ starts[1] >= starts[2]
            /\ (f # NoFetch /\ f.forced) \/ c.forced <= starts[1]
        BY <1>1, <4>2 DEF TokenInv, Spaced
      <4>4. c.forced <= starts[1] => forced <= new[1]  BY <1>8, <2>1, <4>2
      <4>5. new[1] >= new[2]  BY <4>2, <4>3
      <4>6. CASE c.forced <= starts[1]  BY <4>4, <4>5, <4>6
      <4>7. CASE f # NoFetch /\ f.forced  BY <4>5, <4>7, Zenon
      <4>8. QED BY <4>3, <4>6, <4>7, Zenon
    <3>11. Len(new) <= 2
      <4>1. \A n \in {1, 2} : n <= 2  OBVIOUS
      <4>2. QED BY <2>3, <4>1, Zenon
    <3>12. \/ f # NoFetch /\ fetch' # NoFetch /\ last + 1 = fetch'.age
           \/ /\ fetch' = NoFetch /\ cache'.attempted <= last + 1
              /\ cache'.failed \/ cache'.fetched <= last + 1
      BY <1>11, <1>12, <1>13, <1>15, <3>5, <3>6, <3>7, <3>8, Zenon
    <3>13. Len(new) = 2 => new[1] >= new[2]
             /\ ((fetch' # NoFetch /\ fetch'.forced) \/ cache'.forced <= new[1])
      BY <1>11, <1>14, <1>15, <3>10, Zenon
    <3>14. QED BY <1>18, <3>9, <3>11, <3>12, <3>13, Zenon DEF Spaced
  <2>4. QED BY <1>19, <2>2, <2>3
<1>26. QED BY <1>20, <1>21, <1>22, <1>23, <1>24, <1>25 DEF TokenInv

LEMMA NextToken == TokenInv /\ [TokenNext]_tokenVars => TokenInv'
<1> SUFFICES ASSUME TokenInv, [TokenNext]_tokenVars PROVE TokenInv'  OBVIOUS
<1>1. ASSUME NEW r \in Requests, Send(r) \/ Step(r) \/ Cancel(r) PROVE TokenInv'
  BY <1>1, AskingStep, BeginFetchStep DEF Step
<1>2. CASE Respond  BY <1>2, RespondStep
<1>3. CASE CommitFetch  BY <1>3, CommitFetchStep
<1>4. CASE Rotate \/ Outage  BY <1>4, IssuerStep
<1>5. CASE Tick  BY <1>5, TickStep
<1>6. CASE UNCHANGED tokenVars
  BY <1>6 DEF tokenVars, TokenInv, Shape, CacheIsCurrent, FetchIsCurrent, WokenSeesNew, ForcedIsOlder,
              Spaced, LastStart
<1>7. QED BY <1>1, <1>2, <1>3, <1>4, <1>5, <1>6 DEF TokenNext

(* The invariant holds whatever is asked, and however the issuer behaves.      *)
THEOREM TokenInvariantHolds == TokenSpec => []TokenInv
BY InitToken, NextToken, PTL DEF TokenSpec

(* No stream of requests makes more than two fetches start within the floor,   *)
(* or within the TTL where that is shorter, also while the issuer fails       *)
(* (KeyFor, jwks.go). Nothing is assumed of how the two compare.             *)
THEOREM FetchesSpaced == TokenSpec => []FetchesAreSpaced
<1>1. TokenInv => FetchesAreSpaced  BY DEF TokenInv, Spaced, FetchesAreSpaced
<1>2. QED BY <1>1, TokenInvariantHolds, PTL

-----------------------------------------------------------------------------
(* How a request ends.                                                      *)

(* The issuer has the key, or its last coming or going is not older than age.  *)
Known(kid, age) == kid \in issuer.keys \/ issuer.since[kid] <= age

(* A key in the fresh cache is the issuer's, or was within the cache's age.    *)
LEMMA CachedIsKnown ==
  ASSUME TokenInv, Fresh, NEW kid \in cache.keys
  PROVE  kid \in Kids /\ Known(kid, TTL + FetchMax)
<1> USE Bounds
<1>1. PICK i, c : i = issuer /\ c = cache  OBVIOUS
<1>2. /\ c.keys \subseteq Kids /\ c.fetched \in 0..TTL
      /\ i.since \in [Kids -> 0..Oldest]
  BY <1>1 DEF TokenInv, Shape
<1>3. kid \in Kids  BY <1>1, <1>2
<1>4. CASE kid \in i.keys  BY <1>1, <1>3, <1>4 DEF Known
<1>5. CASE kid \notin i.keys
  <2>1. kid \in SymDiff(c.keys, i.keys)  BY <1>1, <1>5 DEF SymDiff
  <2>2. i.since[kid] <= c.fetched + FetchMax
    BY <1>1, <2>1 DEF TokenInv, CacheIsCurrent, Fresh
  <2>3. i.since[kid] \in Nat /\ c.fetched \in Nat /\ c.fetched <= TTL  BY <1>2, <1>3
  <2>4. i.since[kid] <= TTL + FetchMax  BY <2>2, <2>3
  <2>5. QED BY <1>1, <1>3, <2>4 DEF Known
<1>6. QED BY <1>4, <1>5

(* A key of the issuer that the cache lacks came after the last fetch.         *)
LEMMA MissedIsNew ==
  ASSUME TokenInv, Fresh, NEW kid \in issuer.keys, kid \notin cache.keys,
         cache.fetched < Floor
  PROVE  ~(issuer.since[kid] > Floor + FetchMax)
<1> USE Bounds
<1>1. PICK i, c : i = issuer /\ c = cache  OBVIOUS
<1>2. i.keys \subseteq Kids /\ c.fetched \in 0..TTL /\ i.since \in [Kids -> 0..Oldest]
  BY <1>1 DEF TokenInv, Shape
<1>3. kid \in SymDiff(c.keys, i.keys)  BY <1>1 DEF SymDiff
<1>4. i.since[kid] <= c.fetched + FetchMax
  BY <1>1, <1>3 DEF TokenInv, CacheIsCurrent, Fresh
<1>5. i.since[kid] \in Nat /\ c.fetched \in Nat /\ c.fetched < Floor  BY <1>1, <1>2
<1>6. ~(i.since[kid] > Floor + FetchMax)  BY <1>4, <1>5
<1>7. QED BY <1>1, <1>6

LEMMA TickKeepsPlaces ==
  ASSUME TokenInv, Tick, NEW r \in Requests
  PROVE  requests'[r].pc = requests[r].pc
<1>1. requests' = [q \in Requests |->
        IF Busy(q) /\ requests[q].life > -Leeway
        THEN [requests[q] EXCEPT !.life = requests[q].life - 1] ELSE requests[q]]
  BY DEF Tick
<1>2. PICK q : q = requests[r]  OBVIOUS
<1>3. q \in Request  BY <1>2 DEF TokenInv, Shape
<1>4. PICK life : life = q.life - 1  OBVIOUS
<1>5. [q EXCEPT !.life = life].pc = q.pc  BY <1>3 DEF Request
<1>6. requests'[r] = [q EXCEPT !.life = life] \/ requests'[r] = q  BY <1>1, <1>2, <1>4
<1>7. QED BY <1>2, <1>5, <1>6

(* The ways a request comes to be admitted or not found.                      *)
LEMMA EndingSteps ==
  ASSUME TokenInv, TokenNext, NEW r \in Requests, NEW pc \in {"admitted", "notfound"}, Ends(r, pc)
  PROVE  \/ Hit(r)
         \/ HeldBack(r)
         \/ Wake(r)
         \/ CommitFetch /\ r = fetch.by
<1>1. requests \in [Requests -> Request] /\ requests'[r].pc = pc /\ requests[r].pc # pc
      /\ pc \notin {"asking", "waiting", "fetching", "woken", "out"}
  BY DEF TokenInv, Shape, Ends
<1>2. ASSUME NEW q \in Requests, Hit(q) \/ HeldBack(q) \/ Wake(q)
      PROVE  q = r
  <2>1. q # r => requests'[r] = requests[r]
    BY <1>1, <1>2 DEF Hit, HeldBack, Wake
  <2>2. QED BY <1>1, <2>1
<1>3. ASSUME NEW q \in Requests, Send(q) PROVE FALSE
  <2>1. PICK kid, life :
          requests' = [requests EXCEPT ![q] = [pc |-> "asking", kid |-> kid, life |-> life]]
    BY <1>3 DEF Send
  <2>2. CASE q = r  BY <1>1, <2>1, <2>2
  <2>3. CASE q # r  BY <1>1, <2>1, <2>3
  <2>4. QED BY <2>2, <2>3
<1>4. ASSUME NEW q \in Requests, Join(q) \/ BeginFetch(q) PROVE FALSE
  <2>1. PICK at : at \in {"waiting", "fetching"} /\ requests' = [requests EXCEPT ![q].pc = at]
    BY <1>4 DEF Join, BeginFetch
  <2>2. CASE q = r
    <3>1. PICK old : old = requests[r]  OBVIOUS
    <3>2. old \in Request  BY <1>1, <3>1
    <3>3. requests'[r] = [old EXCEPT !.pc = at]  BY <1>1, <2>1, <2>2, <3>1
    <3>4. requests'[r].pc = at  BY <3>2, <3>3 DEF Request
    <3>5. QED BY <1>1, <2>1, <3>4
  <2>3. CASE q # r
    <3>1. requests'[r] = requests[r]  BY <1>1, <2>1, <2>3
    <3>2. QED BY <1>1, <3>1
  <2>4. QED BY <2>2, <2>3
<1>5. ASSUME NEW q \in Requests, Cancel(q) PROVE FALSE
  <2>1. requests' = [requests EXCEPT ![q] = Over("out")]  BY <1>5 DEF Cancel
  <2>2. CASE q = r
    <3>1. requests'[r].pc = "out"  BY <1>1, <2>1, <2>2 DEF Over
    <3>2. QED BY <1>1, <3>1
  <2>3. CASE q # r
    <3>1. requests'[r] = requests[r]  BY <1>1, <2>1, <2>3
    <3>2. QED BY <1>1, <3>1
  <2>4. QED BY <2>2, <2>3
<1>6. ASSUME CommitFetch PROVE r = fetch.by
  <2>1. SUFFICES ASSUME r # fetch.by PROVE FALSE  OBVIOUS
  <2>2. PICK old : old = requests[r]  OBVIOUS
  <2>3. old \in Request  BY <1>1, <2>2
  <2>4. requests'[r] = old \/ requests'[r] = [old EXCEPT !.pc = "woken"]
    BY <1>6, <2>1, <2>2 DEF CommitFetch
  <2>5. [old EXCEPT !.pc = "woken"].pc = "woken"  BY <2>3 DEF Request
  <2>6. QED BY <1>1, <2>2, <2>4, <2>5
<1>7. ~Tick  BY <1>1, TickKeepsPlaces
<1>8. ~(Respond \/ Rotate \/ Outage)
  <2>1. Respond \/ Rotate \/ Outage => requests' = requests  BY DEF Respond, Rotate, Outage
  <2>2. QED BY <1>1, <2>1
<1>9. QED BY <1>2, <1>3, <1>4, <1>5, <1>6, <1>7, <1>8 DEF TokenNext, Step

(* What the fetch that ends brings.                                         *)
LEMMA FetchedAnswer ==
  ASSUME TokenInv, CommitFetch, NEW r \in Requests, r = fetch.by
  PROVE  LET answer == requests'[r]
             kid == requests[r].kid
         IN  /\ answer.pc = "admitted" =>
                  fetch.got = "keys" /\ kid \in fetch.keys /\ requests[r].life > 0
             /\ answer.pc = "notfound" => fetch.got = "keys" /\ kid \notin fetch.keys
<1>1. PICK f, new : f = fetch /\ new = Committed(f)  OBVIOUS
<1>2. f.got \in {"keys", "error"}  BY <1>1 DEF TokenInv, Shape, CommitFetch
<1>3. cache' = new  BY <1>1 DEF CommitFetch
<1>4. new.failed <=> f.got = "error"  BY <1>1 DEF Committed
<1>5. f.got = "keys" => new.keys = f.keys  BY <1>1 DEF Committed
<1>6. requests'[r] = Answered(requests[r], requests[r].kid \in new.keys, new.failed)
  BY <1>3 DEF CommitFetch
<1>7. /\ requests'[r].pc = "admitted" =>
           ~new.failed /\ requests[r].kid \in new.keys /\ requests[r].life > 0
      /\ requests'[r].pc = "notfound" => ~new.failed /\ requests[r].kid \notin new.keys
  BY <1>6, AnswerType
<1>8. QED BY <1>1, <1>2, <1>4, <1>5, <1>7

LEMMA FetchedIsKnown ==
  ASSUME TokenInv, fetch.got = "keys", NEW kid
  PROVE  /\ kid \in fetch.keys => kid \in Kids /\ Known(kid, TTL + FetchMax)
         /\ kid \in issuer.keys \ fetch.keys => ~(issuer.since[kid] > Floor + FetchMax)
<1> USE Bounds
<1>1. PICK i, f : i = issuer /\ f = fetch  OBVIOUS
<1>2. /\ i.keys \subseteq Kids /\ f.keys \subseteq Kids /\ f.age \in 0..FetchMax
      /\ i.since \in [Kids -> 0..Oldest]
  BY <1>1 DEF TokenInv, Shape
<1>3. \A k \in SymDiff(f.keys, i.keys) : i.since[k] <= f.age
  BY <1>1 DEF TokenInv, FetchIsCurrent
<1>4. \A k \in SymDiff(f.keys, i.keys) :
        i.since[k] <= TTL + FetchMax /\ ~(i.since[k] > Floor + FetchMax)
  <2>1. SUFFICES ASSUME NEW k \in SymDiff(f.keys, i.keys)
                 PROVE  i.since[k] <= TTL + FetchMax /\ ~(i.since[k] > Floor + FetchMax)
    OBVIOUS
  <2>2. k \in Kids  BY <1>2 DEF SymDiff
  <2>3. i.since[k] \in Nat /\ f.age \in Nat /\ f.age <= FetchMax  BY <1>2, <2>2
  <2>4. QED BY <1>3, <2>3
<1>5. QED BY <1>1, <1>2, <1>4 DEF SymDiff, Known

LEMMA AdmittedStep ==
  ASSUME TokenInv, TokenNext, NEW r \in Requests, Ends(r, "admitted")
  PROVE  /\ requests[r].kid \in Kids
         /\ Known(requests[r].kid, TTL + FetchMax)
         /\ requests[r].life > 0
<1>1. requests \in [Requests -> Request] /\ requests'[r].pc = "admitted"
  BY DEF TokenInv, Shape, Ends
<1>2. CASE Hit(r)
  <2>1. Fresh /\ requests[r].kid \in cache.keys /\ requests'[r] = WithKey(requests[r])
    BY <1>1, <1>2 DEF Hit
  <2>2. requests[r].life > 0  BY <1>1, <2>1, AnswerType
  <2>3. QED BY <2>1, <2>2, CachedIsKnown
<1>3. CASE HeldBack(r)
  <2>1. requests'[r] = Answered(requests[r], FALSE, cache.failed)  BY <1>1, <1>3 DEF HeldBack
  <2>2. QED BY <1>1, <2>1, AnswerType
<1>4. CASE Wake(r)
  <2>1. requests'[r] = Answered(requests[r], requests[r].kid \in cache.keys, cache.failed)
    BY <1>1, <1>4 DEF Wake
  <2>2. ~cache.failed /\ requests[r].kid \in cache.keys /\ requests[r].life > 0
    BY <1>1, <2>1, AnswerType
  <2>3. cache.fetched = 0  BY <1>4, <2>2 DEF Wake, TokenInv, WokenSeesNew
  <2>4. Fresh  BY <2>3, Bounds DEF Fresh
  <2>5. QED BY <2>2, <2>4, CachedIsKnown
<1>5. CASE CommitFetch /\ r = fetch.by
  BY <1>1, <1>5, FetchedAnswer, FetchedIsKnown
<1>6. QED BY <1>2, <1>3, <1>4, <1>5, EndingSteps

LEMMA NotFoundStep ==
  ASSUME TokenInv, TokenNext, NEW r \in Requests, Ends(r, "notfound"),
         requests[r].kid \in issuer.keys
  PROVE  ~(issuer.since[requests[r].kid] > Floor + FetchMax)
<1>1. requests \in [Requests -> Request] /\ requests'[r].pc = "notfound"
  BY DEF TokenInv, Shape, Ends
<1>2. CASE Hit(r)
  <2>1. requests'[r] = WithKey(requests[r])  BY <1>1, <1>2 DEF Hit
  <2>2. QED BY <1>1, <2>1, AnswerType
<1>3. CASE HeldBack(r)
  <2>1. requests'[r] = Answered(requests[r], FALSE, cache.failed)  BY <1>1, <1>3 DEF HeldBack
  <2>2. ~cache.failed  BY <1>1, <2>1, AnswerType
  <2>3. Fresh /\ cache.forced < Floor
    BY <1>3, <2>2 DEF HeldBack, ErrorFloorActive, ForcedFloorActive
  <2>4. cache.fetched <= cache.forced  BY <2>2, <2>3 DEF TokenInv, ForcedIsOlder
  <2>5. cache.fetched < Floor
    <3>1. PICK c : c = cache  OBVIOUS
    <3>2. c.fetched \in 0..TTL /\ c.forced \in 0..Floor  BY <3>1 DEF TokenInv, Shape
    <3>3. c.fetched < Floor  BY <2>3, <2>4, <3>1, <3>2, Bounds
    <3>4. QED BY <3>1, <3>3
  <2>6. requests[r].kid \notin cache.keys  BY <1>3, <2>3 DEF HeldBack, Missed
  <2>7. QED BY <2>3, <2>5, <2>6, MissedIsNew
<1>4. CASE Wake(r)
  <2>1. requests'[r] = Answered(requests[r], requests[r].kid \in cache.keys, cache.failed)
    BY <1>1, <1>4 DEF Wake
  <2>2. ~cache.failed /\ requests[r].kid \notin cache.keys  BY <1>1, <2>1, AnswerType
  <2>3. cache.fetched = 0  BY <1>4, <2>2 DEF Wake, TokenInv, WokenSeesNew
  <2>4. Fresh /\ cache.fetched < Floor  BY <2>3, Bounds DEF Fresh
  <2>5. QED BY <2>2, <2>4, MissedIsNew
<1>5. CASE CommitFetch /\ r = fetch.by
  BY <1>1, <1>5, FetchedAnswer, FetchedIsKnown
<1>6. QED BY <1>2, <1>3, <1>4, <1>5, EndingSteps

(* A request is admitted with a key that was the issuer's within the TTL and   *)
(* one fetch, and with a token that has not expired: for any number of       *)
(* requests, and however the issuer rotates its keys and fails (KeyFor,      *)
(* Middleware).                                                             *)
THEOREM AdmittedAreCurrent == TokenSpec => AdmittedIsCurrent
<1>1. TokenInv /\ [TokenNext]_tokenVars =>
        [\A r \in Requests : Ends(r, "admitted") =>
           LET kid == requests[r].kid IN
           /\ kid \in Kids
           /\ kid \in issuer.keys \/ issuer.since[kid] <= TTL + FetchMax
           /\ requests[r].life > 0]_tokenVars
  BY AdmittedStep DEF Known
<1>2. QED BY <1>1, TokenInvariantHolds, PTL DEF TokenSpec, AdmittedIsCurrent

(* No stream of unknown key ids, and no stale answer, hides a key the issuer  *)
(* has had for longer than the floor and one fetch (KeyFor).                  *)
THEOREM RotationsAreSeen == TokenSpec => RotationIsSeen
<1>1. TokenInv /\ [TokenNext]_tokenVars =>
        [\A r \in Requests : Ends(r, "notfound") =>
           LET kid == requests[r].kid IN
           ~(/\ kid \in issuer.keys /\ issuer.since[kid] > Floor + FetchMax
             /\ issuer.up /\ issuer.upFor > Floor + FetchMax)]_tokenVars
  BY NotFoundStep
<1>2. QED BY <1>1, TokenInvariantHolds, PTL DEF TokenSpec, RotationIsSeen
=============================================================================
