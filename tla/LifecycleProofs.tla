---------------------------- MODULE LifecycleProofs ----------------------------
(***************************************************************************)
(* What a process that serves has, what a stopped one has left, and the    *)
(* browser contexts, for any number of requests, workers and providers.    *)
(*                                                                         *)
(* The invariant says what each phase of startup() and shutdown() has      *)
(* achieved; a phase is left only when its part is complete, and no        *)
(* request is in flight but while the process serves or drains.            *)
(***************************************************************************)
EXTENDS Lifecycle, FiniteSetTheorems, WellFoundedInduction, TLAPS

Accepting == {"serving", "draining"}
Stopping == {"pool", "registry", "database", "stopped"}

(* Nobody is served outside of the two phases. *)
Quiet == main \notin Accepting => \A r \in Requests : pc[r] = "none"

(* What startup() has achieved in each of its phases. *)
Started ==
    /\ main = "down" => refreshing = {} /\ ~database
    /\ main = "connect" => dsn /\ ~database /\ refreshing = {}
    /\ main = "migrate" => refreshing = {}
    /\ main \in {"migrate", "providers", "workers"} \union Accepting => database = dsn
    /\ main = "providers" => refreshing \subseteq enabled \cap Managed
    /\ main \in {"workers"} \union Accepting =>
         /\ refreshing = enabled \cap Managed /\ checker
         /\ primary \in enabled
         /\ fallback \in enabled \union {NoProvider} /\ fallback # primary
    /\ main \in Accepting => browser = Workers

(* What shutdown() has achieved in each of its phases. *)
Stopped ==
    /\ main \in Stopping => ~checker
    /\ main \in {"database", "stopped"} => refreshing = {}
    /\ main = "stopped" /\ database => TheDatabase \in raised

(* A worker is leased once; its scrape alone has a context.                *)
OneLease ==
    /\ \A r \in Requests : on[r] # NoWorker <=> pc[r] \in {"context", "page", "goto", "record"}
    /\ \A r, q \in Requests : on[r] = on[q] /\ on[r] # NoWorker => r = q

InContext(w) == \E r \in Requests : on[r] = w /\ pc[r] \in {"page", "goto"}

ContextsOK ==
    /\ \A w \in Workers \ spoiled : contexts[w] = IF InContext(w) THEN 1 ELSE 0
    /\ \A w \in Workers : InContext(w) => contexts[w] >= 1

LInv == TypeOK /\ Quiet /\ Started /\ Stopped /\ OneLease /\ ContextsOK

-------------------------------------------------------------------------------
(* A process that is down has nothing. *)
LEMMA InitLInv == Init => LInv
  <1> SUFFICES ASSUME Init PROVE LInv
    OBVIOUS
  <1> USE LifecycleAssumption DEF Init, Accepting, Stopping
  <1>1. TypeOK
    BY DEF TypeOK
  <1>2. Quiet /\ Started /\ Stopped
    BY DEF Quiet, Started, Stopped
  <1>3. OneLease /\ ContextsOK
    BY DEF OneLease, ContextsOK, InContext
  <1>4. QED BY <1>1, <1>2, <1>3 DEF LInv

(* The breakers are of different providers, both of them enabled.          *)
LEMMA BreakersDiffer ==
    ASSUME NEW p \in Providers, NEW f \in Providers, enabled \subseteq Providers,
           Breakers(p, f, enabled)[1] \in enabled
    PROVE  LET chosen == Breakers(p, f, enabled)
           IN  /\ chosen[2] \in enabled \union {NoProvider}
               /\ chosen[2] # chosen[1]
  BY LifecycleAssumption DEF Breakers

(* startup() *)
LEMMA StartupKeeps ==
    ASSUME LInv,
           \/ Boot \/ ConnectDatabase \/ Migrate \/ StartProvider \/ WireBreakers \/ StartWorker
           \/ Serve
    PROVE  LInv'
  <1> USE LifecycleAssumption
      DEF LInv, TypeOK, Quiet, Started, Stopped, OneLease, ContextsOK, InContext,
          Accepting, Stopping, config, parts, providers, requests
  <1>1. CASE Boot
    BY <1>1 DEF Boot
  <1>2. CASE ConnectDatabase
    BY <1>2 DEF ConnectDatabase
  <1>3. CASE Migrate
    BY <1>3 DEF Migrate
  <1>4. CASE StartProvider
    BY <1>4 DEF StartProvider
  <1>5. CASE WireBreakers
    <2>1. PICK p \in Providers, f \in Providers :
            /\ Breakers(p, f, enabled)[1] \in enabled
            /\ primary' = Breakers(p, f, enabled)[1]
            /\ fallback' = Breakers(p, f, enabled)[2]
      BY <1>5 DEF WireBreakers
    <2>2. /\ primary' \in enabled
          /\ fallback' \in enabled \union {NoProvider} /\ fallback' # primary'
      BY <2>1, BreakersDiffer
    <2>3. QED BY <1>5, <2>2 DEF WireBreakers
  <1>6. CASE StartWorker
    BY <1>6 DEF StartWorker
  <1>7. CASE Serve
    BY <1>7 DEF Serve
  <1>8. QED BY <1>1, <1>2, <1>3, <1>4, <1>5, <1>6, <1>7

(* A step of a request: it is served, and touches no part of the process.  *)
LEMMA PartsUntouched ==
    ASSUME LInv, TypeOK', UNCHANGED <<main, config, providers, parts>>,
           main \in Accepting \/ pc' = pc, OneLease', ContextsOK'
    PROVE  LInv'
  BY DEF LInv, Quiet, Started, Stopped, config, providers, parts

(* Requests *)
LEMMA RequestKeeps ==
    ASSUME LInv, NEW r \in Requests,
           Begin(r) \/ Connect(r) \/ Lease(r) \/ Serving(r) \/ Cancel(r)
    PROVE  LInv'
  <1>1. main \in Accepting
    BY DEF LInv, Quiet, TypeOK, Accepting, Begin, Connect, Querying, Lease, Serving, Query,
           NewContext, NewPage, Visit, Cancel
  <1>2. CASE Begin(r) \/ Connect(r)
    <2>1. TypeOK' /\ OneLease' /\ ContextsOK'
      BY <1>2 DEF Begin, Connect, Goto, LInv, TypeOK, OneLease, ContextsOK, InContext,
                  Querying, config, providers, parts
    <2>2. QED BY <1>1, <1>2, <2>1, PartsUntouched DEF Begin, Connect
  <1>3. CASE Query(r)
    <2>1. TypeOK' /\ OneLease' /\ ContextsOK'
      BY <1>3 DEF Query, Querying, Returned, Goto, LInv, TypeOK, OneLease, ContextsOK, InContext,
                  config, providers, parts
    <2>2. QED BY <1>1, <1>3, <2>1, PartsUntouched DEF Query
  <1>4. CASE Lease(r)
    <2>1. TypeOK' /\ OneLease' /\ ContextsOK'
      BY <1>4, LifecycleAssumption
         DEF Lease, Goto, LInv, TypeOK, OneLease, ContextsOK, InContext, config, providers, parts
    <2>2. QED BY <1>1, <1>4, <2>1, PartsUntouched DEF Lease
  <1>5. CASE NewContext(r)
    <2>1. TypeOK' /\ OneLease' /\ ContextsOK'
      BY <1>5 DEF NewContext, Goto, LInv, TypeOK, OneLease, ContextsOK, InContext,
                  config, providers, parts
    <2>2. QED BY <1>1, <1>5, <2>1, PartsUntouched DEF NewContext
  <1>6. CASE NewPage(r)
    <2>1. TypeOK' /\ OneLease' /\ ContextsOK'
      BY <1>6 DEF NewPage, Goto, LInv, TypeOK, OneLease, ContextsOK, InContext,
                  config, providers, parts
    <2>2. QED BY <1>1, <1>6, <2>1, PartsUntouched DEF NewPage
  <1>7. CASE Visit(r)
    <2>1. TypeOK' /\ OneLease' /\ ContextsOK'
      <3>1. /\ pc[r] = "goto" /\ pc' = [pc EXCEPT ![r] = "record"]
            /\ contexts' = [contexts EXCEPT ![on[r]] = contexts[on[r]] - 1]
            /\ UNCHANGED <<main, config, providers, parts, on, conns, spoiled>>
        BY <1>7 DEF Visit, Goto
      <3>2. on[r] \in Workers /\ InContext(on[r]) /\ contexts[on[r]] >= 1
        BY <3>1 DEF LInv, TypeOK, OneLease, ContextsOK, InContext
      <3>3. /\ ~InContext(on[r])'
            /\ \A w \in Workers \ {on[r]} : InContext(w)' <=> InContext(w)
        BY <3>1, <3>2, LifecycleAssumption DEF LInv, TypeOK, OneLease, InContext
      <3>4. TypeOK'
        BY <3>1, <3>2 DEF LInv, TypeOK, config, providers, parts
      <3>5. OneLease'
        BY <3>1 DEF LInv, TypeOK, OneLease
      <3>6. ContextsOK'
        BY <3>1, <3>2, <3>3 DEF LInv, TypeOK, ContextsOK
      <3>7. QED BY <3>4, <3>5, <3>6
    <2>2. QED BY <1>1, <1>7, <2>1, PartsUntouched DEF Visit
  <1>8. CASE Cancel(r)
    <2>1. PICK w : w = on[r]
      OBVIOUS
    <2>2. /\ pc' = [pc EXCEPT ![r] = "none"] /\ on' = [on EXCEPT ![r] = NoWorker]
          /\ conns' = conns \ {r}
          /\ UNCHANGED <<main, config, providers, parts>>
          /\ \/ /\ pc[r] = "goto" /\ contexts' = [contexts EXCEPT ![w] = contexts[w] - 1]
                /\ UNCHANGED spoiled
             \/ /\ pc[r] \in {"page", "goto"} /\ spoiled' = spoiled \union {w}
                /\ UNCHANGED contexts
             \/ /\ pc[r] = "context" /\ contexts' = [contexts EXCEPT ![w] = contexts[w] + 1]
                /\ spoiled' = spoiled \union {w}
             \/ pc[r] \notin {"page", "goto"} /\ UNCHANGED <<contexts, spoiled>>
      BY <1>8, <2>1 DEF Cancel, Goto
    <2>3. OneLease'
      BY <2>2 DEF LInv, TypeOK, OneLease
    <2>4. \A v \in Workers : v # w => (InContext(v)' <=> InContext(v))
      BY <2>1, <2>2, LifecycleAssumption DEF LInv, TypeOK, InContext
    <2>5. w \in Workers => ~InContext(w)'
      <3>1. \A q \in Requests \ {r} : on[q] = w /\ w # NoWorker => FALSE
        BY <2>1 DEF LInv, OneLease
      <3>2. w \in Workers => w # NoWorker
        BY LifecycleAssumption
      <3>3. QED BY <2>2, <3>1, <3>2, LifecycleAssumption DEF LInv, TypeOK, InContext
    <2>6. pc[r] \in {"context", "page", "goto"} => w \in Workers
      BY <2>1 DEF LInv, TypeOK, OneLease
    <2>7. pc[r] = "goto" => contexts[w] >= 1
      BY <2>1, <2>6 DEF LInv, ContextsOK, InContext
    <2>8. pc[r] \notin {"page", "goto"} /\ w \in Workers => ~InContext(w)
      BY <2>1, LifecycleAssumption DEF LInv, TypeOK, OneLease, InContext
    <2>9. TypeOK'
      BY <2>2, <2>6, <2>7 DEF LInv, TypeOK, config, providers, parts
    <2>10. ContextsOK'
      <3>1. \A v \in Workers : v # w => contexts'[v] = contexts[v]
        BY <2>2 DEF LInv, TypeOK
      <3>2. \A v \in Workers : v # w => (v \in spoiled' <=> v \in spoiled)
        BY <2>2
      <3>3. ASSUME w \in Workers, w \notin spoiled' PROVE contexts'[w] = 0
        BY <2>2, <2>6, <2>7, <2>8, <3>3 DEF LInv, TypeOK, ContextsOK, InContext
      <3>4. QED BY <2>4, <2>5, <3>1, <3>2, <3>3 DEF LInv, ContextsOK
    <2>11. QED BY <1>1, <2>2, <2>3, <2>9, <2>10, PartsUntouched
  <1>9. QED BY <1>2, <1>3, <1>4, <1>5, <1>6, <1>7, <1>8 DEF Serving

(* shutdown() *)
LEMMA ShutdownKeeps ==
    ASSUME LInv, Signal \/ Shutdown \/ Exit
    PROVE  LInv'
  <1> USE LifecycleAssumption
      DEF LInv, TypeOK, Quiet, Started, Stopped, OneLease, ContextsOK, InContext,
          Accepting, Stopping, config, parts, providers, requests
  <1>1. CASE Signal
    BY <1>1 DEF Signal
  <1>2. CASE StopChecker
    BY <1>2 DEF StopChecker
  <1>3. CASE StopWorker
    <2>1. PICK w \in driver :
            /\ NextToStop(w)
            /\ \/ /\ browser' = browser \ {w}
                  /\ contexts' = [contexts EXCEPT ![w] = 0]
                  /\ spoiled' = spoiled \ {w}
                  /\ UNCHANGED <<driver, main, raised>>
               \/ driver' = driver \ {w} /\ UNCHANGED <<browser, contexts, spoiled, main, raised>>
               \/ /\ raised' = raised \union {w} /\ main' = "registry"
                  /\ UNCHANGED <<driver, browser, contexts, spoiled>>
      BY <1>3 DEF StopWorker, AfterRaise
    <2>2. /\ main = "pool" /\ w \in Workers
          /\ UNCHANGED <<config, providers, database, refreshing, checker, pc, on, conns>>
      BY <1>3 DEF StopWorker
    <2>3. TypeOK' /\ Quiet' /\ Started' /\ OneLease'
      BY <2>1, <2>2
    <2>4. ContextsOK'
      <3>1. \A v \in Workers : ~InContext(v) /\ ~InContext(v)'
        BY <2>2
      <3>2. QED BY <2>1, <2>2, <3>1
    <2>5. Stopped'
      BY <2>1, <2>2
    <2>6. QED BY <2>3, <2>4, <2>5
  <1>4. CASE StopProviders
    BY <1>4 DEF StopProviders
  <1>5. CASE Disconnect
    <2>1. /\ main = "database" /\ main' = "stopped"
          /\ UNCHANGED <<config, providers, refreshing, checker, driver, browser, requests>>
          /\ \/ ~database /\ UNCHANGED <<database, raised>>
             \/ database' = FALSE /\ UNCHANGED raised
             \/ raised' = raised \union {TheDatabase} /\ UNCHANGED database
      BY <1>5 DEF Disconnect
    <2>2. TypeOK' /\ Quiet' /\ Started' /\ OneLease' /\ ContextsOK'
      BY <2>1
    <2>3. Stopped'
      BY <2>1
    <2>4. QED BY <2>2, <2>3
  <1>6. CASE Exit
    BY <1>6 DEF Exit
  <1>7. QED BY <1>1, <1>2, <1>3, <1>4, <1>5, <1>6 DEF Shutdown

(* Every step keeps the invariant. *)
LEMMA NextLInv == LInv /\ [Next]_vars => LInv'
  <1> SUFFICES ASSUME LInv, [Next]_vars PROVE LInv'
    OBVIOUS
  <1>1. CASE UNCHANGED vars
    BY <1>1 DEF vars, config, providers, parts, requests, LInv, TypeOK, Quiet, Started, Stopped,
                OneLease, ContextsOK, InContext
  <1>2. QED BY <1>1, StartupKeeps, RequestKeeps, ShutdownKeeps DEF Next

(* The invariant holds in every reachable state. *)
THEOREM Invariance == Spec => []LInv
  BY InitLInv, NextLInv, PTL DEF Spec

-------------------------------------------------------------------------------
(* Requests are served only by a process whose every part runs.            *)
THEOREM ServedWhenReady == Spec => []ReadyToServe
  <1>1. LInv => ReadyToServe
    BY DEF LInv, Quiet, Started, ReadyToServe, Accepting
  <1>2. QED BY <1>1, Invariance, PTL

(* A worker or a database that refuses to stop keeps shutdown() from       *)
(* stopping no refresh task, no health checker and no other pool; which    *)
(* workers it leaves running is not claimed.                               *)
THEOREM RestStopped == Spec => []StopsTheRest
  <1>1. LInv => StopsTheRest
    BY DEF LInv, Stopped, StopsTheRest, Stopping
  <1>2. QED BY <1>1, Invariance, PTL

(* A browser holds exactly the context of the scrape that uses it, through *)
(* failures and cancellations, until new_page() has raised in it or a      *)
(* cancellation has met the opening or the closing of a context.           *)
THEOREM ContextsExact == Spec => []ContextsClosed
  <1>1. LInv => ContextsClosed
    <2> SUFFICES ASSUME LInv, NEW w \in browser \ spoiled
                 PROVE  contexts[w] =
                          Cardinality({r \in Requests : on[r] = w /\ pc[r] \in {"page", "goto"}})
      BY DEF ContextsClosed
    <2> DEFINE Users == {r \in Requests : on[r] = w /\ pc[r] \in {"page", "goto"}}
    <2>1. w \in Workers \ spoiled /\ w # NoWorker
      BY LifecycleAssumption DEF LInv, TypeOK
    <2>2. CASE InContext(w)
      <3>1. PICK r \in Requests : on[r] = w /\ pc[r] \in {"page", "goto"}
        BY <2>2 DEF InContext
      <3>2. Users = {r}
        BY <2>1, <3>1 DEF LInv, OneLease
      <3>3. Cardinality(Users) = 1
        BY <3>2, FS_Singleton
      <3>4. QED BY <2>1, <2>2, <3>3 DEF LInv, ContextsOK
    <2>3. CASE ~InContext(w)
      <3>1. Users = {}
        BY <2>3 DEF InContext
      <3>2. Cardinality(Users) = 0
        BY <3>1, FS_EmptySet
      <3>3. QED BY <2>1, <2>3, <3>2 DEF LInv, ContextsOK
    <2>4. QED BY <2>2, <2>3
  <1>2. QED BY <1>1, Invariance, PTL
-------------------------------------------------------------------------------
(* A connection is in the hands of a request whose query is still running. *)
ConnsOK == \A r \in conns : Querying(r) /\ dsn

(* Every query gives its connection back, and the process changes its      *)
(* configuration only when it is down or ends.                             *)
LEMMA NextConnsOK == LInv /\ ConnsOK /\ [Next]_vars => ConnsOK'
  <1> SUFFICES ASSUME LInv, ConnsOK, [Next]_vars PROVE ConnsOK'
    OBVIOUS
  <1> USE DEF ConnsOK, Querying, Goto
  <1>1. ASSUME NEW r \in Requests, Begin(r) \/ Connect(r) \/ Lease(r) \/ Serving(r) \/ Cancel(r)
        PROVE  ConnsOK'
    <2>1. conns \subseteq Requests /\ pc \in [Requests -> {"none", "check", "lease", "context",
                                                        "page", "goto", "record"}]
      BY DEF LInv, TypeOK
    <2>2. CASE Begin(r) \/ Connect(r)
      BY <2>1, <2>2 DEF Begin, Connect, config
    <2>3. CASE Query(r)
      BY <2>1, <2>3 DEF Query, Returned, config
    <2>4. CASE Lease(r) \/ NewContext(r) \/ NewPage(r) \/ Visit(r)
      BY <2>1, <2>4 DEF Lease, NewContext, NewPage, Visit, config
    <2>5. CASE Cancel(r)
      BY <2>1, <2>5 DEF Cancel, config
    <2>6. QED BY <1>1, <2>2, <2>3, <2>4, <2>5 DEF Serving
  <1>2. CASE Boot
    <2>1. conns = {} /\ UNCHANGED conns
      BY <1>2 DEF Boot, LInv, TypeOK, Quiet, Accepting, requests
    <2>2. QED BY <2>1
  <1>3. CASE Exit
    BY <1>3 DEF Exit
  <1>4. CASE \/ ConnectDatabase \/ Migrate \/ StartProvider \/ WireBreakers \/ StartWorker \/ Serve
             \/ Signal \/ Shutdown \/ UNCHANGED vars
    <2>1. UNCHANGED <<pc, conns, dsn>>
      BY <1>4 DEF ConnectDatabase, Migrate, StartProvider, WireBreakers, StartWorker, Serve, Signal,
                  Shutdown, StopChecker, StopWorker, StopProviders, Disconnect, vars, config, requests
    <2>2. QED BY <2>1
  <1>5. QED BY <1>1, <1>2, <1>3, <1>4 DEF Next

(* Connections come back: none is kept on any way out of a query.          *)
THEOREM ConnectionsReturned == Spec => []ConnsOK
  <1>1. Init => ConnsOK
    BY DEF Init, ConnsOK
  <1>2. QED BY <1>1, NextConnsOK, Invariance, PTL DEF Spec

(* A request that waits for a connection finds one, or every one of them   *)
(* in a query; one that waits for a worker finds one, or each held by a    *)
(* scrape, whose own steps wait for a connection at most; and shutdown()   *)
(* finds its next worker to stop, and every connection returned.           *)
NoCircularWait ==
    /\ \A r \in Requests : Querying(r) /\ (dsn => r \notin conns) =>
         ~dsn \/ Cardinality(conns) < MaxPool \/ \E q \in conns : Querying(q)
    /\ \A w \in Workers :
         \/ \A q \in Requests : on[q] # w
         \/ \E q \in Requests : on[q] = w /\ pc[q] \in {"context", "page", "goto", "record"}
    /\ main = "pool" => driver = {} \/ \E w \in driver : NextToStop(w)
    /\ main = "database" => conns = {}

(* A set of workers has a first one. *)
LEMMA FirstWorker ==
    ASSUME NEW S \in SUBSET Workers, S # {}
    PROVE  \E w \in S : \A v \in S : w <= v
  <1> DEFINE Less == {p \in Nat \X Nat : p[1] < p[2]}
  <1>1. IsWellFoundedOn(Less, Nat)
    <2>1. Less = OpToRel(<, Nat)
      BY Zenon DEF OpToRel
    <2>2. QED BY <2>1, NatLessThanWellFounded, Zenon
  <1>2. S \in SUBSET Nat
    BY LifecycleAssumption DEF Workers
  <1>3. PICK m \in S : \A y \in S : ~(<<y, m>> \in Less)
    <2> HIDE DEF Less
    <2> QED BY <1>1, <1>2, WFMin
  <1>4. \A y \in S : m <= y
    <2> SUFFICES ASSUME NEW y \in S PROVE m <= y
      OBVIOUS
    <2>1. ~(y < m)
      BY <1>2, <1>3
    <2>2. QED BY <1>2, <2>1
  <1>5. QED BY <1>4

(* So nothing a process serves or stops waits in a circle: the safety half *)
(* of ShutdownEnds.                                                        *)
THEOREM NoneWaitsInCircle == Spec => []NoCircularWait
  <1>1. LInv /\ ConnsOK => NoCircularWait
    <2> SUFFICES ASSUME LInv, ConnsOK PROVE NoCircularWait
      OBVIOUS
    <2>1. ASSUME NEW r \in Requests, dsn, ~(Cardinality(conns) < MaxPool)
          PROVE  \E q \in conns : Querying(q)
      <3>1. conns # {}
        BY <2>1, FS_EmptySet, LifecycleAssumption
      <3>2. QED BY <3>1 DEF ConnsOK
    <2>2. ASSUME NEW w \in Workers, NEW q \in Requests, on[q] = w
          PROVE  pc[q] \in {"context", "page", "goto", "record"}
      BY <2>2, LifecycleAssumption DEF LInv, OneLease
    <2>3. ASSUME main = "pool", driver # {} PROVE \E w \in driver : NextToStop(w)
      BY <2>3, FirstWorker DEF NextToStop, LInv, TypeOK
    <2>4. ASSUME main = "database" PROVE conns = {}
      BY <2>4 DEF LInv, TypeOK, Quiet, Accepting, ConnsOK, Querying
    <2>5. QED BY <2>1, <2>2, <2>3, <2>4 DEF NoCircularWait
  <1>2. QED BY <1>1, ConnectionsReturned, Invariance, PTL

-------------------------------------------------------------------------------
(* How many steps a request and a shutdown take from each place, at most;  *)
(* the stages of shutdown() that stop one part after the other repeat.     *)
RequestLeft ==
    [none |-> 0, record |-> 1, goto |-> 2, page |-> 3, context |-> 4, lease |-> 5, check |-> 6]
StageLeft == [stopped |-> 0, database |-> 1, registry |-> 2, pool |-> 3, draining |-> 4]

(* While the process drains, requests only go on; every step of shutdown() *)
(* ends a stage or stops one more part.                                    *)
Advances ==
    /\ \A r \in Requests : main = "draining" /\ pc'[r] # pc[r] =>
         RequestLeft[pc'[r]] < RequestLeft[pc[r]]
    /\ Shutdown =>
         \/ StageLeft[main'] < StageLeft[main]
         \/ /\ main' = main
            /\ driver' \subseteq driver /\ browser' \subseteq browser /\ refreshing' \subseteq refreshing
            /\ <<driver', browser', refreshing'>> # <<driver, browser, refreshing>>

(* So a process that is told to stop does after a bounded number of steps. *)
THEOREM ShutdownAdvances == Spec => [][Advances]_vars
  <1>1. LInv /\ [Next]_vars => [Advances]_vars
    <2> SUFFICES ASSUME LInv, Next PROVE Advances
      OBVIOUS
    <2>1. ASSUME NEW r \in Requests, main = "draining", pc'[r] # pc[r]
          PROVE  RequestLeft[pc'[r]] < RequestLeft[pc[r]]
      <3>1. CASE \E q \in Requests : Lease(q) \/ Serving(q) \/ Cancel(q)
        BY <2>1, <3>1 DEF Lease, Serving, Query, Querying, NewContext, NewPage, Visit, Cancel, Goto,
                          LInv, TypeOK, RequestLeft
      <3>2. CASE Exit
        BY <2>1, <3>2 DEF Exit, LInv, TypeOK, RequestLeft
      <3>3. CASE \/ \E q \in Requests : Begin(q) \/ Connect(q)
                 \/ Boot \/ ConnectDatabase \/ Migrate \/ StartProvider \/ WireBreakers
                 \/ StartWorker \/ Serve \/ Signal \/ Shutdown
        BY <2>1, <3>3 DEF Begin, Connect, Boot, ConnectDatabase, Migrate, StartProvider,
                          WireBreakers, StartWorker, Serve, Signal, Shutdown, StopChecker,
                          StopWorker, StopProviders, Disconnect, requests
      <3>4. QED BY <3>1, <3>2, <3>3 DEF Next
    <2>2. ASSUME StopChecker \/ Disconnect
          PROVE  StageLeft[main'] < StageLeft[main]
      BY <2>2 DEF StopChecker, Disconnect, StageLeft
    <2>3. ASSUME StopWorker
          PROVE  \/ StageLeft[main'] < StageLeft[main]
                 \/ /\ main' = main /\ UNCHANGED refreshing
                    /\ driver' \subseteq driver /\ browser' \subseteq browser
                    /\ driver' # driver \/ browser' # browser
      BY <2>3 DEF StopWorker, AfterRaise, StageLeft
    <2>4. ASSUME StopProviders
          PROVE  \/ StageLeft[main'] < StageLeft[main]
                 \/ /\ main' = main /\ UNCHANGED <<driver, browser>>
                    /\ refreshing' \subseteq refreshing /\ refreshing' # refreshing
      BY <2>4 DEF StopProviders, StageLeft, parts
    <2>5. QED BY <2>1, <2>2, <2>3, <2>4 DEF Advances, Shutdown
  <1>2. QED BY <1>1, Invariance, PTL DEF Spec
===============================================================================
