--------------------------- MODULE OperatorProofs ---------------------------
(***************************************************************************)
(* Proofs about Operator, for any number of resources, abandoned handlers, *)
(* moves and scenarios: its types, that an application is listed once when *)
(* no call is lost, and that one which has left the cluster is uninstalled *)
(* or has a clean-up under way, when no process ends and no uninstallation *)
(* or clean-up fails either.                                               *)
(***************************************************************************)
EXTENDS Operator, TLAPS

Keys == Workers \cup Slots

\* What ListedOnce assumes of a behaviour.
NoCallLost == "lost call" \notin may

\* A handler k that works on application a.
WorksOn(k, a) == handler[k] # None /\ handler[k].of = a

\* A handler that has found the repository listed, and a deletion that has found
\* the application: it is still there, or a deletion has kept the mutex and
\* this handler never goes on.
ScannedInv ==
  \A k \in Keys, a \in Apps : WorksOn(k, a) /\ handler[k].at = "scanned" =>
    /\ RepoOf[a] \in registered
    /\ handler[k].op = "delete" => RepoOf[a] \in locked \/ entries[a] > 0

ListedInv ==
  \A a \in Apps :
    /\ entries[a] > 0 => RepoOf[a] \in registered
    /\ a \in known => entries[a] > 0

\* No handler is abandoned, and the only one that adds applications has not
\* found its own.
OnceFor(a) ==
  /\ entries[a] <= 1
  /\ /\ WorksOn("application", a)
     /\ handler["application"].op = "add" /\ handler["application"].at = "scanned"
     => entries[a] = 0

OnceInv ==
  NoCallLost =>
    (\A s \in Slots : handler[s] = None) /\ (\A a \in Apps : OnceFor(a))

\* What is installed is listed with its revision or a clean-up will meet it; a
\* resource without a finalizer was never sent to the server or has been deleted
\* there, as one whose deletion is answered.
GoneFor(a) ==
  /\ a \in installed => a \in known \/ cleaning[a] > 0
  /\ resource[a] \in {"gone", "new"} => entries[a] = 0 /\ ~WorksOn("application", a)
  /\ /\ WorksOn("application", a)
     /\ handler["application"].op = "delete" /\ handler["application"].at = "ok"
     => entries[a] = 0

GoneInv ==
  Undisturbed => \A a \in Apps : GoneFor(a)

IInv == TypeOK /\ ScannedInv /\ ListedInv /\ OnceInv /\ GoneInv

LEMMA InitInv == Init => IInv
<1> SUFFICES ASSUME Init PROVE IInv
  OBVIOUS
<1> USE ResourcesAssumption DEF Init
<1>1. TypeOK
  BY DEF TypeOK
<1>2. ScannedInv /\ OnceInv /\ GoneInv
  BY DEF ScannedInv, OnceInv, OnceFor, NoCallLost, GoneInv, GoneFor, Undisturbed,
         WorksOn, Keys, Workers, Resources
<1>3. ListedInv
  BY DEF ListedInv
<1> QED BY <1>1, <1>2, <1>3 DEF IInv

-----------------------------------------------------------------------------
\* The steps outside the server.
LEMMA RequestType ==
  ASSUME NEW op \in {"add", "delete"}, NEW x \in Resources,
         NEW at \in {"called", "holding", "scanned", "stale", "ok", "error"}
  PROVE  /\ Request(op, x, at) \in Requests
         /\ Request(op, x, at) # None
BY NoneAssumption DEF Request, Requests

LEMMA WorkerType == \A x \in Resources : Worker(x) \in Workers
BY DEF Worker, Workers

\* What an assignment to one handler leaves of the others.
LEMMA HandlerSet ==
  ASSUME TypeOK, NEW k \in Keys, NEW h, handler' = [handler EXCEPT ![k] = h]
  PROVE  \A j \in Keys : handler'[j] = IF j = k THEN h ELSE handler[j]
BY DEF TypeOK, Keys

\* A step that neither adds nor finds an application, nor starts a handler of a
\* call that was lost, keeps the entries single.
LEMMA OnceKept ==
  ASSUME OnceInv, UNCHANGED <<may, entries>>,
         \A s \in Slots : handler'[s] = handler[s],
         \/ handler'["application"] \in {handler["application"], None}
         \/ handler'["application"].at # "scanned"
  PROVE  OnceInv'
<1> SUFFICES ASSUME NoCallLost
             PROVE  (\A s \in Slots : handler[s] = None)' /\ (\A a \in Apps : OnceFor(a))'
  BY DEF OnceInv, NoCallLost
<1>1. (\A s \in Slots : handler[s] = None) /\ (\A a \in Apps : OnceFor(a))
  BY DEF OnceInv
<1>2. ASSUME NEW a \in Apps
      PROVE  OnceFor(a)'
  <2>1. OnceFor(a)
    BY <1>1
  <2>2. CASE handler'["application"] = handler["application"]
    BY <2>1, <2>2 DEF OnceFor, WorksOn
  <2>3. CASE handler'["application"] = None
    BY <2>1, <2>3 DEF OnceFor, WorksOn
  <2>4. CASE handler'["application"].at # "scanned"
    BY <2>1, <2>4 DEF OnceFor
  <2> QED BY <2>2, <2>3, <2>4
<1> QED BY <1>1, <1>2

LEMMA MoveInBound ==
  ASSUME TypeOK, Move
  PROVE  moves' \in 0..MaxMoves
BY ResourcesAssumption DEF TypeOK, Move

LEMMA UserInv ==
  ASSUME IInv, NEW x \in Resources, UserStep(x)
  PROVE  IInv'
<1> USE DEF IInv, serverVars, listVars, clusterVars
<1>1. CASE Create(x)
  <2>1. TypeOK'
    BY <1>1, ResourcesAssumption DEF Create, Move, TypeOK
  <2>2. ScannedInv' /\ ListedInv' /\ OnceInv'
    BY <1>1 DEF Create, ScannedInv, ListedInv, OnceInv, NoCallLost, OnceFor, WorksOn
  <2>3. GoneInv'
    BY <1>1 DEF Create, GoneInv, Undisturbed, GoneFor, WorksOn, TypeOK, Resources
  <2> QED BY <2>1, <2>2, <2>3
<1>2. CASE Delete(x)
  <2>1. TypeOK'
    <3>1. moves' \in 0..MaxMoves
      BY <1>2, MoveInBound DEF Delete, Happens
    <3>2. resource' \in [Resources -> {"gone", "new", "kept", "deleting"}]
      BY <1>2 DEF Delete, TypeOK
    <3> QED BY <1>2, <3>1, <3>2 DEF Delete, Happens, TypeOK
  <2>2. ScannedInv' /\ ListedInv' /\ OnceInv'
    BY <1>2 DEF Delete, Happens, ScannedInv, ListedInv, OnceInv, NoCallLost, OnceFor, WorksOn
  <2>3. GoneInv'
    BY <1>2 DEF Delete, Happens, GoneInv, Undisturbed, GoneFor, WorksOn, TypeOK, Resources
  <2> QED BY <2>1, <2>2, <2>3
<1> QED BY <1>1, <1>2 DEF UserStep

LEMMA ReconcileInv ==
  ASSUME IInv, NEW x \in Resources, Reconcile(x)
  PROVE  IInv'
<1> USE DEF IInv, serverVars, listVars, clusterVars, worldVars
<1> DEFINE w == Worker(x)
<1>0. w \in Workers /\ w \in Keys /\ w \notin Slots
  BY WorkerType, ResourcesAssumption DEF Keys
<1>1. CASE Sync(x)
  <2>1. PICK h \in Requests : h = Request("add", x, "called")
    BY RequestType
  <2>2. /\ handler[w] = None /\ handler' = [handler EXCEPT ![w] = h]
        /\ h # None /\ h.op = "add" /\ h.of = x /\ h.at = "called"
        /\ resource' = [resource EXCEPT ![x] = "kept"]
        /\ UNCHANGED <<may, moves, listVars, clusterVars, clone>>
    BY <1>1, <2>1, RequestType DEF Sync, Request
  <2>3. TypeOK'
    BY <1>0, <2>2 DEF TypeOK, Worker, Keys
  <2>4. \A j \in Keys : handler'[j] = IF j = w THEN h ELSE handler[j]
    <3> HIDE DEF w, IInv
    <3>1. TypeOK
      BY DEF IInv
    <3>2. w \in Keys /\ handler' = [handler EXCEPT ![w] = h]
      BY <1>0, <2>2
    <3> QED BY <3>1, <3>2, HandlerSet
  <2>5. ScannedInv'
    BY <2>2, <2>4 DEF ScannedInv, WorksOn
  <2>6. ListedInv'
    BY <2>2 DEF ListedInv
  <2>7. OnceInv'
    <3> HIDE DEF w
    <3>1. "application" \in Keys /\ \A s \in Slots : s \in Keys
      BY DEF Keys, Workers
    <3>2. \A s \in Slots : handler'[s] = handler[s]
      BY <1>0, <2>4, <3>1
    <3>3. \/ handler'["application"] \in {handler["application"], None}
          \/ handler'["application"].at # "scanned"
      BY <2>2, <2>4, <3>1
    <3> QED BY <2>2, <3>2, <3>3, OnceKept
  <2>8. GoneInv'
    BY <1>0, <2>2, <2>4 DEF GoneInv, Undisturbed, GoneFor, WorksOn, Keys, Workers, Resources, TypeOK
  <2> QED BY <2>3, <2>5, <2>6, <2>7, <2>8
<1>2. CASE Finalize(x)
  <2>1. PICK h \in Requests : h = Request("delete", x, "called")
    BY RequestType
  <2>2. /\ handler[w] = None /\ handler' = [handler EXCEPT ![w] = h]
        /\ resource[x] = "deleting"
        /\ h # None /\ h.op = "delete" /\ h.of = x /\ h.at = "called"
        /\ UNCHANGED <<may, moves, resource, listVars, clusterVars, clone>>
    BY <1>2, <2>1, RequestType DEF Finalize, Request
  <2>3. TypeOK'
    BY <1>0, <2>2 DEF TypeOK, Worker, Keys
  <2>4. \A j \in Keys : handler'[j] = IF j = w THEN h ELSE handler[j]
    <3> HIDE DEF w, IInv
    <3>1. TypeOK
      BY DEF IInv
    <3>2. w \in Keys /\ handler' = [handler EXCEPT ![w] = h]
      BY <1>0, <2>2
    <3> QED BY <3>1, <3>2, HandlerSet
  <2>5. ScannedInv'
    BY <2>2, <2>4 DEF ScannedInv, WorksOn
  <2>6. ListedInv'
    BY <2>2 DEF ListedInv
  <2>7. OnceInv'
    <3> HIDE DEF w
    <3>1. "application" \in Keys /\ \A s \in Slots : s \in Keys
      BY DEF Keys, Workers
    <3>2. \A s \in Slots : handler'[s] = handler[s]
      BY <1>0, <2>4, <3>1
    <3>3. \/ handler'["application"] \in {handler["application"], None}
          \/ handler'["application"].at # "scanned"
      BY <2>2, <2>4, <3>1
    <3> QED BY <2>2, <3>2, <3>3, OnceKept
  <2>8. GoneInv'
    BY <1>0, <2>2, <2>4 DEF GoneInv, Undisturbed, GoneFor, WorksOn, Keys, Workers, Resources, TypeOK
  <2> QED BY <2>3, <2>5, <2>6, <2>7, <2>8
<1> QED BY <1>1, <1>2 DEF Reconcile
LEMMA CallInv ==
  ASSUME IInv, NEW w \in Workers, Return(w) \/ UpdateFails(w) \/ LoseCall(w)
  PROVE  IInv'
<1> USE DEF IInv, serverVars, listVars, clusterVars
<1>0. w \in Keys /\ w \notin Slots /\ "application" \in Keys
  BY ResourcesAssumption DEF Keys, Workers
<1>1. CASE Return(w) \/ UpdateFails(w)
  <2>1. /\ handler' = [handler EXCEPT ![w] = None]
        /\ UNCHANGED <<may, listVars, clusterVars, clone>>
    BY <1>1 DEF Return, UpdateFails, Happens
  <2>2. /\ moves' \in 0..MaxMoves
        /\ \/ UNCHANGED resource
           \/ /\ handler[w] # None /\ handler[w].op = "delete" /\ handler[w].at = "ok"
              /\ resource' = [resource EXCEPT ![handler[w].of] = "gone"]
    BY <1>1, MoveInBound DEF Return, UpdateFails, Happens, TypeOK
  <2>3. \A j \in Keys : handler'[j] = IF j = w THEN None ELSE handler[j]
    BY <1>0, <2>1, HandlerSet
  <2>4. TypeOK'
    <3>1. handler' \in [Workers \cup Slots -> Requests \cup {None}]
      BY <2>1 DEF TypeOK
    <3> QED BY <2>1, <2>2, <2>3, <3>1 DEF TypeOK, Keys
  <2>5. ScannedInv'
    BY <2>1, <2>3 DEF ScannedInv, WorksOn
  <2>6. ListedInv'
    BY <2>1 DEF ListedInv
  <2>7. OnceInv'
    <3>1. \A s \in Slots : handler'[s] = handler[s]
      BY <1>0, <2>3 DEF Keys
    <3>2. handler'["application"] \in {handler["application"], None}
      BY <1>0, <2>3
    <3> QED BY <2>1, <3>1, <3>2, OnceKept
  <2>8. GoneInv'
    <3>1. CASE UNCHANGED resource
      <4>1. \A a \in Apps : WorksOn("application", a)' =>
              WorksOn("application", a) /\ handler'["application"] = handler["application"]
        BY <1>0, <2>3 DEF WorksOn
      <4> QED BY <2>1, <3>1, <4>1 DEF GoneInv, Undisturbed, GoneFor
    <3>2. CASE ~ UNCHANGED resource
      <4>1. \A a \in Apps : resource'[a] # resource[a] =>
              w = "application" /\ WorksOn(w, a)
              /\ handler[w].op = "delete" /\ handler[w].at = "ok"
        BY <2>2, <3>2, ResourcesAssumption DEF TypeOK, Resources, WorksOn, Worker
      <4>2. \A a \in Apps : WorksOn("application", a)' =>
              WorksOn("application", a) /\ handler'["application"] = handler["application"]
        BY <1>0, <2>3 DEF WorksOn
      <4>3. \A a \in Apps : resource'[a] # resource[a] => ~WorksOn("application", a)'
        BY <1>0, <2>3, <4>1 DEF WorksOn
      <4> QED BY <2>1, <4>1, <4>2, <4>3 DEF GoneInv, Undisturbed, GoneFor
    <3> QED BY <3>1, <3>2
  <2> QED BY <2>4, <2>5, <2>6, <2>7, <2>8
<1>2. CASE LoseCall(w)
  <2>1. /\ "lost call" \in may
        /\ UNCHANGED <<may, resource, listVars, clusterVars, clone>>
    BY <1>2 DEF LoseCall, Happens
  <2>2. moves' \in 0..MaxMoves
    BY <1>2, MoveInBound DEF LoseCall, Happens
  <2>3. /\ handler' \in [Workers \cup Slots -> Requests \cup {None}]
        /\ \A j \in Keys :
             \/ handler'[j] = None
             \/ handler'[j] = handler[j]
             \/ j \in Slots /\ handler'[j] = handler[w]
    <3>1. CASE handler' = [handler EXCEPT ![w] = None]
      BY <1>0, <3>1, HandlerSet DEF TypeOK
    <3>2. CASE \E s \in Slots : handler' = [handler EXCEPT ![s] = handler[w], ![w] = None]
      <4>1. PICK s \in Slots : handler' = [handler EXCEPT ![s] = handler[w], ![w] = None]
        BY <3>2
      <4> QED BY <1>0, <4>1 DEF TypeOK, Keys
    <3> QED BY <1>2, <3>1, <3>2 DEF LoseCall
  <2>4. TypeOK'
    BY <2>1, <2>2, <2>3, ResourcesAssumption DEF TypeOK, Keys
  <2>5. ScannedInv'
    BY <1>0, <2>1, <2>3 DEF ScannedInv, WorksOn
  <2>6. ListedInv' /\ OnceInv' /\ GoneInv'
    BY <2>1 DEF ListedInv, OnceInv, NoCallLost, OnceFor, GoneInv, Undisturbed, GoneFor
  <2> QED BY <2>4, <2>5, <2>6
<1> QED BY <1>1, <1>2

-----------------------------------------------------------------------------
\* The steps of the server.
LEMMA ReachedType ==
  ASSUME NEW k, handler[k] \in Requests,
         NEW at \in {"called", "holding", "scanned", "stale", "ok", "error"}
  PROVE  /\ Reached(k, at) \in Requests
         /\ Reached(k, at).op = handler[k].op
         /\ Reached(k, at).of = handler[k].of
         /\ Reached(k, at).at = at
<1>1. Reached(k, at) = Request(handler[k].op, handler[k].of, at)
  BY DEF Reached, Request, Requests
<1>2. handler[k].op \in {"add", "delete"} /\ handler[k].of \in Resources
  BY DEF Requests
<1>3. Request(handler[k].op, handler[k].of, at) \in Requests
  BY <1>2, RequestType
<1> QED BY <1>1, <1>3 DEF Request

LEMMA GotoHandler ==
  ASSUME TypeOK, NEW k \in Keys, handler[k] # None,
         NEW at \in {"called", "holding", "scanned", "stale", "ok", "error"},
         Goto(k, at)
  PROVE  /\ handler' \in [Workers \cup Slots -> Requests \cup {None}]
         /\ \A j \in Keys \ {k} : handler'[j] = handler[j]
         /\ handler'[k] # None =>
              handler'[k].op = handler[k].op /\ handler'[k].of = handler[k].of
              /\ handler'[k].at = at
         /\ \A w \in Workers : handler'[w] # None => Worker(handler'[w].of) = w
<1>1. handler[k] \in Requests
  BY DEF TypeOK, Keys
<1>2. PICK h \in Requests :
        h = Reached(k, at) /\ h.op = handler[k].op /\ h.of = handler[k].of /\ h.at = at
  BY <1>1, ReachedType
<1>3. PICK g \in {h, None} : handler' = [handler EXCEPT ![k] = g]
  BY <1>2 DEF Goto
<1>4. \A j \in Keys : handler'[j] = IF j = k THEN g ELSE handler[j]
  BY <1>3, HandlerSet
<1>5. handler' \in [Workers \cup Slots -> Requests \cup {None}]
  BY <1>3 DEF TypeOK
<1> QED BY <1>2, <1>4, <1>5 DEF TypeOK, Keys

\* A handler that answers, or goes on to a place where it has found nothing.
LEMMA AnswerInv ==
  ASSUME IInv, NEW k \in Keys, handler[k] # None,
         NEW at \in {"holding", "stale", "ok", "error"}, Goto(k, at),
         UNCHANGED <<may, resource, listVars, clusterVars>>,
         clone' \in [Apps -> {"none", "partial", "clone"}],
         moves' \in 0..MaxMoves,
         at = "ok" /\ handler[k].op = "delete" /\ handler[k].of \in Apps
           => entries[handler[k].of] = 0
              \/ ~Undisturbed
  PROVE  IInv'
<1> USE DEF IInv, listVars, clusterVars
<1>1. /\ handler' \in [Workers \cup Slots -> Requests \cup {None}]
      /\ \A j \in Keys \ {k} : handler'[j] = handler[j]
      /\ handler'[k] # None =>
           handler'[k].op = handler[k].op /\ handler'[k].of = handler[k].of
           /\ handler'[k].at = at
      /\ \A w \in Workers : handler'[w] # None => Worker(handler'[w].of) = w
  BY GotoHandler
<1>2. TypeOK'
  BY <1>1 DEF TypeOK
<1>3. ScannedInv'
  BY <1>1 DEF ScannedInv, WorksOn
<1>4. ListedInv'
  BY DEF ListedInv
<1>5. "application" \in Keys /\ \A s \in Slots : s \in Keys
  BY DEF Keys, Workers
<1>6. OnceInv'
  BY <1>1, <1>5 DEF OnceInv, NoCallLost, OnceFor, WorksOn
<1>7. GoneInv'
  <2> SUFFICES ASSUME Undisturbed, NEW a \in Apps
               PROVE  GoneFor(a)'
    BY DEF GoneInv, Undisturbed
  <2>1. GoneFor(a)
    BY DEF GoneInv, Undisturbed
  <2>2. CASE k = "application"
    BY <1>1, <2>1, <2>2 DEF GoneFor, WorksOn
  <2>3. CASE k # "application"
    BY <1>1, <1>5, <2>1, <2>3 DEF GoneFor, WorksOn
  <2> QED BY <2>2, <2>3
<1> QED BY <1>2, <1>3, <1>4, <1>6, <1>7

\* The handlers of repository requests, but for the removal.
LEMMA RepositoryInv ==
  ASSUME IInv, NEW k \in Keys, AddRepository(k) \/ FindRepository(k)
  PROVE  IInv'
<1> USE DEF serverVars, listVars, clusterVars, worldVars, Handles
<1>1. CASE AddRepository(k)
  <2>1. /\ handler[k] # None /\ handler[k].of \in Repos /\ Goto(k, "ok")
        /\ registered' = registered \cup {handler[k].of}
        /\ UNCHANGED <<may, moves, resource, entries, locked, known, clusterVars, clone>>
    BY <1>1 DEF AddRepository
  <2>2. /\ handler' \in [Workers \cup Slots -> Requests \cup {None}]
        /\ \A j \in Keys \ {k} : handler'[j] = handler[j]
        /\ handler'[k] # None => handler'[k].of = handler[k].of /\ handler'[k].at = "ok"
        /\ \A w \in Workers : handler'[w] # None => Worker(handler'[w].of) = w
    BY <2>1, GotoHandler DEF IInv
  <2>3. "application" \in Keys /\ \A s \in Slots : s \in Keys
    BY DEF Keys, Workers
  <2>4. handler[k].of \notin Apps
    BY <2>1, ResourcesAssumption
  <2>5. TypeOK'
    BY <2>1, <2>2 DEF IInv, TypeOK
  <2>6. ScannedInv'
    BY <2>1, <2>2 DEF IInv, ScannedInv, WorksOn
  <2>7. ListedInv'
    BY <2>1 DEF IInv, ListedInv
  <2>8. OnceInv'
    BY <2>1, <2>2, <2>3, <2>4 DEF IInv, OnceInv, NoCallLost, OnceFor, WorksOn
  <2>9. GoneInv'
    <3> SUFFICES ASSUME Undisturbed, NEW a \in Apps
                 PROVE  GoneFor(a)'
      BY <2>1 DEF GoneInv, Undisturbed
    <3>1. GoneFor(a)
      BY DEF IInv, GoneInv, Undisturbed
    <3>2. CASE k = "application"
      BY <2>1, <2>2, <2>4, <3>1, <3>2 DEF GoneFor, WorksOn
    <3>3. CASE k # "application"
      BY <2>1, <2>2, <2>3, <3>1, <3>3 DEF GoneFor, WorksOn
    <3> QED BY <3>2, <3>3
  <2> QED BY <2>5, <2>6, <2>7, <2>8, <2>9 DEF IInv
<1>2. CASE FindRepository(k)
  <2>1. PICK at \in {"holding", "error"} : Goto(k, at)
    BY <1>2 DEF FindRepository
  <2> QED BY <1>2, <2>1, AnswerInv DEF FindRepository, IInv, TypeOK
<1> QED BY <1>1, <1>2

\* What an uninstallation forgets, and that it starts a clean-up.
LEMMA UninstallEffect ==
  ASSUME TypeOK, NEW names \in SUBSET Apps, NEW failed, Uninstall(names, failed)
  PROVE  /\ known' = known \ names
         /\ cleaning' \in [Apps -> Nat]
         /\ \A a \in Apps :
              /\ cleaning[a] > 0 => cleaning'[a] > 0
              /\ Undisturbed /\ a \in names \cap known => cleaning'[a] > 0
<1>1. /\ known' = known \ names
      /\ cleaning' = [a \in Apps |->
           cleaning[a] + IF a \in (names \cap known) \ failed THEN 1 ELSE 0]
      /\ Undisturbed => failed = {}
  BY DEF Uninstall, Undisturbed
<1>2. \A a \in Apps : cleaning[a] \in Nat
  BY DEF TypeOK
<1>3. \A a \in Apps :
        /\ cleaning'[a] = cleaning[a] + IF a \in (names \cap known) \ failed THEN 1 ELSE 0
        /\ cleaning'[a] \in Nat
  BY <1>1, <1>2
<1>4. ASSUME NEW a \in Apps, Undisturbed, a \in names \cap known
      PROVE  cleaning'[a] > 0
  <2>1. cleaning'[a] = cleaning[a] + 1
    BY <1>1, <1>3, <1>4
  <2> QED BY <1>2, <2>1
<1>5. \A a \in Apps : cleaning[a] > 0 => cleaning'[a] > 0
  BY <1>2, <1>3
<1>6. cleaning' \in [Apps -> Nat]
  BY <1>1, <1>2
<1> QED BY <1>1, <1>4, <1>5, <1>6

LEMMA CloneType ==
  ASSUME TypeOK, NEW a \in Apps, Cloned(a)
  PROVE  clone' \in [Apps -> {"none", "partial", "clone"}]
BY DEF TypeOK, Cloned

\* What is installed has a clean-up to meet after an uninstallation as well.
LEMMA StillCleaned ==
  ASSUME TypeOK, NEW names \in SUBSET Apps, NEW failed, Uninstall(names, failed),
         UNCHANGED installed, Undisturbed, NEW a \in Apps, GoneFor(a)
  PROVE  a \in installed' => a \in known' \/ cleaning'[a] > 0
BY UninstallEffect DEF GoneFor

\* A repository is removed with all its applications.
LEMMA DeleteRepositoryInv ==
  ASSUME IInv, NEW k \in Keys, DeleteRepository(k)
  PROVE  IInv'
<1> USE DEF serverVars, listVars, clusterVars, worldVars, Handles
<1> DEFINE r == handler[k].of
<1>1. /\ handler[k] # None /\ r \in Repos /\ r \notin locked
      /\ handler[k].op = "delete"
      /\ registered' = registered \ {r}
      /\ entries' = [a \in Apps |-> IF RepoOf[a] = r THEN 0 ELSE entries[a]]
      /\ UNCHANGED <<may, moves, resource, locked, installed>>
  BY DEF DeleteRepository
<1>12. \A a \in Apps : entries[a] \in Nat
  BY DEF IInv, TypeOK
<1>13. \A a \in Apps :
         /\ entries[a] = 0 \/ entries[a] > 0
         /\ entries'[a] = IF RepoOf[a] = r THEN 0 ELSE entries[a]
         /\ entries[a] <= 1 => entries'[a] <= 1
  BY <1>1, <1>12
<1>2. PICK failed \in SUBSET Listed(r) :
        /\ Uninstall(Listed(r), failed)
        /\ clone' = [a \in Apps |->
             IF a \in Listed(r) \ failed THEN "none" ELSE clone[a]]
  BY DEF DeleteRepository
<1>14. /\ Listed(r) \in SUBSET Apps
       /\ \A a \in Apps : a \in Listed(r) <=> RepoOf[a] = r /\ entries[a] > 0
  BY DEF Listed
<1>15. known' = known \ Listed(r) /\ cleaning' \in [Apps -> Nat]
  BY <1>2, <1>14, UninstallEffect DEF IInv
<1>3. handler[k] \in Requests /\ r \notin Apps
  BY <1>1, ResourcesAssumption DEF IInv, TypeOK, Keys
<1>4. handler' = [j \in DOMAIN handler |->
        IF j = k THEN IF k \in Slots THEN None ELSE Reached(k, "ok")
                 ELSE Outdated(handler[j], r)]
  BY DEF DeleteRepository
<1>5. \A j \in Keys :
        /\ handler'[j] \in Requests \cup {None}
        /\ handler'[j] # None =>
             /\ handler[j] # None
             /\ handler'[j].op = handler[j].op /\ handler'[j].of = handler[j].of
             /\ handler'[j].at \in {handler[j].at, "stale"} \/ j = k
        /\ handler'[j] # None /\ handler'[j].of \in Apps /\ RepoOf[handler'[j].of] = r
             => handler'[j].at # "scanned"
  <2> SUFFICES ASSUME NEW j \in Keys
               PROVE  /\ handler'[j] \in Requests \cup {None}
                      /\ handler'[j] # None =>
                           /\ handler[j] # None
                           /\ handler'[j].op = handler[j].op
                           /\ handler'[j].of = handler[j].of
                           /\ handler'[j].at \in {handler[j].at, "stale"} \/ j = k
                      /\ handler'[j] # None /\ handler'[j].of \in Apps
                         /\ RepoOf[handler'[j].of] = r => handler'[j].at # "scanned"
    OBVIOUS
  <2>1. handler'[j] = IF j = k THEN IF k \in Slots THEN None ELSE Reached(k, "ok")
                              ELSE Outdated(handler[j], r)
    BY <1>4 DEF Keys, IInv, TypeOK
  <2>2. handler[j] \in Requests \cup {None}
    BY DEF IInv, TypeOK, Keys
  <2>3. CASE j = k
    <3>1. Reached(k, "ok") \in Requests /\ Reached(k, "ok").op = handler[k].op
          /\ Reached(k, "ok").of = handler[k].of /\ Reached(k, "ok").at = "ok"
      BY <1>3, ReachedType
    <3>2. handler'[j] \in {None, Reached(k, "ok")}
      BY <2>1, <2>3
    <3> QED BY <1>1, <2>3, <3>1, <3>2
  <2>4. CASE j # k
    <3>1. CASE /\ handler[j] # None /\ handler[j].of \in Apps
               /\ handler[j].at = "scanned" /\ RepoOf[handler[j].of] = r
      <4>1. handler'[j] = Request(handler[j].op, handler[j].of, "stale")
        BY <2>1, <2>2, <2>4, <3>1 DEF Outdated, Requests, Request
      <4>2. handler[j].op \in {"add", "delete"} /\ handler[j].of \in Resources
        BY <2>2, <3>1 DEF Requests
      <4>3. handler'[j] \in Requests
        BY <4>1, <4>2, RequestType
      <4>4. /\ handler'[j].op = handler[j].op /\ handler'[j].of = handler[j].of
            /\ handler'[j].at = "stale"
        BY <4>1 DEF Request
      <4> QED BY <3>1, <4>3, <4>4
    <3>2. CASE ~ (/\ handler[j] # None /\ handler[j].of \in Apps
                  /\ handler[j].at = "scanned" /\ RepoOf[handler[j].of] = r)
      <4>1. handler'[j] = handler[j]
        BY <2>1, <2>4, <3>2 DEF Outdated
      <4>2. handler'[j] # None /\ handler'[j].of \in Apps /\ RepoOf[handler'[j].of] = r
              => handler'[j].at # "scanned"
        BY <3>2, <4>1
      <4>3. handler'[j].at \in {handler[j].at, "stale"}
        BY <4>1
      <4>4. handler'[j] \in Requests \cup {None}
        BY <2>2, <4>1
      <4> HIDE DEF r
      <4> QED BY <4>1, <4>2, <4>3, <4>4
    <3> QED BY <3>1, <3>2
  <2> QED BY <2>3, <2>4
<1>6. TypeOK'
  <2>1. handler' \in [Workers \cup Slots -> Requests \cup {None}]
    BY <1>4, <1>5 DEF IInv, TypeOK, Keys
  <2>2. \A w \in Workers : handler'[w] # None => Worker(handler'[w].of) = w
    BY <1>5 DEF IInv, TypeOK, Keys
  <2>3. clone' \in [Apps -> {"none", "partial", "clone"}]
    BY <1>2 DEF IInv, TypeOK
  <2>4. entries' \in [Apps -> Nat]
    BY <1>1, <1>12
  <2>5. locked' \subseteq registered'
    BY <1>1 DEF IInv, TypeOK
  <2> HIDE DEF r
  <2> QED BY <1>1, <1>15, <2>1, <2>2, <2>3, <2>4, <2>5 DEF IInv, TypeOK
<1>7. ScannedInv'
  BY <1>1, <1>3, <1>5 DEF IInv, ScannedInv, WorksOn
<1>8. ListedInv'
  <2> SUFFICES ASSUME NEW a \in Apps
               PROVE  /\ entries'[a] > 0 => RepoOf[a] \in registered'
                      /\ a \in known' => entries'[a] > 0
    BY DEF ListedInv
  <2>1. /\ entries[a] > 0 => RepoOf[a] \in registered
        /\ a \in known => entries[a] > 0
    BY DEF IInv, ListedInv
  <2>2. a \in known' => RepoOf[a] # r
    BY <1>14, <1>15, <2>1
  <2> HIDE DEF r
  <2> QED BY <1>1, <1>13, <1>15, <2>1, <2>2
<1>9. "application" \in Keys /\ \A s \in Slots : s \in Keys
  BY DEF Keys, Workers
<1>10. OnceInv'
  <2> SUFFICES ASSUME NoCallLost
               PROVE  /\ \A s \in Slots : handler'[s] = None
                      /\ \A a \in Apps : OnceFor(a)'
    BY <1>1 DEF OnceInv, NoCallLost
  <2>1. \A s \in Slots : handler'[s] = None
    BY <1>5, <1>9 DEF IInv, OnceInv, NoCallLost
  <2>2. ASSUME NEW a \in Apps PROVE OnceFor(a)'
    <3>1. OnceFor(a)
      BY DEF IInv, OnceInv, NoCallLost
    <3>2. entries'[a] \in {0, entries[a]}
      BY <1>1
    <3>3. entries'[a] <= 1
      BY <1>13, <3>1 DEF OnceFor
    <3>4. CASE "application" = k
      <4>1. ~WorksOn("application", a)'
        BY <1>3, <1>5, <1>9, <3>4 DEF WorksOn
      <4> QED BY <3>3, <4>1 DEF OnceFor
    <3>5. CASE "application" # k
      <4>1. WorksOn("application", a)' /\ handler'["application"].at = "scanned" =>
              /\ WorksOn("application", a) /\ handler["application"].at = "scanned"
              /\ handler'["application"].op = handler["application"].op
        BY <1>5, <1>9, <3>5 DEF WorksOn
      <4> QED BY <3>1, <3>2, <3>3, <4>1 DEF OnceFor
    <3> QED BY <3>4, <3>5
  <2> QED BY <2>1, <2>2
<1>11. GoneInv'
  <2> SUFFICES ASSUME Undisturbed, NEW a \in Apps
               PROVE  GoneFor(a)'
    BY <1>1 DEF GoneInv, Undisturbed
  <2>1. GoneFor(a)
    BY DEF IInv, GoneInv, Undisturbed
  <2>4. entries'[a] \in {0, entries[a]}
    BY <1>1
  <2>5. WorksOn("application", a)' => WorksOn("application", a)
    BY <1>5, <1>9 DEF WorksOn
  <2>6. /\ WorksOn("application", a)'
        /\ handler'["application"].op = "delete" /\ handler'["application"].at = "ok"
        => entries[a] = 0
    <3>1. CASE "application" = k
      BY <1>3, <1>5, <1>9, <3>1 DEF WorksOn
    <3>2. CASE "application" # k
      BY <1>5, <1>9, <2>1, <3>2 DEF WorksOn, GoneFor
    <3> QED BY <3>1, <3>2
  <2>7. a \in installed' => a \in known' \/ cleaning'[a] > 0
    BY <1>1, <1>2, <1>14, <2>1, StillCleaned DEF IInv
  <2>8. resource'[a] \in {"gone", "new"} => entries'[a] = 0 /\ ~WorksOn("application", a)'
    BY <1>1, <2>1, <2>4, <2>5 DEF GoneFor
  <2> QED BY <2>4, <2>6, <2>7, <2>8 DEF GoneFor
<1> QED BY <1>6, <1>7, <1>8, <1>10, <1>11 DEF IInv

\* A handler that has scanned the applications of its repository.
LEMMA FoundInv ==
  ASSUME IInv, NEW k \in Keys, handler[k] # None, Goto(k, "scanned"),
         UNCHANGED <<may, moves, resource, listVars, clusterVars, clone>>,
         handler[k].of \in Apps => RepoOf[handler[k].of] \in registered,
         handler[k].op = "delete" => entries[handler[k].of] > 0,
         handler[k].op = "add" => entries[handler[k].of] = 0
  PROVE  IInv'
<1> USE DEF IInv, listVars, clusterVars
<1>1. /\ handler' \in [Workers \cup Slots -> Requests \cup {None}]
      /\ \A j \in Keys \ {k} : handler'[j] = handler[j]
      /\ handler'[k] # None =>
           handler'[k].op = handler[k].op /\ handler'[k].of = handler[k].of
           /\ handler'[k].at = "scanned"
      /\ \A w \in Workers : handler'[w] # None => Worker(handler'[w].of) = w
  BY GotoHandler
<1>2. "application" \in Keys /\ \A s \in Slots : s \in Keys
  BY DEF Keys, Workers
<1>3. TypeOK'
  BY <1>1 DEF TypeOK
<1>4. ScannedInv'
  BY <1>1 DEF ScannedInv, WorksOn
<1>5. ListedInv'
  BY DEF ListedInv
<1>6. OnceInv'
  <2>1. SUFFICES ASSUME NoCallLost
                 PROVE  (\A s \in Slots : handler[s] = None)' /\ (\A a \in Apps : OnceFor(a))'
    BY DEF OnceInv, NoCallLost
  <2>2. (\A s \in Slots : handler[s] = None) /\ (\A a \in Apps : OnceFor(a))
    BY <2>1 DEF OnceInv
  <2>3. \A s \in Slots : handler'[s] = None
    BY <1>1, <1>2, <2>2
  <2>4. ASSUME NEW a \in Apps
        PROVE  OnceFor(a)'
    <3>1. OnceFor(a)
      BY <2>2
    <3>2. CASE k = "application"
      BY <1>1, <3>1, <3>2 DEF OnceFor, WorksOn
    <3>3. CASE k # "application"
      <4>1. handler'["application"] = handler["application"]
        BY <1>1, <1>2, <3>3
      <4> QED BY <3>1, <4>1 DEF OnceFor, WorksOn
    <3> QED BY <3>2, <3>3
  <2> QED BY <2>3, <2>4
<1>7. GoneInv'
  <2> SUFFICES ASSUME Undisturbed, NEW a \in Apps
               PROVE  GoneFor(a)'
    BY DEF GoneInv, Undisturbed
  <2>1. GoneFor(a)
    BY DEF GoneInv, Undisturbed
  <2>2. CASE k = "application"
    BY <1>1, <2>1, <2>2 DEF GoneFor, WorksOn
  <2>3. CASE k # "application"
    BY <1>1, <1>2, <2>1, <2>3 DEF GoneFor, WorksOn
  <2> QED BY <2>2, <2>3
<1> QED BY <1>3, <1>4, <1>5, <1>6, <1>7

LEMMA FindInv ==
  ASSUME IInv, NEW k \in Keys,
         \/ FindForAdd(k) \/ AddApplicationLost(k) \/ AddRefused(k)
         \/ FindForDelete(k) \/ AddFails(k)
  PROVE  IInv'
<1> USE DEF serverVars, listVars, clusterVars, worldVars, Handles
<1>1. /\ moves \in 0..MaxMoves /\ \A a \in Apps : entries[a] = 0 \/ entries[a] > 0
      /\ clone \in [Apps -> {"none", "partial", "clone"}]
  BY DEF IInv, TypeOK
<1>2. CASE FindForAdd(k)
  <2>1. /\ handler[k] # None /\ handler[k].of \in Apps /\ handler[k].op = "add"
        /\ UNCHANGED <<may, moves, resource, listVars, clusterVars, clone>>
    BY <1>2 DEF FindForAdd
  <2>2. CASE Goto(k, "scanned") /\ RepoOf[handler[k].of] \in registered
             /\ ~(entries[handler[k].of] > 0)
    BY <1>1, <2>1, <2>2, FoundInv
  <2>3. CASE Goto(k, "ok") \/ Goto(k, "error")
    BY <1>1, <2>1, <2>3, AnswerInv
  <2> QED BY <1>2, <2>2, <2>3 DEF FindForAdd
<1>3. CASE AddApplicationLost(k)
  <2>1. clone' \in [Apps -> {"none", "partial", "clone"}]
    BY <1>3, CloneType DEF AddApplicationLost, IInv
  <2>2. /\ handler[k] # None /\ handler[k].op = "add" /\ Goto(k, "ok")
        /\ UNCHANGED <<may, moves, resource, listVars, clusterVars>>
    BY <1>3 DEF AddApplicationLost
  <2> QED BY <1>1, <2>1, <2>2, AnswerInv
<1>6. CASE AddRefused(k)
  <2>1. /\ handler[k] # None /\ handler[k].op = "add" /\ Goto(k, "error")
        /\ UNCHANGED <<may, moves, resource, listVars, clusterVars, clone>>
    BY <1>6 DEF AddRefused
  <2> QED BY <1>1, <2>1, AnswerInv
<1>4. CASE FindForDelete(k)
  <2>1. /\ handler[k] # None /\ handler[k].of \in Apps /\ handler[k].op = "delete"
        /\ UNCHANGED <<may, moves, resource, listVars, clusterVars, clone>>
    BY <1>4 DEF FindForDelete
  <2>2. CASE Goto(k, "scanned") /\ RepoOf[handler[k].of] \in registered
             /\ entries[handler[k].of] > 0
    BY <2>1, <2>2, FoundInv
  <2>3. CASE Goto(k, "ok") /\ ~(RepoOf[handler[k].of] \in registered
                                /\ entries[handler[k].of] > 0)
    <3>1. entries[handler[k].of] = 0
      BY <1>1, <2>1, <2>3 DEF IInv, ListedInv
    <3> QED BY <1>1, <2>1, <2>3, <3>1, AnswerInv
  <2> QED BY <1>4, <2>2, <2>3 DEF FindForDelete
<1>5. CASE AddFails(k)
  <2>1. moves' \in 0..MaxMoves
    BY <1>5, MoveInBound DEF AddFails, Happens, IInv
  <2>2. clone' \in [Apps -> {"none", "partial", "clone"}]
    BY <1>1, <1>5, CloneType DEF AddFails, IInv
  <2>3. /\ handler[k] # None /\ handler[k].op = "add" /\ Goto(k, "error")
        /\ UNCHANGED <<may, resource, listVars, clusterVars>>
    BY <1>5 DEF AddFails, Happens
  <2> QED BY <2>1, <2>2, <2>3, AnswerInv
<1> QED BY <1>2, <1>3, <1>4, <1>5, <1>6

\* An application is appended, or removed: the only one of its kind, if there
\* is only one handler of applications.
LEMMA ApplicationInv ==
  ASSUME IInv, NEW k \in Keys, AddApplication(k) \/ DeleteApplication(k)
  PROVE  IInv'
<1> USE DEF serverVars, listVars, clusterVars, worldVars, Handles
<1> DEFINE a == handler[k].of
<1>1. /\ handler[k] # None /\ a \in Apps /\ handler[k].at = "scanned"
      /\ RepoOf[a] \notin locked /\ Goto(k, "ok")
      /\ UNCHANGED <<may, moves, resource, registered>>
  BY DEF AddApplication, DeleteApplication
<1>2. /\ handler' \in [Workers \cup Slots -> Requests \cup {None}]
      /\ \A j \in Keys \ {k} : handler'[j] = handler[j]
      /\ handler'[k] # None =>
           handler'[k].op = handler[k].op /\ handler'[k].of = a /\ handler'[k].at = "ok"
      /\ \A w \in Workers : handler'[w] # None => Worker(handler'[w].of) = w
  BY <1>1, GotoHandler DEF IInv
<1>3. "application" \in Keys /\ \A s \in Slots : s \in Keys
  BY DEF Keys, Workers
<1>4. RepoOf[a] \in registered /\ entries[a] \in Nat
      /\ (handler[k].op = "delete" => entries[a] > 0)
  BY <1>1 DEF IInv, ScannedInv, WorksOn, TypeOK
<1>5. NoCallLost => k = "application"
  BY <1>1, ResourcesAssumption DEF IInv, OnceInv, NoCallLost, TypeOK, Keys, Workers, Worker
<1>6. CASE AddApplication(k)
  <2>1. /\ handler[k].op = "add"
        /\ entries' = [entries EXCEPT ![a] = @ + 1]
        /\ Cloned(a)
        /\ UNCHANGED <<locked, known, installed, cleaning>>
    BY <1>6 DEF AddApplication
  <2>0. entries \in [Apps -> Nat]
    BY DEF IInv, TypeOK
  <2>2. entries' \in [Apps -> Nat] /\ \A b \in Apps : entries'[b] >= entries[b]
    BY <1>1, <2>1 DEF IInv, TypeOK
  <2>3. entries'[a] = entries[a] + 1 /\ \A b \in Apps \ {a} : entries'[b] = entries[b]
    BY <1>1, <2>1 DEF IInv, TypeOK
  <2>4. TypeOK'
    <3>1. clone' \in [Apps -> {"none", "partial", "clone"}]
      BY <1>1, <2>1, CloneType DEF IInv
    <3> HIDE DEF a
    <3> QED BY <1>1, <1>2, <2>1, <2>2, <3>1 DEF IInv, TypeOK
  <2>5. ScannedInv'
    <3> SUFFICES ASSUME NEW j \in Keys, NEW b \in Apps,
                        WorksOn(j, b)', handler'[j].at = "scanned"
                 PROVE  /\ RepoOf[b] \in registered
                        /\ handler'[j].op = "delete" => RepoOf[b] \in locked \/ entries'[b] > 0
      BY <1>1, <2>1 DEF ScannedInv
    <3>1. j # k
      BY <1>2 DEF WorksOn
    <3>2. /\ RepoOf[b] \in registered
          /\ handler'[j].op = "delete" => RepoOf[b] \in locked \/ entries[b] > 0
      BY <1>2, <3>1 DEF IInv, ScannedInv, WorksOn
    <3>3. entries[b] \in Nat /\ entries'[b] \in Nat /\ entries'[b] >= entries[b]
      BY <2>2 DEF IInv, TypeOK
    <3> QED BY <3>2, <3>3
  <2>6. ListedInv'
    <3>1. \A b \in Apps : entries[b] > 0 => entries'[b] > 0
      BY <2>0, <2>2
    <3> HIDE DEF a
    <3> QED BY <1>1, <1>4, <2>1, <2>3, <3>1 DEF IInv, ListedInv
  <2>7. OnceInv'
    <3> SUFFICES ASSUME NoCallLost
                 PROVE  /\ \A s \in Slots : handler'[s] = None
                        /\ \A b \in Apps : OnceFor(b)'
      BY <1>1 DEF OnceInv, NoCallLost
    <3>1. k = "application" /\ k \notin Slots
      BY <1>5, ResourcesAssumption DEF Workers
    <3>2. \A s \in Slots : handler'[s] = None
      BY <1>2, <1>3, <3>1 DEF IInv, OnceInv, NoCallLost
    <3>3. entries[a] = 0
      BY <1>1, <2>1, <3>1 DEF IInv, OnceInv, NoCallLost, OnceFor, WorksOn
    <3>4. \A b \in Apps : entries'[b] <= 1
      <4>1. \A b \in Apps : entries[b] <= 1
        BY DEF IInv, OnceInv, NoCallLost, OnceFor
      <4> HIDE DEF a
      <4> QED BY <1>1, <2>0, <2>2, <2>3, <3>3, <4>1
    <3>5. \A b \in Apps : OnceFor(b)'
      BY <1>2, <3>1, <3>4 DEF OnceFor, WorksOn
    <3> QED BY <3>2, <3>5
  <2>8. GoneInv'
    <3> SUFFICES ASSUME Undisturbed, NEW b \in Apps
                 PROVE  GoneFor(b)'
      BY <1>1 DEF GoneInv, Undisturbed
    <3>1. GoneFor(b) /\ k = "application"
      BY <1>5 DEF IInv, GoneInv, Undisturbed, NoCallLost
    <3>2. CASE a = b
      <4>1. resource'[b] \notin {"gone", "new"}
        BY <1>1, <3>1, <3>2 DEF GoneFor, WorksOn
      <4> QED BY <1>2, <2>1, <3>1, <4>1 DEF GoneFor, WorksOn
    <3>3. CASE a # b
      BY <1>1, <1>2, <2>1, <2>3, <3>1, <3>3 DEF GoneFor, WorksOn
    <3> QED BY <3>2, <3>3
  <2> QED BY <2>4, <2>5, <2>6, <2>7, <2>8 DEF IInv
<1>7. CASE DeleteApplication(k)
  <2>1. /\ handler[k].op = "delete"
        /\ locked' = locked \cup {RepoOf[a]}
        /\ entries' = [entries EXCEPT ![a] = @ - 1]
        /\ \E failed : Uninstall({a}, failed)
        /\ UNCHANGED <<installed, clone>>
    BY <1>7 DEF DeleteApplication
  <2>10. PICK failed : Uninstall({a}, failed)
    BY <2>1
  <2>11. /\ known' = known \ {a} /\ cleaning' \in [Apps -> Nat]
         /\ {a} \in SUBSET Apps
    BY <1>1, <2>10, UninstallEffect DEF IInv
  <2>0. entries \in [Apps -> Nat]
    BY DEF IInv, TypeOK
  <2>2. entries[a] - 1 \in Nat
    BY <1>4, <2>1
  <2>3. entries' \in [Apps -> Nat]
    BY <2>1, <2>2 DEF IInv, TypeOK
  <2>4. entries'[a] = entries[a] - 1 /\ \A b \in Apps \ {a} : entries'[b] = entries[b]
    BY <1>1, <2>1 DEF IInv, TypeOK
  <2>5. TypeOK'
    <3>1. locked' \subseteq registered'
      BY <1>1, <1>4, <2>1 DEF IInv, TypeOK
    <3>2. known' \subseteq Apps
      BY <2>11 DEF IInv, TypeOK
    <3> HIDE DEF a
    <3> QED BY <1>1, <1>2, <2>1, <2>3, <2>11, <3>1, <3>2 DEF IInv, TypeOK
  <2>6. ScannedInv'
    <3> SUFFICES ASSUME NEW j \in Keys, NEW b \in Apps,
                        WorksOn(j, b)', handler'[j].at = "scanned"
                 PROVE  /\ RepoOf[b] \in registered
                        /\ handler'[j].op = "delete" => RepoOf[b] \in locked' \/ entries'[b] > 0
      BY <1>1 DEF ScannedInv
    <3>1. j # k
      BY <1>2 DEF WorksOn
    <3>2. /\ RepoOf[b] \in registered
          /\ handler'[j].op = "delete" => RepoOf[b] \in locked \/ entries[b] > 0
      BY <1>2, <3>1 DEF IInv, ScannedInv, WorksOn
    <3> QED BY <2>1, <2>4, <3>2
  <2>7. ListedInv'
    <3> HIDE DEF a
    <3> QED BY <1>1, <1>4, <2>4, <2>11 DEF IInv, ListedInv
  <2>8. OnceInv'
    <3> SUFFICES ASSUME NoCallLost
                 PROVE  /\ \A s \in Slots : handler'[s] = None
                        /\ \A b \in Apps : OnceFor(b)'
      BY <1>1 DEF OnceInv, NoCallLost
    <3>1. k = "application" /\ k \notin Slots
      BY <1>5, ResourcesAssumption DEF Workers
    <3>2. \A s \in Slots : handler'[s] = None
      BY <1>2, <1>3, <3>1 DEF IInv, OnceInv, NoCallLost
    <3>3. \A b \in Apps : entries'[b] <= 1
      <4>1. \A b \in Apps : entries[b] <= 1
        BY DEF IInv, OnceInv, NoCallLost, OnceFor
      <4> HIDE DEF a
      <4> QED BY <1>1, <2>0, <2>3, <2>4, <4>1
    <3>4. \A b \in Apps : OnceFor(b)'
      BY <1>2, <3>1, <3>3 DEF OnceFor, WorksOn
    <3> QED BY <3>2, <3>4
  <2>9. GoneInv'
    <3> SUFFICES ASSUME Undisturbed, NEW b \in Apps
                 PROVE  GoneFor(b)'
      BY <1>1 DEF GoneInv, Undisturbed
    <3>1. GoneFor(b) /\ k = "application" /\ OnceFor(a)
      BY <1>1, <1>5 DEF IInv, GoneInv, Undisturbed, OnceInv, NoCallLost
    <3>2. CASE a = b
      <4>1. entries'[b] = 0
        <5>1. entries[a] > 0 /\ entries[a] <= 1
          BY <1>4, <2>1, <3>1 DEF OnceFor
        <5> HIDE DEF a
        <5> QED BY <1>1, <2>0, <2>3, <2>4, <3>2, <5>1
      <4>2. b \in installed' => b \in known' \/ cleaning'[b] > 0
        BY <2>1, <2>10, <2>11, <3>1, StillCleaned DEF IInv
      <4>3. resource'[b] \notin {"gone", "new"}
        BY <1>1, <3>1, <3>2 DEF GoneFor, WorksOn
      <4> QED BY <4>1, <4>2, <4>3 DEF GoneFor
    <3>3. CASE a # b
      <4>1. b \in installed' => b \in known' \/ cleaning'[b] > 0
        BY <2>1, <2>10, <2>11, <3>1, StillCleaned DEF IInv
      <4> QED BY <1>1, <1>2, <2>4, <3>1, <3>3, <4>1 DEF GoneFor, WorksOn
    <3> QED BY <3>2, <3>3
  <2> QED BY <2>5, <2>6, <2>7, <2>8, <2>9 DEF IInv
<1> QED BY <1>6, <1>7

\* Deliveries, clean-ups and the end of the process.
LEMMA ServerInv ==
  ASSUME IInv, (\E a \in Apps : Deliver(a) \/ CleanUp(a) \/ CleanUpFails(a)) \/ Restart
  PROVE  IInv'
<1> USE DEF serverVars, listVars, clusterVars, worldVars
<1>1. CASE \E a \in Apps : Deliver(a)
  <2>1. PICK a \in Apps : Deliver(a)
    BY <1>1
  <2>2. /\ entries[a] > 0 /\ installed' = installed \cup {a} /\ known' = known \cup {a}
        /\ UNCHANGED <<may, moves, resource, handler, registered, entries, locked,
                       cleaning, clone>>
    BY <2>1 DEF Deliver
  <2>3. TypeOK' /\ ScannedInv' /\ ListedInv'
    BY <2>2 DEF IInv, TypeOK, ScannedInv, ListedInv, WorksOn
  <2>4. OnceInv'
    BY <2>2 DEF IInv, OnceInv, NoCallLost, OnceFor, WorksOn
  <2>5. GoneInv'
    BY <2>2 DEF IInv, GoneInv, Undisturbed, GoneFor, WorksOn
  <2> QED BY <2>3, <2>4, <2>5 DEF IInv
<1>3. CASE \E a \in Apps : CleanUp(a) \/ CleanUpFails(a)
  <2>1. PICK a \in Apps : CleanUp(a) \/ CleanUpFails(a)
    BY <1>3
  <2>2. /\ cleaning[a] > 0 /\ cleaning' = [cleaning EXCEPT ![a] = @ - 1]
        /\ installed' \in SUBSET installed
        /\ Undisturbed => installed' = installed \ {a}
        /\ UNCHANGED <<may, moves, resource, handler, registered, entries, locked,
                       known, clone>>
    BY <2>1 DEF CleanUp, CleanUpFails, Undisturbed
  <2>3. cleaning' \in [Apps -> Nat] /\ \A b \in Apps \ {a} : cleaning'[b] = cleaning[b]
    <3>1. cleaning \in [Apps -> Nat] /\ cleaning[a] - 1 \in Nat
      BY <2>2 DEF IInv, TypeOK
    <3> QED BY <2>2, <3>1
  <2>4. TypeOK' /\ ScannedInv' /\ ListedInv'
    BY <2>2, <2>3 DEF IInv, TypeOK, ScannedInv, ListedInv, WorksOn
  <2>5. OnceInv'
    BY <2>2 DEF IInv, OnceInv, NoCallLost, OnceFor, WorksOn
  <2>6. GoneInv'
    BY <2>2, <2>3 DEF IInv, GoneInv, Undisturbed, GoneFor, WorksOn
  <2> QED BY <2>4, <2>5, <2>6 DEF IInv
<1>2. CASE Restart
  <2>1. /\ "restart" \in may
        /\ registered' = {} /\ locked' = {} /\ known' = {}
        /\ entries' = [a \in Apps |-> 0] /\ cleaning' = [a \in Apps |-> 0]
        /\ installed' \in SUBSET installed
        /\ UNCHANGED <<may, resource>>
    BY <1>2 DEF Restart, Happens
  <2>11. clone' \in [Apps -> {"none", "partial", "clone"}]
    <3>1. PICK cut \in [InFlux -> {"none", "partial", "clone"}] :
            clone' = [a \in Apps |-> IF a \in DOMAIN cut THEN cut[a] ELSE clone[a]]
      BY <1>2 DEF Restart
    <3>2. \A a \in DOMAIN cut : cut[a] \in {"none", "partial", "clone"}
      OBVIOUS
    <3> QED BY <3>1, <3>2 DEF IInv, TypeOK
  <2>2. \A k \in Keys : /\ handler'[k] \in {handler[k], None}
                        /\ handler'[k] # None => handler'[k].at # "scanned"
    BY <1>2 DEF Restart, IInv, TypeOK, Keys
  <2>3. handler' \in [Workers \cup Slots -> Requests \cup {None}]
    BY <1>2 DEF Restart, IInv, TypeOK
  <2>4. moves' \in 0..MaxMoves
    BY <1>2, MoveInBound DEF Restart, Happens, IInv
  <2>5. TypeOK'
    BY <2>1, <2>2, <2>3, <2>4, <2>11 DEF IInv, TypeOK, Keys
  <2>6. ScannedInv'
    BY <2>2 DEF ScannedInv, WorksOn
  <2>7. \A a \in Apps : entries'[a] = 0
    BY <2>1
  <2>8. ListedInv'
    BY <2>1, <2>7 DEF ListedInv
  <2>9. OnceInv'
    <3>1. \A a \in Apps : OnceFor(a)'
      BY <2>7 DEF OnceFor
    <3>2. NoCallLost' => \A s \in Slots : handler'[s] = None
      BY <2>1, <2>2 DEF IInv, OnceInv, NoCallLost, Keys
    <3> QED BY <3>1, <3>2 DEF OnceInv, NoCallLost
  <2>10. GoneInv'
    BY <2>1 DEF GoneInv, Undisturbed
  <2> QED BY <2>5, <2>6, <2>8, <2>9, <2>10 DEF IInv
<1> QED BY <1>1, <1>2, <1>3

LEMMA NextInv == IInv /\ [Next]_vars => IInv'
<1> SUFFICES ASSUME IInv, [Next]_vars PROVE IInv'
  OBVIOUS
<1>1. CASE UNCHANGED vars
  BY <1>1 DEF vars, worldVars, serverVars, listVars, clusterVars, IInv, TypeOK, ScannedInv, ListedInv,
              OnceInv, NoCallLost, OnceFor, GoneInv, Undisturbed, GoneFor, WorksOn
<1>2. CASE \E x \in Resources : UserStep(x) \/ Reconcile(x)
  BY <1>2, UserInv, ReconcileInv
<1>3. CASE \E w \in Workers : Return(w) \/ UpdateFails(w) \/ LoseCall(w)
  BY <1>3, CallInv
<1>4. CASE \E k \in DOMAIN handler : Handle(k) \/ AddFails(k)
  <2>1. PICK k \in Keys : Handle(k) \/ AddFails(k)
    BY <1>4 DEF IInv, TypeOK, Keys
  <2> QED BY <2>1, RepositoryInv, DeleteRepositoryInv, FindInv, ApplicationInv DEF Handle
<1>5. CASE (\E a \in Apps : Deliver(a) \/ CleanUp(a) \/ CleanUpFails(a)) \/ Restart
  BY <1>5, ServerInv
<1> QED BY <1>1, <1>2, <1>3, <1>4, <1>5 DEF Next

LEMMA Invariance == Spec => []IInv
BY InitInv, NextInv, PTL DEF Spec

-----------------------------------------------------------------------------
\* No step leaves the types: above all, a deletion only removes an application
\* that is listed, and a locked repository stays listed (repository.go:253-283).
THEOREM TypeCorrect == Spec => []TypeOK
BY Invariance, PTL DEF IInv

\* The operator's requests list an application once as long as no call is lost,
\* whatever fails, restarts or is deleted (repository.go:200-219).
THEOREM ApplicationsListedOnce == Spec => []ListedOnce
<1>1. IInv => ListedOnce
  BY DEF IInv, OnceInv, NoCallLost, OnceFor, ListedOnce
<1> QED BY <1>1, Invariance, PTL

\* An Application that left the cluster is not listed, and what is installed of it
\* has a clean-up under way, as long as no process ends, no call is lost and no
\* uninstallation or clean-up fails (application_controller.go:67-88).
THEOREM GoneApplications == Spec => []GoneIsUninstalled
<1>1. IInv => GoneIsUninstalled
  <2> SUFFICES ASSUME IInv, Undisturbed,
                      NEW a \in Apps, resource[a] = "gone"
               PROVE  entries[a] = 0 /\ (a \in installed => cleaning[a] > 0)
    BY DEF GoneIsUninstalled
  <2>1. /\ a \in installed => a \in known \/ cleaning[a] > 0
        /\ entries[a] = 0
    BY DEF IInv, GoneInv, GoneFor
  <2>2. a \notin known
    BY <2>1 DEF IInv, ListedInv
  <2> QED BY <2>1, <2>2
<1> QED BY <1>1, Invariance, PTL
=============================================================================
