------------------------- MODULE ApplicationProofs -------------------------
(***************************************************************************)
(* Proofs about Application, for every history of the remote and every     *)
(* bound on the moves: its types, where a new revision comes from, and,    *)
(* when no call fails once there is a revision, that the provider is told  *)
(* the revision of the files it finds.                                     *)
(***************************************************************************)
EXTENDS Application, WellFoundedInduction, TLAPS

\* A non-empty set of naturals with an upper bound has a maximum: the distances
\* from the bound have a minimum.
LEMMA Maximum ==
  ASSUME NEW c \in Nat, NEW S \in SUBSET Nat, S # {}, \A d \in S : d <= c
  PROVE  \E d \in S : \A e \in S : e <= d
<1> DEFINE T == {c - d : d \in S}
<1>1. T \subseteq Nat /\ T # {}
  <2>1. \A d \in S : c - d \in Nat
    OBVIOUS
  <2>2. PICK d \in S : TRUE
    OBVIOUS
  <2>3. c - d \in T
    BY <2>2
  <2> QED BY <2>1, <2>3
<1>2. PICK x \in T : \A y \in T : ~(<<y, x>> \in OpToRel(<, Nat))
  <2> HIDE DEF T
  <2> QED BY <1>1, NatLessThanWellFounded, WFMin
<1>3. \A y \in T : x <= y
  <2>1. SUFFICES ASSUME NEW y \in T, ~(x <= y) PROVE FALSE
    OBVIOUS
  <2>2. x \in Nat /\ y \in Nat /\ y < x
    BY <1>1, <2>1
  <2>3. <<y, x>> \in OpToRel(<, Nat)
    BY <2>2 DEF OpToRel
  <2> QED BY <1>2, <2>3
<1>4. PICK d \in S : x = c - d
  OBVIOUS
<1>5. \A e \in S : e <= d
  <2> SUFFICES ASSUME NEW e \in S PROVE e <= d
    OBVIOUS
  <2>1. c - e \in T
    OBVIOUS
  <2>2. c - d <= c - e
    BY <1>3, <1>4, <2>1
  <2>3. c \in Nat /\ d \in Nat /\ e \in Nat
    BY <1>4
  <2> HIDE DEF T
  <2> QED BY <2>2, <2>3
<1> QED BY <1>5

\* The head revision of a commit is a commit that touches the path, or none.
LEMMA HeadRevisionType ==
  ASSUME NEW c \in Commits
  PROVE  HeadRevision(c) \in Touching \cup {0}
<1> DEFINE log == History[c] \cap Touching
<1>1. CASE log = {}
  BY <1>1 DEF HeadRevision
<1>2. CASE log # {}
  <2>1. c \in Nat /\ log \in SUBSET Nat /\ \A d \in log : d <= c
    BY CommitsAssumption
  <2>2. \E d \in log : \A e \in log : e <= d
    <3> HIDE DEF log
    <3> QED BY <1>2, <2>1, Maximum
  <2>3. (CHOOSE d \in log : \A e \in log : e <= d) \in log
    BY <2>2
  <2> QED BY <1>2, <2>3 DEF HeadRevision
<1> QED BY <1>1, <1>2

-----------------------------------------------------------------------------
\* What RunLifeCycle and NewApplication rely on between their steps.
CloneInv ==
  /\ disk = "clone" => {tracking, local, worktree} \subseteq Commits
  /\ pc \notin {"absent", "cloning"} => disk = "clone"
  /\ pc \in {"pull", "checkout"} => local = tracking

RevisionInv ==
  /\ pc \in {"absent", "cloning", "cloned"} => currentRevision = 0
  /\ pc = "deliver" => currentRevision # 0

IInv == TypeOK /\ CloneInv /\ RevisionInv

LEMMA InitInv == Init => IInv
BY MovesAssumption DEF Init, IInv, TypeOK, CloneInv, RevisionInv

LEMMA MoveInBound ==
  ASSUME moves \in 0..MaxMoves, Move
  PROVE  moves' \in 0..MaxMoves
BY MovesAssumption DEF Move

\* The steps of the world keep the invariant.
LEMMA OutsideInv ==
  ASSUME IInv, Outside \/ DeleteUnknown \/ StartDelete
  PROVE  IInv'
<1> USE MovesAssumption DEF IInv, TypeOK, CloneInv, RevisionInv
<1>1. CASE Push
  <2>1. UNCHANGED <<wanted, disk, tracking, local, worktree, currentRevision, pc>>
    BY <1>1 DEF Push, cloneVars
  <2>2. upstream' \in Commits /\ moves' \in 0..MaxMoves
    BY <1>1 DEF Push, Move
  <2> QED BY <2>1, <2>2
<1>2. CASE Create
  <2>1. /\ wanted' = TRUE
        /\ UNCHANGED <<upstream, moves, disk, tracking, local, worktree,
                       currentRevision, pc>>
    BY <1>2 DEF Create, cloneVars
  <2>2. TypeOK'
    BY <2>1
  <2>3. CloneInv'
    BY <2>1
  <2>4. RevisionInv'
    BY <2>1
  <2> QED BY <2>2, <2>3, <2>4
<1>3. CASE Crash
  <2>1. /\ currentRevision' = 0 /\ pc' = "absent"
        /\ UNCHANGED <<upstream, wanted, disk, tracking, local, worktree>>
    BY <1>3 DEF Crash, Lose, Goto, cloneVars
  <2>2. moves' \in 0..MaxMoves
    BY <1>3, MoveInBound DEF Crash
  <2>3. TypeOK'
    BY <2>1, <2>2
  <2>4. CloneInv'
    BY <2>1
  <2>5. RevisionInv'
    BY <2>1
  <2> QED BY <2>3, <2>4, <2>5
<1>4. CASE DeleteUnknown
  <2>1. /\ wanted' = FALSE
        /\ UNCHANGED <<upstream, disk, tracking, local, worktree,
                       currentRevision, pc>>
    BY <1>4 DEF DeleteUnknown, cloneVars
  <2>2. moves' \in 0..MaxMoves
    BY <1>4, MoveInBound DEF DeleteUnknown
  <2>3. TypeOK'
    BY <2>1, <2>2
  <2>4. CloneInv' /\ RevisionInv'
    BY <2>1
  <2> QED BY <2>3, <2>4
<1>5. CASE StartDelete
  <2>1. /\ pc = "idle" /\ pc' = "uninstall" /\ wanted' = FALSE
        /\ UNCHANGED <<upstream, disk, tracking, local, worktree, currentRevision>>
    BY <1>5 DEF StartDelete, Goto, cloneVars
  <2>2. moves' \in 0..MaxMoves
    BY <1>5, MoveInBound DEF StartDelete
  <2>3. TypeOK'
    BY <2>1, <2>2
  <2>4. CloneInv' /\ RevisionInv'
    BY <2>1
  <2> QED BY <2>3, <2>4
<1> QED BY <1>1, <1>2, <1>3, <1>4, <1>5 DEF Outside

\* So do the clone and the provider.
LEMMA NewApplicationInv ==
  ASSUME IInv, NewRepository \/ Provider
  PROVE  IInv'
<1> USE DEF IInv, TypeOK, CloneInv, RevisionInv, outsideVars, cloneVars, Goto
<1>1. CASE StartClone
  BY <1>1 DEF StartClone
<1>2. CASE Clone
  BY <1>2 DEF Clone
<1>3. CASE CloneFails
  BY <1>3 DEF CloneFails
<1>4. CASE CloneUnchecked
  BY <1>4 DEF CloneUnchecked
<1>5. CASE OpenClone
  BY <1>5 DEF OpenClone
<1>6. CASE OpenFails
  BY <1>6 DEF OpenFails, vars
<1>7. CASE ProviderCreated
  BY <1>7 DEF ProviderCreated
<1>8. CASE ProviderRefused
  BY <1>8 DEF ProviderRefused
<1>9. CASE Delivered
  BY <1>9 DEF Delivered
<1>10. CASE DeleteApplication
  BY <1>10 DEF DeleteApplication, Lose
<1>11. CASE Uninstall
  BY <1>11 DEF Uninstall, Lose
<1> QED BY <1>1, <1>2, <1>3, <1>4, <1>5, <1>6, <1>7, <1>8, <1>9, <1>10, <1>11
        DEF NewRepository, Provider

\* And RunLifeCycle, step by step.
LEMMA UpdateRepositoryInv ==
  ASSUME IInv, UpdateRepository
  PROVE  IInv'
<1> USE DEF IInv, TypeOK, CloneInv, RevisionInv, outsideVars, cloneVars, Goto
<1>1. CASE FetchFails
  BY <1>1 DEF FetchFails, vars
<1>2. CASE FetchUpToDate
  BY <1>2 DEF FetchUpToDate
<1>3. CASE FetchUpdates
  BY <1>3 DEF FetchUpdates
<1>4. CASE FetchOther
  BY <1>4, MovesAssumption DEF FetchOther, Move
<1>5. CASE ResetSparsely
  BY <1>5 DEF ResetSparsely
<1>6. CASE ResetFails
  BY <1>6 DEF ResetFails
<1>7. CASE CheckoutForPull
  BY <1>7 DEF CheckoutForPull
<1>8. CASE CheckoutFails
  BY <1>8 DEF CheckoutFails
<1>9. CASE PullUpToDate
  BY <1>9 DEF PullUpToDate
<1>10. CASE PullUpdates
  BY <1>10 DEF PullUpdates
<1>11. CASE PullFails
  BY <1>11 DEF PullFails
<1>12. CASE UpdateRevision
  <2>1. HeadRevision(local) \in Touching \cup {0}
    BY <1>12, HeadRevisionType DEF UpdateRevision
  <2> QED BY <1>12, <2>1 DEF UpdateRevision
<1>13. CASE PullOther
  BY <1>13, MovesAssumption DEF PullOther, Move
<1>14. CASE PullNotFastForward
  BY <1>14 DEF PullNotFastForward
<1> QED BY <1>1, <1>2, <1>3, <1>4, <1>5, <1>6, <1>7, <1>8, <1>9, <1>10, <1>11, <1>12,
           <1>13, <1>14
        DEF UpdateRepository

LEMMA NextInv == IInv /\ [Next]_vars => IInv'
<1>1. CASE UNCHANGED vars
  BY <1>1 DEF vars, outsideVars, cloneVars, IInv, TypeOK, CloneInv, RevisionInv
<1>2. CASE Next
  BY <1>2, OutsideInv, NewApplicationInv, UpdateRepositoryInv DEF Next
<1> QED BY <1>1, <1>2

LEMMA Invariance == Spec => []IInv
BY InitInv, NextInv, PTL DEF Spec

\* No step leaves the clone, the revision or the control outside its type; the
\* revision is always a commit that touches the path (application.go:41-269).
THEOREM TypeCorrect == Spec => []TypeOK
BY Invariance, PTL DEF IInv

-----------------------------------------------------------------------------
\* Only UpdateRevision takes a new revision.
LEMMA NewRevision ==
  ASSUME [Next]_vars, currentRevision' \notin {0, currentRevision}
  PROVE  UpdateRevision
BY DEF Next, vars, Outside, Push, Create, Crash, Lose, NewRepository, StartClone,
       Clone, CloneFails, CloneUnchecked, OpenClone, OpenFails, UpdateRepository,
       FetchFails, FetchUpToDate, FetchUpdates, FetchOther, ResetSparsely, ResetFails,
       CheckoutForPull, CheckoutFails, PullUpToDate, PullOther, PullUpdates,
       PullNotFastForward, PullFails,
       Provider, ProviderCreated, ProviderRefused, Delivered, DeleteApplication,
       Uninstall, DeleteUnknown, StartDelete

\* A new CurrentRevision is the head revision of what the last fetch saw,
\* whichever calls have failed before (application.go:185-256).
THEOREM RevisionFetched == Spec => NewRevisionIsFetched
<1>1. IInv /\ [Next]_vars =>
        [currentRevision' \notin {0, currentRevision}
           => local = tracking /\ currentRevision' = HeadRevision(tracking)]_vars
  <2>1. SUFFICES ASSUME IInv, [Next]_vars, currentRevision' \notin {0, currentRevision}
                 PROVE  local = tracking /\ currentRevision' = HeadRevision(tracking)
    OBVIOUS
  <2>2. UpdateRevision
    BY <2>1, NewRevision
  <2> QED BY <2>1, <2>2 DEF IInv, CloneInv, UpdateRevision
<1> QED BY <1>1, Invariance, PTL DEF Spec, NewRevisionIsFetched

-----------------------------------------------------------------------------
\* Between two life cycles that have a revision, the files and the branch stand
\* where the revision was taken.
SteadyInv ==
  currentRevision # 0 /\ pc \notin {"checkout", "uninstall"} =>
    worktree = local /\ HeadRevision(local) \in {0, currentRevision}

LEMMA SteadyStep ==
  ASSUME "late failure" \notin MayHappen, IInv, SteadyInv, [Next]_vars
  PROVE  SteadyInv'
<1> USE DEF SteadyInv, outsideVars, cloneVars, Goto
<1>1. CASE UNCHANGED vars \/ OpenFails \/ FetchFails
  BY <1>1 DEF vars, OpenFails, FetchFails
<1>2. CASE Outside \/ DeleteUnknown \/ StartDelete
  BY <1>2 DEF Outside, Push, Create, Crash, Lose, DeleteUnknown, StartDelete
<1>3. CASE Provider
  BY <1>3 DEF Provider, ProviderCreated, ProviderRefused, Delivered,
              DeleteApplication, Uninstall, Lose
<1>4. CASE StartClone \/ Clone \/ CloneFails \/ CloneUnchecked \/ OpenClone
  BY <1>4 DEF StartClone, Clone, CloneFails, CloneUnchecked, OpenClone, IInv, RevisionInv
<1>5. CASE FetchUpToDate \/ FetchUpdates \/ FetchOther
  BY <1>5 DEF FetchUpToDate, FetchUpdates, FetchOther
<1>6. CASE ResetFails \/ CheckoutFails \/ PullFails
  BY <1>6 DEF ResetFails, CheckoutFails, PullFails, Fails
<1>7. CASE \/ ResetSparsely \/ CheckoutForPull
           \/ PullUpToDate \/ PullOther \/ PullUpdates \/ PullNotFastForward
  BY <1>7 DEF ResetSparsely, CheckoutForPull, PullUpToDate, PullOther, PullUpdates,
              PullNotFastForward
<1>8. CASE UpdateRevision
  BY <1>8 DEF UpdateRevision
<1> QED BY <1>1, <1>2, <1>3, <1>4, <1>5, <1>6, <1>7, <1>8
        DEF Next, NewRepository, UpdateRepository

\* As long as resets, pulls and checkouts fail only before the first revision of
\* a process, the provider is told the revision of the files it finds in the
\* working tree (application.go:139-261).
THEOREM WorktreeDelivered ==
  ASSUME "late failure" \notin MayHappen
  PROVE  Spec => []DeliversWorktree
<1>1. Init => SteadyInv
  BY DEF Init, SteadyInv
<1>2. IInv /\ SteadyInv /\ [Next]_vars => SteadyInv'
  BY SteadyStep
<1>3. IInv /\ SteadyInv => DeliversWorktree
  BY DEF IInv, RevisionInv, SteadyInv, DeliversWorktree
<1> QED BY <1>1, <1>2, <1>3, Invariance, PTL DEF Spec
=============================================================================
