------------------------- MODULE RegistryRefinement -------------------------
(***************************************************************************)
(* RepositoryHandler implements Registry: an added repository counts from  *)
(* the moment its slot is stored, a deleted one until its slot is          *)
(* overwritten, however long the handlers wait in between.                 *)
(***************************************************************************)
EXTENDS RepositoryHandler

\* A request is never mistaken for none.
ASSUME NoRequestAssumption ==
  Nil \notin [op : {"AddRepository", "DeleteRepository"}, name : RepoNames, url : URLs \cup {Nil}]

Registered == {config[repos[i]] : i \in Settled}

Asked == [c \in Callers |->
  IF req[c].op \in {"AddRepository", "DeleteRepository"}
    THEN [op |-> req[c].op, name |-> req[c].name, url |-> req[c].url] ELSE Nil]

Reg == INSTANCE Registry
  WITH Names <- RepoNames, None <- Nil, registered <- Registered, asked <- Asked

\* A request changes which repositories are registered in one step and as it was
\* asked to: no swap of slots, no overlap with another request and no wait
\* between lookup and removal makes DeleteRepository drop another repository, or
\* miss one that is there, or lets an added one replace another
\* (server.go:20-74, handler.go:169-233).
ImplementsRegistry == Reg!Spec
=============================================================================
