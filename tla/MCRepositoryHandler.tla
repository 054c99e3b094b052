------------------------ MODULE MCRepositoryHandler ------------------------
(* Constants of the runs of RepositoryHandler.                             *)
EXTENDS RegistryRefinement, TLC

AllOps == {"AddRepository", "DeleteRepository", "AddOrUpdateApplication",
           "DeleteApplication", "GetApplications"}
RepositoryOps == {"AddRepository", "DeleteRepository"}
AddingOps == {"AddRepository", "AddOrUpdateApplication"}
ApplicationOps == AddingOps \cup {"DeleteApplication"}

\* Objects are interchangeable until they are allocated.
Addresses == Permutations(RepoAddrs) \cup Permutations(AppAddrs)
\* So are the clients of repositories and the names.
Alike == Addresses \cup Permutations(RepoCallers) \cup Permutations(AppNames)
         \cup Permutations(RepoNames)

=============================================================================
