------------------------------ MODULE Registry ------------------------------
(***************************************************************************)
(* What the requests AddRepository and DeleteRepository promise (server.go *)
(* and handler.go): each changes the set of registered repositories at     *)
(* most once, in one step, when it is answered, and only in the way it was *)
(* asked to.  Nothing is said of locks, slots or the order of goroutines.  *)
(***************************************************************************)
CONSTANTS Callers, Names, URLs, None

VARIABLES
  registered,  \* the repositories, each a name and a URL
  asked        \* the request each caller waits for

vars == <<registered, asked>>

Requests == [op : {"AddRepository"}, name : Names, url : URLs]
              \cup [op : {"DeleteRepository"}, name : Names, url : {None}]

Entry(request) == [name |-> request.name, url |-> request.url]
Named(name) == {e \in registered : e.name = name}

Init ==
  /\ registered = {}
  /\ asked = [c \in Callers |-> None]

Ask(c) ==
  /\ asked[c] = None
  /\ \E request \in Requests : asked' = [asked EXCEPT ![c] = request]
  /\ UNCHANGED registered

Answer(c, op) ==
  /\ asked[c] # None /\ asked[c].op = op
  /\ asked' = [asked EXCEPT ![c] = None]

\* One repository of a URL.
Add(c) ==
  /\ Answer(c, "AddRepository")
  /\ \A e \in registered : e.url # asked[c].url
  /\ registered' = registered \cup {Entry(asked[c])}

\* The URL is there, or the repository's secret cannot be used.
Refuse(c) ==
  /\ Answer(c, "AddRepository")
  /\ UNCHANGED registered

Remove(c) ==
  /\ Answer(c, "DeleteRepository")
  /\ \E e \in Named(asked[c].name) : registered' = registered \ {e}

\* ErrRepositoryConfigNotFound is the truth.
NotFound(c) ==
  /\ Answer(c, "DeleteRepository")
  /\ Named(asked[c].name) = {}
  /\ UNCHANGED registered

\* The process ends, and with it the registry and every connection.
End ==
  /\ registered' = {}
  /\ asked' = [c \in Callers |-> None]

Next ==
  \/ \E c \in Callers : Ask(c) \/ Add(c) \/ Refuse(c) \/ Remove(c) \/ NotFound(c)
  \/ End

Spec == Init /\ [][Next]_vars
=============================================================================
