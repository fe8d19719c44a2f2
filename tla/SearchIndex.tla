---------------------------- MODULE SearchIndex ----------------------------
(***************************************************************************)
(* What ingestion promises the search that reads document_chunks: for each *)
(* version of a document there is one set of chunks or none, never two and *)
(* never a part of one, and it is replaced in one step, a version at a     *)
(* time, by the set of one run, or by nothing when that run found no text. *)
(***************************************************************************)
CONSTANTS Versions

VARIABLES index  \* the chunk sets that can be found for each version

Single(sets) == \E g \in sets : sets = {g}

Init ==
  /\ DOMAIN index = Versions
  /\ \A v \in Versions : index[v] = {} \/ Single(index[v])

\* One version is indexed, whatever it held before.
Publish(v) ==
  \E g \in index'[v] : index' = [index EXCEPT ![v] = {g}]

\* A version whose text could not be read again is found no more.
Withdraw(v) == index' = [index EXCEPT ![v] = {}]

Next == \E v \in Versions : Publish(v) \/ Withdraw(v)

Spec == Init /\ [][Next]_index
=============================================================================
