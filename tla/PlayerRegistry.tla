--------------------------- MODULE PlayerRegistry ---------------------------
(***************************************************************************)
(* The player registry (player_registry.c) and the reference counts of    *)
(* the PLAYER objects it hands out (player.c).  The registry is a list of *)
(* PLAYERs under preg->mutex, one per user name, from which nothing is    *)
(* ever removed while the server runs.  A PLAYER is named by its user     *)
(* name; its ref_count is refs[name], 0 before player_create and after    *)
(* the PLAYER is freed.                                                    *)
(*                                                                         *)
(* The operations are used by the module that composes the registry with  *)
(* the threads that call them (ServerLifecycle).  Allocation failures     *)
(* (preg_register returning NULL) are not modelled.                       *)
(***************************************************************************)
EXTENDS Naturals

CONSTANTS Name   \* user names

VARIABLES
  preg,   \* names whose PLAYER is in the registry's list
  refs    \* ref_count of the PLAYER of each name (0: none, or freed)

\* preg_init: an empty list
Init ==
  /\ preg = {}
  /\ refs = [n \in Name |-> 0]

\* preg_register, the part under preg->mutex: the list is searched for the
\* name; if it is missing, player_create makes a PLAYER with ref_count 1
\* (the registry's reference) and it is appended.  The reference for the
\* caller is taken after the mutex is released (player_ref).
preg_register_locked(n) ==
  IF n \in preg
  THEN UNCHANGED <<preg, refs>>
  ELSE /\ preg' = preg \cup {n}
       /\ refs' = [refs EXCEPT ![n] = 1]

\* player_ref under player->mutex
player_ref(n) ==
  /\ refs' = [refs EXCEPT ![n] = @ + 1]
  /\ UNCHANGED preg

\* player_unref under player->mutex; at 0 the PLAYER is freed
player_unref(n) ==
  /\ refs' = [refs EXCEPT ![n] = @ - 1]
  /\ UNCHANGED preg

\* player_ref on every PLAYER of a set of names, one at a time under each
\* player->mutex (the loop of creg_all_players)
player_ref_each(S) ==
  /\ refs' = [n \in Name |-> IF n \in S THEN refs[n] + 1 ELSE refs[n]]
  /\ UNCHANGED preg

\* player_unref on every PLAYER of a set of names (the caller's loop over
\* the array creg_all_players returned)
player_unref_each(S) ==
  /\ refs' = [n \in Name |-> IF n \in S THEN refs[n] - 1 ELSE refs[n]]
  /\ UNCHANGED preg

\* preg_fini: the registry's reference to every PLAYER is dropped and the
\* list is freed
preg_fini ==
  /\ refs' = [n \in Name |-> IF n \in preg THEN refs[n] - 1 ELSE refs[n]]
  /\ preg' = {}

TypeOK ==
  /\ preg \subseteq Name
  /\ refs \in [Name -> Nat]

=============================================================================
