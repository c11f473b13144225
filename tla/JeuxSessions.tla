---------------------------- MODULE JeuxSessions ----------------------------
(***************************************************************************)
(* The session substrate of the Jeux server: one service thread per       *)
(* connection (server.c jeux_client_service), the CLIENT objects with     *)
(* their invitation lists and id allocators (client.c), the shared        *)
(* INVITATION objects (invitation.c) and the client registry lookups the  *)
(* sessions use (client_registry.c).                                      *)
(*                                                                         *)
(* Granularity.  Every client_*_invitation / client_make_move /           *)
(* client_resign_game body runs under the global CLIENT_INVITE_OP_SEM,    *)
(* so each is one atomic step.  Everything the code does outside that     *)
(* semaphore is its own step: the registry lookup of process_invite, and  *)
(* each read of the invitation list in client_logout, which holds only    *)
(* CLIENT_LOGOUT_SEM while it walks the list and calls the operations.    *)
(*                                                                         *)
(* The sections are taken to exclude one another as the semaphores are    *)
(* meant to make them.  The code breaks this whenever a connection        *)
(* registers (client_create re-initialises every global semaphore); that  *)
(* fault is modelled, for CLIENT_LOGIN_SEM, in ServerLifecycle.           *)
(*                                                                         *)
(* The game board is abstracted to whose turn it is, the number of marks  *)
(* placed and the outcome (GameRules; JeuxGame shows the board-level code *)
(* refines that abstraction).                                             *)
(***************************************************************************)
EXTENDS Naturals, Sequences, FiniteSets, SequencesExt, GameRules

CONSTANTS
  Client,       \* connections (each runs one service thread)
  Name,         \* user names a client may log in as
  MaxInv,       \* bound: number of INVITATION objects created in a run
  Adversarial,  \* TRUE: clients may send any request; FALSE: only what a
                \* protocol-following client sends
  NoClient, NoName

ASSUME MaxInv \in Nat \ {0} /\ Adversarial \in BOOLEAN

InvSlot == 1 .. MaxInv        \* addresses of INVITATION objects
NoInv == 0                     \* the NULL invitation pointer
IdRange == 0 .. MaxInv        \* per-client invitation ids that can exist
NoNode == [id |-> 0, inv |-> NoInv]

VARIABLES
  conn,       \* phase of the connection's service thread
  player,     \* client->player (NoName = NULL)
  loggedIn,   \* client->logged_in = CLIENT_LOGGED_IN
  gate,       \* process_login_packet # 0 in jeux_client_service
  invs,       \* client->invite_head as a sequence, head first
  inv,        \* INVITATION objects by address
  nextInv,    \* next unused INVITATION address
  pending,    \* invitee found by creg_lookup, not yet passed to
              \* client_make_invitation
  lo,         \* client_logout's cursor into the invitation list
  logoutSem,  \* holder of CLIENT_LOGOUT_SEM
  results,    \* player_post_result calls, in order
  crash       \* why the server process died, or "none"

vars == <<conn, player, loggedIn, gate, invs, inv, nextInv, pending, lo,
          logoutSem, results, crash>>

Phases == {"idle", "open", "eof", "loggingOut", "loggedOut", "unrefLast",
           "unrefShared", "closed"}
Node == [id : IdRange, inv : InvSlot]
Invitation == [state : {"unused", "open", "accepted", "closed"},
               source : Client \cup {NoClient}, target : Client \cup {NoClient},
               sourceRole : {0, 1, 2}, targetRole : {0, 1, 2}, game : Game]
Unused == [state |-> "unused", source |-> NoClient, target |-> NoClient,
           sourceRole |-> 0, targetRole |-> 0, game |-> NoGame]
Cursor == [pc : {"read", "op"}, cur : Node \cup {NoNode},
           op : {"none", "resign", "revoke", "decline"},
           next : Node \cup {NoNode}]
IdleCursor == [pc |-> "read", cur |-> NoNode, op |-> "none", next |-> NoNode]
NoPending == [to |-> NoClient, role |-> 0]

-----------------------------------------------------------------------------
(* Helpers over the invitation lists *)

\* the client is in the registry's clients[] array
Registered(c) == conn[c] \in {"open", "eof", "loggingOut", "loggedOut"}

\* a packet written to the client's fd reaches it (the fd is closed after
\* creg_unregister; writes then fail)
Delivered(c) == conn[c] # "closed"

IdsIn(l, c) == {n.id : n \in ToSet(l[c])}
IdsOf(c) == IdsIn(invs, c)

\* client_get_invitation: the invitation a client's id names, or NULL
InvOf(c, id) ==
  IF \E n \in ToSet(invs[c]) : n.id = id
  THEN (CHOOSE n \in ToSet(invs[c]) : n.id = id).inv
  ELSE NoInv

\* client_remove_invitation applied to lists l (a no-op returning -1 when
\* the invitation is not in the list)
Drop(l, c, i) == [l EXCEPT ![c] = SelectSeq(@, LAMBDA n : n.inv # i)]

\* get_available_id: the lowest id not currently taken
get_available_id(l, c) ==
  CHOOSE k \in IdRange : k \notin IdsIn(l, c) /\ \A j \in 0 .. k - 1 : j \in IdsIn(l, c)

\* client_add_invitation: push a node with a fresh id at the head
Add(l, c, i) == [l EXCEPT ![c] = <<[id |-> get_available_id(l, c), inv |-> i]>> \o @]

\* a live INVITATION (one still in some list) holds a reference to the
\* CLIENT: inv_create refs source and target, and the last inv_unref of
\* client_remove_invitation unrefs them
Named(c) ==
  \E d \in Client : \E n \in ToSet(invs[d]) :
    c \in {inv[n.inv].source, inv[n.inv].target}

\* the CLIENT object has been freed: the registry dropped its reference and
\* no live INVITATION holds one (when an invitation held one as the
\* registry's was dropped, the invitation's last client_unref freed it)
Freed(c) == ~Named(c) /\ conn[c] \in {"unrefShared", "closed"}

RoleOf(i, c) == IF inv[i].source = c THEN inv[i].sourceRole ELSE inv[i].targetRole
OpponentOf(i, c) == IF inv[i].source = c THEN inv[i].target ELSE inv[i].source

\* post_player_results: player_post_result(first player's, second player's,
\* result); skipped when either client has no player
Post(i, c, opp, role, result) ==
  IF player[c] # NoName /\ player[opp] # NoName
  THEN Append(results, [inv |-> i, result |-> result,
                        first |-> IF role = FIRST_PLAYER_ROLE THEN player[c] ELSE player[opp],
                        second |-> IF role = FIRST_PLAYER_ROLE THEN player[opp] ELSE player[c]])
  ELSE results

-----------------------------------------------------------------------------
Init ==
  /\ conn = [c \in Client |-> "idle"]
  /\ player = [c \in Client |-> NoName]
  /\ loggedIn = [c \in Client |-> FALSE]
  /\ gate = [c \in Client |-> FALSE]
  /\ invs = [c \in Client |-> <<>>]
  /\ inv = [i \in InvSlot |-> Unused]
  /\ nextInv = 1
  /\ pending = [c \in Client |-> NoPending]
  /\ lo = [c \in Client |-> IdleCursor]
  /\ logoutSem = NoClient
  /\ results = <<>>
  /\ crash = "none"

Alive == crash = "none"

\* A request may be sent: the service loop is reading packets, the client
\* passed the driver's gate and, for a protocol-following client, its
\* LOGIN was accepted.
Serving(c) ==
  /\ Alive
  /\ conn[c] = "open"
  /\ pending[c] = NoPending
  /\ gate[c]
  /\ Adversarial \/ loggedIn[c]

\* the ids a client may name in a request, given which side it must be on
Requestable(c, side) ==
  IF Adversarial THEN IdRange
  ELSE {n.id : n \in {m \in ToSet(invs[c]) :
          side = "any" \/ (side = "source") = (inv[m.inv].source = c)}}

-----------------------------------------------------------------------------
(* Connection and login *)

\* jeux_client_service after a successful creg_register
Connect(c) ==
  /\ Alive
  /\ conn[c] = "idle"
  /\ conn' = [conn EXCEPT ![c] = "open"]
  /\ UNCHANGED <<player, loggedIn, gate, invs, inv, nextInv, pending, lo,
                 logoutSem, results, crash>>

\* process_login with a missing or empty user name: NACK, and the -1 it
\* returns still opens the driver's gate
LoginRejected(c) ==
  /\ Alive
  /\ conn[c] = "open"
  /\ pending[c] = NoPending
  /\ Adversarial
  /\ gate' = [gate EXCEPT ![c] = TRUE]
  /\ UNCHANGED <<conn, player, loggedIn, invs, inv, nextInv, pending, lo,
                 logoutSem, results, crash>>

\* creg_all_players: the players of the registered clients that have one
\* (client->player is not cleared by client_logout)
creg_all_players == {player[d] : d \in {d \in Client : Registered(d)}} \ {NoName}

\* process_login with a name: preg_register, then client_login under
\* CLIENT_LOGIN_SEM, which refuses a name some registered client's player
\* already has (creg_all_players).  On refusal the client gets NACK then ACK
\* and the gate opens all the same.
Login(c, n) ==
  /\ Alive
  /\ conn[c] = "open"
  /\ pending[c] = NoPending
  /\ player[c] = NoName
  /\ IF n \in creg_all_players
     THEN UNCHANGED <<player, loggedIn>>
     ELSE /\ player' = [player EXCEPT ![c] = n]
          /\ loggedIn' = [loggedIn EXCEPT ![c] = TRUE]
  /\ gate' = [gate EXCEPT ![c] = TRUE]
  /\ UNCHANGED <<conn, invs, inv, nextInv, pending, lo, logoutSem, results,
                 crash>>

-----------------------------------------------------------------------------
(* The invitation operations.  Each is the whole client_* function under   *)
(* CLIENT_INVITE_OP_SEM, total: a request the code refuses leaves the      *)
(* state as it was (the caller sends NACK).                                *)

Refused == UNCHANGED <<invs, inv, results>>

\* inv_create + client_add_invitation (source, then target) + INVITED to
\* the target, whose payload is player_get_name(source->player)
client_make_invitation(c, t, sourceRole, targetRole) ==
  LET i == nextInv IN
  /\ inv' = [inv EXCEPT ![i] = [state |-> "open", source |-> c, target |-> t,
                                sourceRole |-> sourceRole,
                                targetRole |-> targetRole, game |-> NoGame]]
  /\ invs' = Add(Add(invs, c, i), t, i)
  /\ nextInv' = nextInv + 1
  /\ crash' = IF player[c] = NoName THEN "null_player" ELSE crash
  /\ UNCHANGED results

\* inv_accept: refused unless the invitation is OPEN; it becomes ACCEPTED
\* and game_create gives it a game
inv_accept_ok(x) == x.state = "open"

inv_accept(x) == [x EXCEPT !.state = "accepted", !.game = NewGame]

\* inv_close(inv, role): refused unless OPEN or ACCEPTED; an ACCEPTED one
\* needs its game and a role, and the game is resigned by that role; an
\* OPEN one needs NULL_ROLE and no game.  Either way it becomes CLOSED.
inv_close_ok(x, role) ==
  \/ x.state = "accepted" /\ x.game.on /\ role # NULL_ROLE
  \/ x.state = "open" /\ ~x.game.on /\ role = NULL_ROLE

inv_close(x, role) ==
  [x EXCEPT !.state = "closed",
            !.game = IF x.state = "accepted" THEN game_resign(@, role) ELSE @]

\* client_revoke_invitation: no check that the caller is the source.
\* inv_close(inv, NULL_ROLE) only closes an OPEN invitation; when REVOKED
\* cannot be written to the target the lists are left as they are.
client_revoke_invitation(c, id) ==
  LET i == InvOf(c, id)
      t == inv[i].target
  IN \/ /\ i # NoInv /\ inv_close_ok(inv[i], NULL_ROLE)
        /\ inv' = [inv EXCEPT ![i] = inv_close(@, NULL_ROLE)]
        /\ invs' = IF Delivered(t) THEN Drop(Drop(invs, c, i), t, i) ELSE invs
        /\ UNCHANGED results
     \/ /\ ~(i # NoInv /\ inv_close_ok(inv[i], NULL_ROLE))
        /\ Refused

\* client_decline_invitation: no check that the caller is the target; the
\* DECLINED write and both removals ignore failure.
client_decline_invitation(c, id) ==
  LET i == InvOf(c, id)
      s == inv[i].source
  IN \/ /\ i # NoInv /\ inv_close_ok(inv[i], NULL_ROLE)
        /\ inv' = [inv EXCEPT ![i] = inv_close(@, NULL_ROLE)]
        /\ invs' = Drop(Drop(invs, c, i), s, i)
        /\ UNCHANGED results
     \/ /\ ~(i # NoInv /\ inv_close_ok(inv[i], NULL_ROLE))
        /\ Refused

\* client_accept_invitation: target only; inv_accept creates the game.  A
\* failed ACCEPTED write returns -1 with the invitation already accepted.
client_accept_invitation(c, id) ==
  LET i == InvOf(c, id) IN
  \/ /\ i # NoInv /\ inv[i].target = c /\ inv_accept_ok(inv[i])
     /\ inv' = [inv EXCEPT ![i] = inv_accept(@)]
     /\ UNCHANGED <<invs, results>>
  \/ /\ ~(i # NoInv /\ inv[i].target = c /\ inv_accept_ok(inv[i]))
     /\ Refused

\* (mutant) the opponent's list keeps the game
client_resign_game_one(c, id) ==
  LET i == InvOf(c, id)
      role == RoleOf(i, c)
      opp == OpponentOf(i, c)
  IN \/ /\ i # NoInv /\ c \in {inv[i].source, inv[i].target}
        /\ inv_close_ok(inv[i], role)
        /\ inv' = [inv EXCEPT ![i] = inv_close(@, role)]
        /\ IF Delivered(opp) /\ player[c] # NoName /\ player[opp] # NoName
           THEN /\ results' = Post(i, c, opp, role, Opposite(role))
                /\ invs' = Drop(invs, c, i)
           ELSE UNCHANGED <<invs, results>>
     \/ /\ ~(i # NoInv /\ c \in {inv[i].source, inv[i].target}
             /\ inv_close_ok(inv[i], role))
        /\ Refused

\* (mutant) the resigning player's own role is posted as the result
client_resign_game_self(c, id) ==
  LET i == InvOf(c, id)
      role == RoleOf(i, c)
      opp == OpponentOf(i, c)
  IN \/ /\ i # NoInv /\ c \in {inv[i].source, inv[i].target}
        /\ inv_close_ok(inv[i], role)
        /\ inv' = [inv EXCEPT ![i] = inv_close(@, role)]
        /\ IF Delivered(opp) /\ player[c] # NoName /\ player[opp] # NoName
           THEN /\ results' = Post(i, c, opp, role, role)
                /\ invs' = Drop(Drop(invs, c, i), opp, i)
           ELSE UNCHANGED <<invs, results>>
     \/ /\ ~(i # NoInv /\ c \in {inv[i].source, inv[i].target}
             /\ inv_close_ok(inv[i], role))
        /\ Refused

\* client_resign_game: inv_close(inv, role) resigns the game and closes the
\* invitation; then RESIGNED to the opponent, post_player_results with
\* result = the opponent's role, and removal from both lists.  A failed
\* write or a missing player returns early, leaving the lists alone.
client_resign_game(c, id) ==
  LET i == InvOf(c, id)
      role == RoleOf(i, c)
      opp == OpponentOf(i, c)
  IN \/ /\ i # NoInv /\ c \in {inv[i].source, inv[i].target}
        /\ inv_close_ok(inv[i], role)
        /\ inv' = [inv EXCEPT ![i] = inv_close(@, role)]
        /\ IF Delivered(opp) /\ player[c] # NoName /\ player[opp] # NoName
           THEN /\ results' = Post(i, c, opp, role, Opposite(role))
                /\ invs' = Drop(Drop(invs, c, i), opp, i)
           ELSE UNCHANGED <<invs, results>>
     \/ /\ ~(i # NoInv /\ c \in {inv[i].source, inv[i].target}
             /\ inv_close_ok(inv[i], role))
        /\ Refused

\* client_make_move: game_parse_move + game_apply_move (the role must be
\* the one to move; a terminated game is not refused), MOVED to the
\* opponent; if game_is_over, ENDED to both, post_player_results with
\* result = winner, and removal from both lists.  The invitation is never
\* closed.  A failed MOVED write returns -1 after the move is applied.
client_make_move(c, id) ==
  LET i == InvOf(c, id)
      g == inv[i].game
      role == RoleOf(i, c)
      opp == OpponentOf(i, c)
  IN \/ /\ i # NoInv /\ g.on /\ c \in {inv[i].source, inv[i].target}
        /\ g.toMove = role /\ g.marks < 9
        /\ \E o \in Outcomes(g, role) :
             LET g2 == ApplyMove(g, role, o) IN
             /\ inv' = [inv EXCEPT ![i].game = g2]
             /\ IF Delivered(opp) /\ g2.over
                THEN /\ results' = Post(i, c, opp, role, g2.winner)
                     /\ invs' = Drop(Drop(invs, c, i), opp, i)
                ELSE UNCHANGED <<invs, results>>
     \/ /\ ~(i # NoInv /\ g.on /\ c \in {inv[i].source, inv[i].target}
             /\ g.toMove = role /\ g.marks < 9)
        /\ Refused

-----------------------------------------------------------------------------
(* Requests handled by the service loop in server.c *)

OnlyInvites == UNCHANGED <<conn, player, loggedIn, gate, nextInv, pending, lo,
                           logoutSem, crash>>

\* process_invite, first half: creg_lookup finds a registered client whose
\* player has the name (a logged-out client keeps its player pointer), and
\* its reference is dropped at once with client_unref.  The bound keeps the
\* number of INVITATION objects within MaxInv.
InviteLookup(c, n, role) ==
  /\ Serving(c)
  /\ nextInv + Cardinality({d \in Client : pending[d] # NoPending}) <= MaxInv
  /\ \E t \in Client :
       /\ Registered(t) /\ player[t] = n
       /\ t # c
       /\ pending' = [pending EXCEPT ![c] = [to |-> t, role |-> role]]
  /\ UNCHANGED <<conn, player, loggedIn, gate, invs, inv, nextInv, lo,
                 logoutSem, results, crash>>

\* (mutant) the looked-up invitee is kept, so the invitation is made again
InviteMake_again(c) ==
  LET t == pending[c].to
      r == pending[c].role
  IN /\ Alive
     /\ pending[c] # NoPending
     /\ \/ /\ Freed(t)
           /\ crash' = "client_uaf"
           /\ UNCHANGED <<invs, inv, nextInv, results>>
        \/ /\ ~Freed(t)
           /\ client_make_invitation(c, t, Opposite(r), r)
     /\ UNCHANGED <<conn, player, loggedIn, gate, lo, logoutSem, pending>>

\* process_invite, second half: client_make_invitation with the looked-up
\* CLIENT, which may have been freed in between.
InviteMake(c) ==
  LET t == pending[c].to
      r == pending[c].role
  IN /\ Alive
     /\ pending[c] # NoPending
     /\ pending' = [pending EXCEPT ![c] = NoPending]
     /\ \/ /\ Freed(t)
           /\ crash' = "client_uaf"
           /\ UNCHANGED <<invs, inv, nextInv, results>>
        \/ /\ ~Freed(t)
           /\ client_make_invitation(c, t, Opposite(r), r)
     /\ UNCHANGED <<conn, player, loggedIn, gate, lo, logoutSem>>

Revoke(c, id) == Serving(c) /\ id \in Requestable(c, "source")
                 /\ client_revoke_invitation(c, id) /\ OnlyInvites
Decline(c, id) == Serving(c) /\ id \in Requestable(c, "target")
                  /\ client_decline_invitation(c, id) /\ OnlyInvites
Accept(c, id) == Serving(c) /\ id \in Requestable(c, "target")
                 /\ client_accept_invitation(c, id) /\ OnlyInvites
Resign(c, id) == Serving(c) /\ id \in Requestable(c, "any")
                 /\ client_resign_game(c, id) /\ OnlyInvites
Move(c, id) == Serving(c) /\ id \in Requestable(c, "any")
               /\ client_make_move(c, id) /\ OnlyInvites

-----------------------------------------------------------------------------
(* End of a session: EOF, client_logout, creg_unregister *)

\* proto_recv_packet returns -1 (EOF, or the socket was shut down)
Disconnect(c) ==
  /\ Alive
  /\ conn[c] = "open"
  /\ pending[c] = NoPending
  /\ conn' = [conn EXCEPT ![c] = "eof"]
  /\ UNCHANGED <<player, loggedIn, gate, invs, inv, nextInv, pending, lo,
                 logoutSem, results, crash>>

\* client_logout: a client that is not logged in returns at once; otherwise
\* it takes CLIENT_LOGOUT_SEM and reads the list head.
LogoutBegin(c) ==
  /\ Alive
  /\ conn[c] = "eof"
  /\ \/ /\ ~loggedIn[c]
        /\ conn' = [conn EXCEPT ![c] = "loggedOut"]
        /\ UNCHANGED <<lo, logoutSem>>
     \/ /\ loggedIn[c]
        /\ logoutSem = NoClient
        /\ logoutSem' = c
        /\ conn' = [conn EXCEPT ![c] = "loggingOut"]
        /\ lo' = [lo EXCEPT ![c] = [IdleCursor EXCEPT
                   !.cur = IF invs[c] = <<>> THEN NoNode ELSE Head(invs[c])]]
  /\ UNCHANGED <<player, loggedIn, gate, invs, inv, nextInv, pending,
                 results, crash>>

\* the node after n in c's list, or NoNode
Successor(c, n) ==
  LET k == CHOOSE j \in 1 .. Len(invs[c]) : invs[c][j] = n
  IN IF k = Len(invs[c]) THEN NoNode ELSE invs[c][k + 1]

\* One turn of client_logout's loop, outside CLIENT_INVITE_OP_SEM: read
\* the node's invitation, its game and its successor, and choose resign,
\* revoke or decline.  The node may already have been removed and freed by
\* the opponent's thread; reading it is a use after free, taken here as
\* the crash it leads to (the freed node's next field is overwritten).
LogoutRead(c) ==
  LET n == lo[c].cur
      i == n.inv
  IN /\ Alive
     /\ conn[c] = "loggingOut"
     /\ lo[c].pc = "read"
     /\ n # NoNode
     /\ \/ /\ n \notin ToSet(invs[c])
           /\ crash' = "node_uaf"
           /\ UNCHANGED lo
        \/ /\ n \in ToSet(invs[c])
           /\ lo' = [lo EXCEPT ![c] = [pc |-> "op", cur |-> n,
                      op |-> IF inv[i].game.on THEN "resign"
                             ELSE IF inv[i].source = c THEN "revoke"
                             ELSE "decline",
                      next |-> Successor(c, n)]]
           /\ UNCHANGED crash
  /\ UNCHANGED <<conn, player, loggedIn, gate, invs, inv, nextInv, pending,
                 logoutSem, results>>

\* The call chosen by LogoutRead, made with the node's id, which by now may
\* name another invitation or none.
LogoutOp(c) ==
  LET id == lo[c].cur.id IN
  /\ Alive
  /\ conn[c] = "loggingOut"
  /\ lo[c].pc = "op"
  /\ CASE lo[c].op = "resign"  -> client_resign_game(c, id)
       [] lo[c].op = "revoke"  -> client_revoke_invitation(c, id)
       [] lo[c].op = "decline" -> client_decline_invitation(c, id)
  /\ lo' = [lo EXCEPT ![c] = [IdleCursor EXCEPT !.cur = lo[c].next]]
  /\ UNCHANGED <<conn, player, loggedIn, gate, nextInv, pending, logoutSem,
                 crash>>

\* (mutant) CLIENT_LOGOUT_SEM is not posted at the end of the walk
LogoutEnd_keep(c) ==
  /\ Alive
  /\ conn[c] = "loggingOut"
  /\ lo[c].pc = "read"
  /\ lo[c].cur = NoNode
  /\ loggedIn' = [loggedIn EXCEPT ![c] = FALSE]
  /\ conn' = [conn EXCEPT ![c] = "loggedOut"]
  /\ UNCHANGED <<player, gate, invs, inv, nextInv, pending, lo, results, crash,
                 logoutSem>>

\* End of the list: player_unref, CLIENT_LOGGED_OUT, release the semaphore.
\* client->player is not cleared.
LogoutEnd(c) ==
  /\ Alive
  /\ conn[c] = "loggingOut"
  /\ lo[c].pc = "read"
  /\ lo[c].cur = NoNode
  /\ loggedIn' = [loggedIn EXCEPT ![c] = FALSE]
  /\ logoutSem' = NoClient
  /\ conn' = [conn EXCEPT ![c] = "loggedOut"]
  /\ UNCHANGED <<player, gate, invs, inv, nextInv, pending, lo, results, crash>>

\* creg_unregister: the client leaves the registry (its client_logout is a
\* no-op now) and client_unref decrements ref_count under client->lock.
\* The phase records whether another reference was left.
Unregister(c) ==
  /\ Alive
  /\ conn[c] = "loggedOut"
  /\ conn' = [conn EXCEPT ![c] = IF Named(c) THEN "unrefShared" ELSE "unrefLast"]
  /\ UNCHANGED <<player, loggedIn, gate, invs, inv, nextInv, pending, lo,
                 logoutSem, results, crash>>

\* client_unref, after the unlock: ref_count is read again and the CLIENT
\* freed when it is 0; then Close(connfd).  If an invitation held the
\* last other reference and its client_unref has run in between, the
\* CLIENT is already freed and this read (and the free that follows it
\* when the stale count reads 0) is a use after free.
client_unref_read(c) ==
  /\ Alive
  /\ conn[c] \in {"unrefLast", "unrefShared"}
  /\ conn' = [conn EXCEPT ![c] = "closed"]
  /\ crash' = IF conn[c] = "unrefShared" /\ ~Named(c) THEN "unref_uaf" ELSE crash
  /\ UNCHANGED <<player, loggedIn, gate, invs, inv, nextInv, pending, lo,
                 logoutSem, results>>

\* The run is over: every connection is closed, or the process crashed.
Halted ==
  /\ ~Alive \/ \A c \in Client : conn[c] = "closed"
  /\ UNCHANGED vars

-----------------------------------------------------------------------------
Environment ==
  \E c \in Client :
    \/ Connect(c)
    \/ LoginRejected(c)
    \/ \E n \in Name : Login(c, n)
    \/ \E n \in Name, r \in Roles : InviteLookup(c, n, r)
    \/ \E id \in IdRange :
         Revoke(c, id) \/ Decline(c, id) \/ Accept(c, id)
         \/ Resign(c, id) \/ Move(c, id)
    \/ Disconnect(c)

Server(c) ==
  \/ InviteMake(c)
  \/ LogoutBegin(c)
  \/ LogoutRead(c)
  \/ LogoutOp(c)
  \/ LogoutEnd(c)
  \/ Unregister(c)
  \/ client_unref_read(c)

Next == Environment \/ (\E c \in Client : Server(c)) \/ Halted

\* The service threads are scheduled fairly; what clients send, and when
\* they disconnect, is up to them.
Fairness == \A c \in Client : WF_vars(Server(c))

Spec == Init /\ [][Next]_vars /\ Fairness

-----------------------------------------------------------------------------
TypeOK ==
  /\ conn \in [Client -> Phases]
  /\ player \in [Client -> Name \cup {NoName}]
  /\ loggedIn \in [Client -> BOOLEAN]
  /\ gate \in [Client -> BOOLEAN]
  /\ invs \in [Client -> Seq(Node)]
  /\ inv \in [InvSlot -> Invitation]
  /\ nextInv \in 1 .. MaxInv + 1
  /\ pending \in [Client -> [to : Client \cup {NoClient}, role : {0, 1, 2}]]
  /\ lo \in [Client -> Cursor]
  /\ logoutSem \in Client \cup {NoClient}
  /\ crash \in {"none", "null_player", "client_uaf", "node_uaf", "unref_uaf"}

InList(c, i) == \E n \in ToSet(invs[c]) : n.inv = i

\* An invitation whose game was created (client_accept_invitation) is in
\* both players' lists or in neither: resign, the final move and logout
\* never take a game away from one player and leave it with the other.
GameShared ==
  \A i \in InvSlot :
    inv[i].game.on => (InList(inv[i].source, i) <=> InList(inv[i].target, i))

\* post_player_results is called at most once per game, only for a game
\* that is over, with the game's outcome as the result, the FIRST player's
\* name first: a rating is never updated twice or against the result, by
\* the final move, a resignation or a logout.
ResultsMatchGames ==
  \A k \in 1 .. Len(results) :
    LET r == results[k]
        g == inv[r.inv].game
        p(role) == player[IF inv[r.inv].sourceRole = role
                          THEN inv[r.inv].source ELSE inv[r.inv].target]
    IN /\ g.over
       /\ r.result = g.winner
       /\ r.first = p(FIRST_PLAYER_ROLE) /\ r.second = p(SECOND_PLAYER_ROLE)
       /\ \A j \in 1 .. Len(results) : j # k => results[j].inv # r.inv

\* A session whose connection ended is eventually unregistered and closed:
\* client_logout's walk over the list ends and CLIENT_LOGOUT_SEM is always
\* released, so no disconnecting session waits forever on another.
LogoutCompletes ==
  \A c \in Client : conn[c] = "eof" ~> (conn[c] = "closed" \/ ~Alive)

\* Spec 8.1: every invitation in a client's list is in the lists of both
\* its source and its target.
ListsSymmetric ==
  \A c \in Client : \A n \in ToSet(invs[c]) :
    InList(inv[n.inv].source, n.inv) /\ InList(inv[n.inv].target, n.inv)

\* client_logout resigns every game in progress it finds in the list: once
\* its logout is over, a session is not left in a game that is still on.
LogoutEndsGames ==
  \A c \in Client : conn[c] \in {"loggedOut", "closed"} =>
    \A n \in ToSet(invs[c]) : ~(inv[n.inv].game.on /\ ~inv[n.inv].game.over)

\* No service thread uses memory another has freed: client_logout never
\* reads a list node the opponent's decline, revoke, resign or final move
\* removed and freed, process_invite never hands client_make_invitation
\* an invitee CLIENT that was freed after its lookup, and client_unref
\* never re-reads the count of a CLIENT an invitation's last client_unref
\* freed between its decrement and its read.
NoUseAfterFree == crash \notin {"node_uaf", "client_uaf", "unref_uaf"}

\* INVITED is never built from a source that has no player (a NULL
\* dereference in client_make_invitation).
NoNullPlayerInvite == crash # "null_player"

=============================================================================
