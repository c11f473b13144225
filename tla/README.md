# TLA+ models of the Jeux game server

This directory holds TLA+ specifications of the Jeux server (`src/src/*.c`).
It also holds the TLC configurations that check them. `PROJECT.json` lists
the following:

- the components
- the runs and the result each run is expected to give
- the mutants that show each checked property can fail
- the source lines every definition models
- the findings and the hazards

## The system

- **Main thread** (`main.c`): accepts connections and starts one service
  thread per connection. On SIGHUP (a flag set by `sighup_handler`),
  `terminate()` calls `creg_shutdown_all`, then `creg_wait_for_empty`,
  then exits.
- **Client registry** (`client_registry.c`): an array of CLIENTs under one
  mutex. It has two semaphores. `login_queue` starts at MAX_CLIENTS and
  admits registrations. `sem` is posted when the registry becomes empty,
  and `creg_wait_for_empty` waits on it. Lookups (`creg_lookup`,
  `creg_all_players`) take the mutex.
- **Service thread** (`server.c`, `jeux_client_service`): registers, then
  reads packets until EOF. It dispatches LOGIN, INVITE, REVOKE, DECLINE,
  ACCEPT, MOVE and RESIGN to the `process_*` handlers. It then calls
  `client_logout` and `creg_unregister` and closes the socket. Every request
  other than LOGIN is gated on the value the last `process_login` returned.
- **Clients** (`client.c`): every invitation operation
  (`client_make/revoke/decline/accept_invitation`, `client_make_move`,
  `client_resign_game`) runs under one global semaphore,
  CLIENT_INVITE_OP_SEM. Each client keeps a linked list of invitations with
  per-client ids taken from `get_available_id`. `client_logout` walks that
  list holding only CLIENT_LOGOUT_SEM, and calls the operations one by one.
  That walk races with the opponent's thread.
- **Invitations and games** (`invitation.c`, `game.c`): an invitation is
  OPEN, then ACCEPTED (with a GAME), then CLOSED. A game is a 3x3 board;
  `game_is_over` scans rows, then columns, then the two diagonals.
- **Ratings** (`player.c`): `player_post_result` applies the Elo update
  under CLIENT_UPDATE_ELO, called from `post_player_results`.
- **Players** (`player_registry.c`, `player.c`): `preg_register` returns
  the one PLAYER of a user name, creating it on first use; entries stay for
  the server's life. A PLAYER is reference-counted: the registry holds one
  reference, every logged-in CLIENT one, and `process_login` and
  `process_users` hold references for the duration of the request.
  `client_login` runs under CLIENT_LOGIN_SEM.
- **Global semaphores** (`client.c`): the ten semaphores of `client.c`
  are initialised in `client_create` when `is_sem_init` is 0, and nothing
  sets it. So every registration re-initialises all of them to 1, even
  while other threads hold them.

## Modules

| Module | Models | State | Actions |
|---|---|---|---|
| `JeuxSessions` | `client.c`, `server.c` handlers, `invitation.c`, the registry lookups | `conn` (service-thread phase), `player`, `loggedIn`, `gate` (the login gate), `invs` (each client's list, head first), `inv` (INVITATION objects), `pending` (invitee found by `creg_lookup`), `lo` (the `client_logout` cursor), `logoutSem`, `results` (calls to `player_post_result`), `crash` | Connect, Login / LoginRejected, InviteLookup then InviteMake (the two halves of `process_invite`), Revoke/Decline/Accept/Resign/Move (the whole `client_*` function each), Disconnect, LogoutBegin / LogoutRead / LogoutOp / LogoutEnd (one step per read or call of the logout loop), Unregister (`creg_unregister` up to `client_unref`'s decrement), `client_unref_read` (its unlocked re-read) |
| `GameRules` | the game abstraction: turn, number of marks, outcome | constants only | `game_resign`, `Outcomes`, `ApplyMove` |
| `GameAbstract` | what a GAME promises | `game` | Move, Resign |
| `JeuxGame` | `game.c` on the real board, and the move strings | `rows`, `current_player`, `is_over`, `winner` | `MakeMove` (`client_make_move`: `game_parse_move`, then `game_apply_move` with `game_is_over`, whose scan is the RECURSIVE `FirstFilled` over `ScanOrder`), `game_resign_board`; operators `atoi`, `game_unparse_move`, `game_unparse_state` |
| `ServerLifecycle` | `client_registry.c` with `main.c`, the start and end of each service thread, and its LOGIN and USERS requests, composed with `PlayerRegistry` | thread phases, `clients`, `length`, `no`, `loginQueue`, `sem`, `shut`, `sighup`, `main`; `player`, `loggedIn`, `lg` (progress through `process_login`), `loginSem` (CLIENT_LOGIN_SEM), `gate`, `users` (the array `process_users` holds) | `main_accept`, `sighup_handler`, `main_check_signal`, `creg_shutdown_all`, `creg_wait_for_empty` (unlocked length read) and its wake-up, `terminate_exit` (with `preg_fini`), `creg_register_check` (the unlocked checks) and `creg_register_add` (with `client_create`'s re-initialisation of CLIENT_LOGIN_SEM), `client_hangup`, `recv_shutdown`, `process_login` / `process_login_nack`, `preg_register_ref` (the reference taken after unlocking), `client_login_wait` / `client_login_check` / `client_login_set`, `login_unref`, `process_users` / `process_users_send`, `client_logout`, `creg_unregister` |
| `PlayerRegistry` | `player_registry.c` and PLAYER reference counts (`player.c`) | `preg` (names in the list), `refs` (`ref_count` per PLAYER) | `preg_register_locked`, `player_ref`, `player_unref`, their loops over an array (`player_ref_each`, `player_unref_each`), `preg_fini` |
| `EloRating` | `player_post_result` | `rating`, `posts` | `player_post_result` |

`MCJeuxSessions`, `MCServerLifecycle` and `MCEloRating` define the model
values and the symmetry sets.

### Granularity

Each critical section is one step:

- a `client_*` body under CLIENT_INVITE_OP_SEM
- a registry section under `cr->mutex`

Every read the code makes outside a lock is its own step:

- `creg_register`'s `length` and `no` checks
- `creg_wait_for_empty`'s length check
- `process_invite`'s lookup followed by `client_unref`
- each node read of `client_logout`
- `preg_register`'s `player_ref`, taken after `preg->mutex` is released
  (`preg_register_ref`)
- `client_login`'s `sem_wait` on CLIENT_LOGIN_SEM (`client_login_wait`),
  its search of `creg_all_players` (`client_login_check`) and its setting
  of `client->player` (`client_login_set`). The semaphore is meant to make
  the last two one section, but it does not exclude anything once
  `client_create` re-initialises it. The search is one step: the array is
  taken under `cr->mutex`, and its references are dropped again in the
  same loop.

`JeuxSessions` takes every semaphore section as exclusive, as the code
means it to be. The re-initialisation breaks that for every section, but
it is modelled only for CLIENT_LOGIN_SEM, in `ServerLifecycle`. There it
gives the duplicate login of `lifecycle_login_dup`. Modelling it for
CLIENT_INVITE_OP_SEM and CLIENT_LOGOUT_SEM would split every `client_*`
body into its reads and writes, and the state space would grow past TLC's
reach.

`inv_accept` and `inv_close` (`invitation.c`) are operators of
`JeuxSessions` (`inv_accept_ok`/`inv_accept`, `inv_close_ok`/`inv_close`)
used by the `client_*` actions that call them, so their refusals are the
code's: `client_resign_game` on an OPEN invitation is refused because its
role is not NULL_ROLE.

A failed write (`client_send_packet` to a peer whose socket is closed) is
modelled as `Delivered(c)` being false. The early returns it causes in the
code are kept.

### Abstractions

- **Game board in the session model.** `JeuxSessions` abstracts the board to
  `GameRules.Game`: whose turn it is, the number of marks, over, and winner.
  `JeuxGame` checks that the real board refines this abstraction
  (`Abstract == INSTANCE GameAbstract WITH game <- AbsGame`, property
  `AbstractSpec`). So the abstraction does not hide any outcome the code
  can reach.
- **Reference counts.** A CLIENT's count is 1 (the registry) plus the
  live invitations that name it (`Named(c)`; `inv_unref` releases both
  clients when an invitation dies). `creg_unregister`'s `client_unref`
  is two steps: the decrement under the lock (`Unregister`, phase
  `unrefLast` or `unrefShared`), then the unlocked re-read of `ref_count`
  (`client_unref_read`). If the opponent's last `inv_unref` lands between
  them, the re-read touches freed memory (`crash = "unref_uaf"`). `Freed(c)`
  holds once the registry's reference is dropped and no invitation names
  it. A use after free is recorded in `crash`, and the process is taken to
  stop there.
- **Stale player.** `client_logout` leaves `client->player` set, so the
  registry's `creg_lookup` and `creg_all_players` (which `process_login`
  uses for the duplicate check) still see a logged-out session until it
  unregisters. The model keeps this: it is what lets an invitation reach a
  session that is already logging out, the first half of the unref race.
- **Strings.** Move strings and the board diagram are sequences of
  one-character strings. `atoi` is modelled on the inputs enumerated
  (`MoveStrings`: every single character, the four-character forms with
  X, O and another letter, and a few malformed ones), which hold no white
  space.
- **Player registry.** `preg_register` maps one name to one PLAYER and
  never removes it, so a PLAYER is identified with its name, and its
  `ref_count` is `refs[name]` (0 before `player_create` and once freed).
  In `ServerLifecycle` a session's invitation list is left out (it is
  `JeuxSessions`' subject), so `client_logout` is its PLAYER release only.
- **Elo expected score.** The expected score E1 = 1/(1+10^((R2-R1)/400))
  is a double. It is replaced by the multiples of 1/128 that lie within
  one step of E1's exact value. For 0 < R1-R2 <= 400, E1 lies between
  the chord (10/11 at 400) and the tangent at 0 (slope ln10/1600), and
  `ExpectedAbove` uses these as the window. A difference in the other
  direction mirrors it (E2 = 1 - E1), and equal ratings give 1/2 exactly.
  `MaxPosts` is bounded so that ratings never drift more than 400 apart.
  `(int)` is monotone, so the floor and ceiling 128ths on either side of
  the exact value cover the code's truncation. A draw from 1484/1516
  gives 1485/1514, as the code computes.

## Runs

| Run | Config | Expect | What it shows |
|---|---|---|---|
| sessions_safety | `JeuxSessions_pass.cfg` | pass | Two adversarial clients (any request, any id), at most 2 invitations. Two things hold: a game is in both players' lists or in neither (`GameShared`), and each rating update is for a finished game, with its result, once (`ResultsMatchGames`). |
| sessions_logout_live | `JeuxSessions_live.cfg` | pass | Every session that sees EOF is eventually closed (`LogoutCompletes`). |
| sessions_symmetry | `JeuxSessions_symmetry.cfg` | violation | `ListsSymmetric`: a stale logout id, reused for a new invitation, is revoked by the wrong party. |
| sessions_logout_stale | `JeuxSessions_logout_stale.cfg` | violation | `LogoutEndsGames`: logout reads "no game", the peer accepts, the revoke fails, and the game stays on. |
| sessions_uaf | `JeuxSessions_uaf.cfg` | violation | `NoUseAfterFree`: `process_invite` uses the invitee after dropping its reference. The same property also catches `client_unref`'s re-read racing the opponent's last `inv_unref`. |
| sessions_null_player | `JeuxSessions_null_player.cfg` | violation | `NoNullPlayerInvite`: a rejected LOGIN opens the gate, and INVITE dereferences the NULL player. |
| lifecycle_safety | `ServerLifecycle_pass.cfg` | pass | Three connections with MAX_CLIENTS = 2 and one user name. The unlocked length check is passed by too many threads, but `login_queue` keeps `length <= MAX_CLIENTS` (`LengthBounded`). Every PLAYER's `ref_count` equals the references held to it, through `preg_register`'s unlocked `player_ref`, `client_login`, `process_login`'s release, `process_users`' array and `client_logout`, so none leaks or is freed while a stale `client->player` can reach it (`PlayerRefsExact`). CLIENT_LOGIN_SEM is never lost: a unit of it is free or held by a thread inside `client_login`, so its early return without `sem_post` is never reached and LOGIN never blocks for ever (`LoginSemNotLost`). Every session registered when `creg_shutdown_all` runs eventually leaves the registry, unless main has exited (`ShutdownDrains`, spec 8.10). No symmetry, because of the liveness property. |
| lifecycle_wait | `ServerLifecycle_wait.cfg` | violation | `WaitReturnsWhenEmpty`: a stale `sem` post lets `terminate()` proceed with clients registered. |
| lifecycle_login_dup | `ServerLifecycle_login.cfg` | violation | `UniqueLogin` (spec section 8, invariant 3): session 1 is between `client_login`'s search and its set when session 2 registers. `client_create` re-initialises CLIENT_LOGIN_SEM, session 2's LOGIN of the same name enters and finds it free too, and both log in. |
| lifecycle_shutdown | `ServerLifecycle_shutdown.cfg` | violation | `TerminationCompletes`: a registration that passed the `no` check before `creg_shutdown_all` leaves a session that is never shut down, and `terminate()` hangs. |
| game_refines | `JeuxGame_pass.cfg` | pass | `game_is_over` agrees with the definition of a result (`OverMatchesBoard`). Every square's `game_unparse_move` string is parsed back by `game_parse_move` to that square for either role (`ParseRoundTrip`). `game_unparse_state` renders every reachable board as the spec's diagram: three rows of cells and bars, two floors, and the player to move (`RenderShowsBoard`). The board-level game, driven by move strings, implements `GameAbstract` (`AbstractSpec`). |
| elo_total | `EloRating_total.cfg` | violation | `RatingTotalPreserved`: separate truncation of both ratings loses a point, whereas spec 4.3 preserves the total. |

Each violation is written up as a finding in `PROJECT.json`. Each property
of a passing run has a mutant: a plausible bug in the mapped definition that
the run detects.

### Bounds

- **Sessions.** Two clients and two names suffice. Every race here is
  between a session and its one opponent. A third client only adds
  independent copies.
- **Invitations.** `MaxInv = 2` lets one id be freed and reused for a second
  invitation. That is what the stale-id and logout races need. The
  liveness run uses `MaxInv = 1` to keep the fair-cycle search small.
- **Registry.** Three connections against `MAX_CLIENTS = 2` make the
  capacity race possible: two threads pass the length check with one slot
  left. The pass run has one user name. Every reference count is kept per
  name, and the actions on one name do not depend on another's, so one
  name still covers these cases:
  - the refusal;
  - a second `preg_register` of an existing PLAYER;
  - `process_users` arrays;
  - the duplicate login that the semaphore re-initialisation allows.
  A second name took the run past 3 minutes. The violation runs use two
  names.
- **Elo.** Three results among three players reach unequal ratings, and a
  draw between unequal ratings, which gives a negative fraction.
- **Game.** The game model is unbounded: the board is finite.

### Fairness

- **Service and main threads.** Weak fairness holds for the service-thread
  steps (`Server(c)` / `Service(c)`) and the main thread's steps. A
  runnable thread blocked only on the scheduler eventually runs.
- **Outside events.** What clients send, when they hang up, and when SIGHUP
  arrives are not fair. The code cannot make them happen.
- **Deadlock checking.** `CHECK_DEADLOCK FALSE` appears only where the
  system really stops:
  - a finished game
  - the bound on posted results
  - the liveness run, whose deadlock freedom the safety run already checks

## Not modelled

- `protocol.c` (byte I/O; a packet arrives whole or as EOF)
- the text `process_users` formats (its references are modelled)
- allocation failures (`preg_register`, `creg_all_players` and the
  `calloc`s of the handlers returning NULL)
- option parsing
- The csapp `Accept` wrapper on EINTR. SIGHUP is installed without
  SA_RESTART, and the wrapper is not in the repository, so the model
  assumes Accept returns and the flag is read. The signal may also be
  delivered to a service thread, whose read then fails and ends that
  session.
- The header's one-octet id field (`includeme.c`): the 257th outstanding
  invitation of a session would be announced with another's id; the
  instances are far smaller.
- Lock order in `player_post_result`: it locks `player1->mutex`, then
  `player2->mutex`, with player1 the FIRST player. Take two games between
  the same users, with the roles swapped, that end at the same time.
  Their posts lock the two mutexes in opposite orders. CLIENT_UPDATE_ELO
  is meant to keep the posts apart, and re-initialising it on a
  registration lets two posts in at once. `EloRating` posts one result
  per step, so this deadlock is listed as a hazard and not modelled.
- SIGPIPE: nothing in `src/` ignores it, so a write to a peer that has
  reset its connection (`proto_send_packet` from any sender thread) ends
  the whole server process. The model has no process-wide crash; a write
  is taken to fail and only its own session to end.
- Blocking writes: `client_send_packet` writes holding the receiver's
  lock, usually under CLIENT_INVITE_OP_SEM, so a client that stops reading
  stalls every invitation operation. A write is taken to complete or fail
  at once.

### Divergences with no run

Every run slot is in use, so these are described here rather than stated
as violation runs. The models keep the code's behaviour in both cases.

- `game_apply_move` checks the turn and the square but not `is_over`.
  Spec 4.2 says a terminated game refuses moves, but a move after a win,
  or on a drawn board's turn, is applied and can change the winner.
  `JeuxGame`'s `game_apply_move` keeps the missing check. An earlier
  violation run, `game_final`, stated the rule as
  `[][is_over => UNCHANGED <<rows, winner>>]_vars`. Its slot went to
  `lifecycle_login_dup`.
- `game_parse_move` rejects a four-character move naming X or O when that
role is not to move, but accepts any other letter: `"5<-Z"` is the move
5 for whoever sends it. Spec 4.2 says the letter must be X or O.
`MoveStrings` includes the Z forms.

## Plan for later sittings

1. **A composed model.** Registry admission plus sessions, so that
   `creg_unregister`'s `client_logout` and shutdown run against live
   sessions with invitations. The registry and the LOGIN/USERS path are
   composed already (`ServerLifecycle` with `PlayerRegistry`); the
   invitation lists are not.
2. **`EloRating`.** Add a pass run that bounds the distance from spec 4.3
   (within a point of the rounded update), merging it into an existing
   run if no slot is free.
3. **Invitation reference counts.** `inv_ref`/`inv_unref` are abstracted
   to whether an invitation is listed; the INVITATION and its GAME are
   freed with the last list entry.
