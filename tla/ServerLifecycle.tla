--------------------------- MODULE ServerLifecycle ---------------------------
(***************************************************************************)
(* The client registry (client_registry.c) together with the threads that *)
(* use it: the main thread's accept loop and terminate() (main.c), and the *)
(* start and end of every service thread (jeux_client_service in          *)
(* server.c: creg_register, the receive loop until EOF, creg_unregister).  *)
(*                                                                         *)
(* Each section the code runs under cr->mutex is one step.  The reads the  *)
(* code makes without the mutex (creg_register's length and `no` checks,   *)
(* creg_wait_for_empty's length check) are steps of their own.  The two    *)
(* semaphores are counters: login_queue (initially MAX_CLIENTS) and sem   *)
(* (initially 0).                                                          *)
(*                                                                         *)
(* Of what a session does between registering and EOF, this module keeps  *)
(* LOGIN and the logout at EOF, composed with the player registry         *)
(* (PlayerRegistry): process_login, preg_register, client_login under     *)
(* CLIENT_LOGIN_SEM, and the PLAYER references they take and drop.  The   *)
(* invitation operations are the subject of JeuxSessions.                 *)
(***************************************************************************)
EXTENDS Naturals, FiniteSets

CONSTANTS
  Conn,         \* connections the listener accepts in a run
  MAX_CLIENTS,  \* capacity of the registry (64 in the code)
  Name,         \* user names sent in LOGIN packets
  NoName        \* client->player = NULL

ASSUME MAX_CLIENTS \in Nat \ {0}

VARIABLES
  thread,     \* phase of each connection's service thread
  clients,    \* cr->clients[0 .. length-1] as a set
  length,     \* cr->length
  no,         \* cr->no: set by creg_shutdown_all
  loginQueue, \* value of cr->login_queue
  sem,        \* value of cr->sem
  shut,       \* connections whose socket was shut down (SHUT_RD)
  sighup,     \* signal_received & HANDLE_SIGHUP
  main,       \* phase of the main thread
  player,     \* client->player of each connection's CLIENT
  loggedIn,   \* client->logged_in = CLIENT_LOGGED_IN
  lg,         \* where the thread is in process_login, and the name
  loginSem,   \* value of CLIENT_LOGIN_SEM (initially 1)
  gate,       \* process_login_packet # 0 in jeux_client_service
  users,      \* names in the array process_users got from creg_all_players
  preg,       \* PlayerRegistry: names in the player registry
  refs        \* PlayerRegistry: PLAYER reference counts

lvars == <<thread, clients, length, no, loginQueue, sem, shut, sighup, main>>
pvars == <<player, loggedIn, lg, loginSem, gate, users, preg, refs>>
vars == <<thread, clients, length, no, loginQueue, sem, shut, sighup, main,
          player, loggedIn, lg, loginSem, gate, users, preg, refs>>

PR == INSTANCE PlayerRegistry

ThreadPhases == {"none", "started", "checked", "serving", "eof", "loggedOut",
                 "refused", "done"}
LoginPc == {"idle", "ref", "client_login", "login_sem", "login_set", "unref"}
LoginIdle == [pc |-> "idle", name |-> NoName]
NoUsers == {}   \* no array held (an empty array holds no reference)
MainPhases == {"accepting", "terminating", "waiting", "blocked", "fini",
               "exited"}

Init ==
  /\ thread = [c \in Conn |-> "none"]
  /\ clients = {}
  /\ length = 0
  /\ no = 0
  /\ loginQueue = MAX_CLIENTS
  /\ sem = 0
  /\ shut = {}
  /\ sighup = FALSE
  /\ main = "accepting"
  /\ player = [c \in Conn |-> NoName]
  /\ loggedIn = [c \in Conn |-> FALSE]
  /\ lg = [c \in Conn |-> LoginIdle]
  /\ loginSem = 1
  /\ gate = [c \in Conn |-> FALSE]
  /\ users = [c \in Conn |-> NoUsers]
  /\ PR!Init

Running == main # "exited"

-----------------------------------------------------------------------------
(* The main thread: main() and terminate() *)

\* Accept returns a connection; the flag is not set, so a service thread is
\* created for it.
main_accept(c) ==
  /\ main = "accepting"
  /\ ~sighup
  /\ thread[c] = "none"
  /\ thread' = [thread EXCEPT ![c] = "started"]
  /\ UNCHANGED <<clients, length, no, loginQueue, sem, shut, sighup, main>>
  /\ UNCHANGED pvars

\* SIGHUP is delivered: sighup_handler sets the flag.
sighup_handler ==
  /\ Running
  /\ ~sighup
  /\ sighup' = TRUE
  /\ UNCHANGED <<thread, clients, length, no, loginQueue, sem, shut, main>>
  /\ UNCHANGED pvars

\* Accept returns and the flag is seen: the loop ends and terminate() runs.
main_check_signal ==
  /\ main = "accepting"
  /\ sighup
  /\ main' = "terminating"
  /\ UNCHANGED <<thread, clients, length, no, loginQueue, sem, shut, sighup>>
  /\ UNCHANGED pvars

\* creg_shutdown_all: under the mutex, no = 1 and SHUT_RD on every
\* registered client's socket.
creg_shutdown_all ==
  /\ main = "terminating"
  /\ no' = 1
  /\ shut' = shut \cup clients
  /\ main' = "waiting"
  /\ UNCHANGED <<thread, clients, length, loginQueue, sem, sighup>>
  /\ UNCHANGED pvars

\* creg_wait_for_empty: reads length without the mutex and, when it is not
\* zero, waits on cr->sem.
creg_wait_for_empty ==
  /\ main = "waiting"
  /\ main' = IF length > 0 THEN "blocked" ELSE "fini"
  /\ UNCHANGED <<thread, clients, length, no, loginQueue, sem, shut, sighup>>
  /\ UNCHANGED pvars

\* (mutant) the wait does not block on a zero semaphore
creg_wait_for_empty_nowait ==
  /\ main = "blocked"
  /\ sem' = sem - 1
  /\ main' = "fini"
  /\ UNCHANGED <<thread, clients, length, no, loginQueue, shut, sighup>>
  /\ UNCHANGED pvars

creg_wait_for_empty_wake ==
  /\ main = "blocked"
  /\ sem > 0
  /\ sem' = sem - 1
  /\ main' = "fini"
  /\ UNCHANGED <<thread, clients, length, no, loginQueue, shut, sighup>>
  /\ UNCHANGED pvars

\* creg_fini, preg_fini and exit(): the process ends with every thread.
terminate_exit ==
  /\ main = "fini"
  /\ main' = "exited"
  /\ PR!preg_fini
  /\ UNCHANGED <<thread, clients, length, no, loginQueue, sem, shut, sighup>>
  /\ UNCHANGED <<player, loggedIn, lg, loginSem, gate, users>>

-----------------------------------------------------------------------------
(* A service thread: jeux_client_service *)

\* client_create, run by creg_register under cr->mutex: is_sem_init is
\* never set, so every CLIENT created runs sem_init(&semaphores[i], 0, 1)
\* again on the global semaphores, whoever holds them.  Re-initialising a
\* semaphore in use is undefined; glibc writes the value 1 (and clears the
\* waiter count), so a CLIENT_LOGIN_SEM held inside client_login is free
\* again.
client_create == loginSem' = 1

\* creg_register, lines before the semaphore: a full registry or a shut-down
\* one refuses the connection (which is closed), read without the mutex.
creg_register_check(c) ==
  /\ Running
  /\ thread[c] = "started"
  /\ thread' = [thread EXCEPT ![c] =
                  IF length >= MAX_CLIENTS \/ no = 1 THEN "refused" ELSE "checked"]
  /\ UNCHANGED <<clients, length, no, loginQueue, sem, shut, sighup, main>>
  /\ UNCHANGED pvars

\* (mutant) creg_register without sem_wait(login_queue)
creg_register_nosem(c) ==
  /\ Running
  /\ thread[c] = "checked"
  /\ clients' = clients \cup {c}
  /\ length' = length + 1
  /\ thread' = [thread EXCEPT ![c] = "serving"]
  /\ client_create
  /\ UNCHANGED <<no, sem, shut, sighup, main, loginQueue>>
  /\ UNCHANGED <<player, loggedIn, lg, gate, users, preg, refs>>

\* creg_register, rest: sem_wait(login_queue), then under the mutex
\* client_create and clients[length++] = client.
creg_register_add(c) ==
  /\ Running
  /\ thread[c] = "checked"
  /\ loginQueue > 0
  /\ loginQueue' = loginQueue - 1
  /\ clients' = clients \cup {c}
  /\ length' = length + 1
  /\ thread' = [thread EXCEPT ![c] = "serving"]
  /\ client_create
  /\ UNCHANGED <<no, sem, shut, sighup, main>>
  /\ UNCHANGED <<player, loggedIn, lg, gate, users, preg, refs>>

\* proto_recv_packet returns -1 because the client closed the connection
\* (once the read side is shut down, the EOF is recv_shutdown's).  The
\* receive happens between requests, not inside process_login.
client_hangup(c) ==
  /\ Running
  /\ thread[c] = "serving"
  /\ lg[c] = LoginIdle /\ users[c] = NoUsers
  /\ c \notin shut
  /\ thread' = [thread EXCEPT ![c] = "eof"]
  /\ UNCHANGED <<clients, length, no, loginQueue, sem, shut, sighup, main>>
  /\ UNCHANGED pvars

\* (mutant) the service loop goes on reading after the failed receive
recv_shutdown_spin(c) ==
  /\ Running
  /\ thread[c] = "serving"
  /\ lg[c] = LoginIdle /\ users[c] = NoUsers
  /\ c \in shut
  /\ UNCHANGED vars

\* proto_recv_packet returns -1 because the read side was shut down
recv_shutdown(c) ==
  /\ Running
  /\ thread[c] = "serving"
  /\ lg[c] = LoginIdle /\ users[c] = NoUsers
  /\ c \in shut
  /\ thread' = [thread EXCEPT ![c] = "eof"]
  /\ UNCHANGED <<clients, length, no, loginQueue, sem, shut, sighup, main>>
  /\ UNCHANGED pvars

-----------------------------------------------------------------------------
(* LOGIN and logout of a registered session *)

\* (mutant) process_login without its client_get_player check
process_login_noguard(c, n) ==
  /\ Running
  /\ thread[c] = "serving"
  /\ c \notin shut
  /\ lg[c] = LoginIdle /\ users[c] = NoUsers
  /\ PR!preg_register_locked(n)
  /\ lg' = [lg EXCEPT ![c] = [pc |-> "ref", name |-> n]]
  /\ gate' = [gate EXCEPT ![c] = TRUE]
  /\ UNCHANGED lvars
  /\ UNCHANGED <<player, loggedIn, loginSem, users>>

\* process_login with user name n: a CLIENT that already has a PLAYER gets
\* NACK and nothing changes (left out: a stutter); otherwise preg_register
\* runs its part under preg->mutex.  No packet is read once the socket's
\* read side is shut down.
process_login(c, n) ==
  /\ Running
  /\ thread[c] = "serving"
  /\ c \notin shut
  /\ lg[c] = LoginIdle /\ users[c] = NoUsers
  /\ player[c] = NoName
  /\ PR!preg_register_locked(n)
  /\ lg' = [lg EXCEPT ![c] = [pc |-> "ref", name |-> n]]
  /\ gate' = [gate EXCEPT ![c] = TRUE]
  /\ UNCHANGED lvars
  /\ UNCHANGED <<player, loggedIn, loginSem, users>>

\* process_login refusing a LOGIN with NACK and -1 before preg_register: the
\* CLIENT already has a PLAYER, or the name is empty.  The -1 opens the
\* driver's gate all the same.
process_login_nack(c) ==
  /\ Running
  /\ thread[c] = "serving"
  /\ c \notin shut
  /\ lg[c] = LoginIdle /\ users[c] = NoUsers
  /\ gate' = [gate EXCEPT ![c] = TRUE]
  /\ UNCHANGED lvars
  /\ UNCHANGED <<player, loggedIn, lg, loginSem, users, preg, refs>>

\* preg_register, after unlocking preg->mutex: player_ref for the caller
preg_register_ref(c) ==
  /\ Running
  /\ lg[c].pc = "ref"
  /\ PR!player_ref(lg[c].name)
  /\ lg' = [lg EXCEPT ![c].pc = "client_login"]
  /\ UNCHANGED lvars
  /\ UNCHANGED <<player, loggedIn, loginSem, gate, users>>

\* creg_all_players under cr->mutex: the player pointers of the registered
\* clients (client_logout does not clear client->player)
creg_all_players == {player[d] : d \in clients} \ {NoName}

\* client_login: sem_wait(CLIENT_LOGIN_SEM), blocking while its value is 0
client_login_wait(c) ==
  /\ Running
  /\ lg[c].pc = "client_login"
  /\ loginSem > 0
  /\ loginSem' = loginSem - 1
  /\ lg' = [lg EXCEPT ![c].pc = "login_sem"]
  /\ UNCHANGED lvars
  /\ UNCHANGED <<player, loggedIn, preg, refs, gate, users>>

\* client_login after sem_wait, up to the decision: a CLIENT already logged
\* in returns -1 without sem_post; otherwise creg_all_players (under
\* cr->mutex, each PLAYER referenced) is searched for the name and every
\* entry unreferenced again, and a name found is refused (sem_post, -1).
client_login_check(c) ==
  LET n == lg[c].name IN
  /\ Running
  /\ lg[c].pc = "login_sem"
  /\ \/ /\ loggedIn[c]
        /\ lg' = [lg EXCEPT ![c].pc = "unref"]
        /\ UNCHANGED loginSem
     \/ /\ ~loggedIn[c]
        /\ n \in creg_all_players
        /\ lg' = [lg EXCEPT ![c].pc = "unref"]
        /\ loginSem' = loginSem + 1
     \/ /\ ~loggedIn[c]
        /\ n \notin creg_all_players
        /\ lg' = [lg EXCEPT ![c].pc = "login_set"]
        /\ UNCHANGED loginSem
  /\ UNCHANGED lvars
  /\ UNCHANGED <<player, loggedIn, preg, refs, gate, users>>

\* client_login, the name not found: client->player is set under
\* client->lock with player_ref, the CLIENT is logged in and
\* CLIENT_LOGIN_SEM posted.
client_login_set(c) ==
  LET n == lg[c].name IN
  /\ Running
  /\ lg[c].pc = "login_set"
  /\ player' = [player EXCEPT ![c] = n]
  /\ loggedIn' = [loggedIn EXCEPT ![c] = TRUE]
  /\ PR!player_ref(n)
  /\ loginSem' = loginSem + 1
  /\ lg' = [lg EXCEPT ![c].pc = "unref"]
  /\ UNCHANGED lvars
  /\ UNCHANGED <<gate, users>>

\* (mutant) process_login keeps the reference preg_register returned
login_unref_keep(c) ==
  /\ Running
  /\ lg[c].pc = "unref"
  /\ lg' = [lg EXCEPT ![c] = LoginIdle]
  /\ UNCHANGED lvars
  /\ UNCHANGED <<player, loggedIn, loginSem, preg, refs, gate, users>>

\* process_login, after client_login (NACK on failure): player_unref of the
\* reference preg_register returned, then ACK
login_unref(c) ==
  /\ Running
  /\ lg[c].pc = "unref"
  /\ PR!player_unref(lg[c].name)
  /\ lg' = [lg EXCEPT ![c] = LoginIdle]
  /\ UNCHANGED lvars
  /\ UNCHANGED <<player, loggedIn, loginSem, gate, users>>

\* process_users, for a session past the driver's gate (otherwise NACK):
\* creg_all_players takes a reference on each logged-in PLAYER under
\* cr->mutex, and the array is held while the list is formatted.
process_users(c) ==
  /\ Running
  /\ thread[c] = "serving"
  /\ c \notin shut
  /\ lg[c] = LoginIdle /\ users[c] = NoUsers
  /\ gate[c]
  /\ creg_all_players # NoUsers
  /\ PR!player_ref_each(creg_all_players)
  /\ users' = [users EXCEPT ![c] = creg_all_players]
  /\ UNCHANGED lvars
  /\ UNCHANGED <<player, loggedIn, lg, loginSem, gate>>

\* process_users, after formatting each "name<TAB>rating" line: player_unref
\* of every entry, then the ACK with the list
process_users_send(c) ==
  /\ Running
  /\ users[c] # NoUsers
  /\ PR!player_unref_each(users[c])
  /\ users' = [users EXCEPT ![c] = NoUsers]
  /\ UNCHANGED lvars
  /\ UNCHANGED <<player, loggedIn, lg, loginSem, gate>>

\* client_logout after the receive loop ends: a CLIENT not logged in
\* returns at once; otherwise (its invitation list is the subject of
\* JeuxSessions) player_unref, and it is logged out.  client->player is
\* left pointing at the PLAYER.
client_logout(c) ==
  /\ Running
  /\ thread[c] = "eof"
  /\ thread' = [thread EXCEPT ![c] = "loggedOut"]
  /\ \/ /\ loggedIn[c]
        /\ PR!player_unref(player[c])
        /\ loggedIn' = [loggedIn EXCEPT ![c] = FALSE]
     \/ /\ ~loggedIn[c]
        /\ UNCHANGED <<loggedIn, preg, refs>>
  /\ UNCHANGED <<clients, length, no, loginQueue, sem, shut, sighup, main>>
  /\ UNCHANGED <<player, lg, loginSem, gate, users>>

\* creg_unregister under the mutex (its client_logout returns at once, the
\* CLIENT being logged out already): remove the client, length--,
\* sem_post(login_queue), and sem_post(sem) when length reaches 0; then
\* Close(connfd) and the thread ends.
creg_unregister(c) ==
  /\ Running
  /\ thread[c] = "loggedOut"
  /\ clients' = clients \ {c}
  /\ length' = length - 1
  /\ loginQueue' = loginQueue + 1
  /\ sem' = IF length - 1 = 0 THEN sem + 1 ELSE sem
  /\ thread' = [thread EXCEPT ![c] = "done"]
  /\ UNCHANGED <<no, shut, sighup, main>>
  /\ UNCHANGED pvars

\* The process has exited.
Exited ==
  /\ main = "exited"
  /\ UNCHANGED vars

-----------------------------------------------------------------------------
Environment ==
  \/ sighup_handler
  \/ \E c \in Conn : client_hangup(c)
  \/ \E c \in Conn, n \in Name : process_login(c, n)
  \/ \E c \in Conn : process_login_nack(c) \/ process_users(c)

Main ==
  \/ \E c \in Conn : main_accept(c)
  \/ main_check_signal
  \/ creg_shutdown_all
  \/ creg_wait_for_empty
  \/ creg_wait_for_empty_wake
  \/ terminate_exit

Service(c) ==
  \/ creg_register_check(c)
  \/ creg_register_add(c)
  \/ recv_shutdown(c)
  \/ preg_register_ref(c)
  \/ client_login_wait(c)
  \/ client_login_check(c)
  \/ client_login_set(c)
  \/ login_unref(c)
  \/ process_users_send(c)
  \/ client_logout(c)
  \/ creg_unregister(c)

Next == Environment \/ Main \/ (\E c \in Conn : Service(c)) \/ Exited

\* Threads are scheduled fairly; connections, hang-ups, LOGIN packets and
\* SIGHUP are up to the outside world.
Fairness ==
  /\ WF_vars(main_check_signal \/ creg_shutdown_all \/ creg_wait_for_empty
             \/ creg_wait_for_empty_wake \/ terminate_exit)
  /\ \A c \in Conn : WF_vars(Service(c))

Spec == Init /\ [][Next]_vars /\ Fairness

-----------------------------------------------------------------------------
TypeOK ==
  /\ thread \in [Conn -> ThreadPhases]
  /\ clients \subseteq Conn
  /\ length \in Nat
  /\ no \in {0, 1}
  /\ loginQueue \in Nat
  /\ sem \in Nat
  /\ shut \subseteq Conn
  /\ sighup \in BOOLEAN
  /\ main \in MainPhases
  /\ player \in [Conn -> Name \cup {NoName}]
  /\ loggedIn \in [Conn -> BOOLEAN]
  /\ lg \in [Conn -> [pc : LoginPc, name : Name \cup {NoName}]]
  /\ loginSem \in Nat
  /\ gate \in [Conn -> BOOLEAN]
  /\ users \in [Conn -> SUBSET Name]
  /\ PR!TypeOK

\* creg_register never writes past the end of cr->clients: the unlocked
\* length check can be passed by several threads at once, and it is the
\* login_queue semaphore, posted once per creg_unregister, that keeps the
\* number of registered clients within MAX_CLIENTS.
LengthBounded == length <= MAX_CLIENTS /\ length = Cardinality(clients)

\* Spec 8.10 and creg_wait_for_empty's contract: terminate() goes on to
\* creg_fini only once every client has unregistered (no sem_post left
\* over from an earlier moment the registry was empty lets it through).
WaitReturnsWhenEmpty == main \in {"fini", "exited"} => clients = {}

\* Spec 8.10: every receive loop of a session registered when
\* creg_shutdown_all ran observes end-of-stream, so its service thread
\* goes on to client_logout and creg_unregister and leaves the registry
\* (unless the process has exited first).
ShutdownDrains ==
  \A c \in Conn : (c \in shut /\ c \in clients) ~> (c \notin clients \/ main = "exited")

\* Spec 8.10: once SIGHUP is delivered the process eventually exits:
\* creg_shutdown_all makes every registered session see EOF and no
\* registration succeeds after it, so terminate() does not wait forever on
\* a client that keeps its connection open.
TerminationCompletes == sighup ~> main = "exited"

\* The references a PLAYER is owed while the server runs: the registry's,
\* one per CLIENT logged in as it, the one preg_register returned to a
\* process_login that has not yet dropped it, and one per process_users
\* array that lists it.
OwedRefs(n) ==
  (IF n \in preg THEN 1 ELSE 0)
  + Cardinality({c \in Conn : loggedIn[c] /\ player[c] = n})
  + Cardinality({c \in Conn : lg[c].name = n /\ lg[c].pc \in {"client_login", "login_sem", "login_set", "unref"}})
  + Cardinality({c \in Conn : n \in users[c]})

\* Every PLAYER's ref_count is exactly the number of references held to
\* it, across preg_register's unlocked player_ref, client_login, the
\* player_unref at the end of process_login, process_users' array and
\* client_logout: no PLAYER
\* is leaked, and none is freed while the registry or a CLIENT (whose
\* player pointer outlives its logout) can still reach it.
PlayerRefsExact == Running => \A n \in Name : refs[n] = OwedRefs(n)

\* Threads between client_login's sem_wait and its sem_post
InClientLogin == {c \in Conn : lg[c].pc \in {"login_sem", "login_set"}}

\* client_login's early return for a CLIENT already logged in does not
\* post CLIENT_LOGIN_SEM; it is unreachable only because process_login
\* refuses a CLIENT that has a player.  CLIENT_LOGIN_SEM is never lost: a
\* unit of it is either free or held by a thread inside client_login, so
\* once they leave a LOGIN can enter (no path leaves every later LOGIN of
\* every session blocked for ever).
LoginSemNotLost == loginSem + Cardinality(InClientLogin) >= 1

\* Spec section 8, invariant 3: at most one session is logged in under any
\* name at any instant.  client_login's search of creg_all_players and
\* its setting of client->player are meant to be made atomic by
\* CLIENT_LOGIN_SEM.
UniqueLogin ==
  \A c, d \in Conn :
    c # d /\ loggedIn[c] /\ loggedIn[d] => player[c] # player[d]

=============================================================================
