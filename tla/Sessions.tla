------------------------------ MODULE Sessions ------------------------------
(***************************************************************************)
(* Who is signed in, and what stays open for them: the sessions table with *)
(* set-up, login, logout and the password change (handlers/auth.go,        *)
(* handlers/settings.go, cmd/server/admin.go), the WebSockets the managers *)
(* keep for them and the sweep that looks for sessions another process has *)
(* ended (handlers/ws.go), and the shells of the terminal sockets          *)
(* (handlers/terminal.go, services/terminal.go).                           *)
(*                                                                         *)
(* A session was checked on every request that needs one (AuthMiddleware); *)
(* a WebSocket outlives that check, so something has to end it.            *)
(***************************************************************************)
EXTENDS Integers, FiniteSets

CONSTANTS
  Ids,        \* session ids
  Sockets,
  Kinds,      \* what a socket may be: "stream", "backup", "terminal"
  Requests,   \* who may ask for what: <<session, "logout" or "password">>
  None,
  Limit,      \* metered sockets of a manager: 24 and 5 in the code
  MaxShells,  \* MaxConcurrentSessions, 20 in the code
  FailLimit   \* sessionSweepFailureLimit, 3 in the code

ASSUME SessionAssumption ==
  /\ Kinds \in [Sockets -> SUBSET {"stream", "backup", "terminal"}]
  /\ Requests \subseteq Ids \X {"logout", "password"}
  /\ None \notin Ids
  /\ Limit \in Nat \ {0} /\ MaxShells \in Nat \ {0} /\ FailLimit \in Nat \ {0}

ManagerOf(kind) == IF kind = "terminal" THEN 2 ELSE 1

VARIABLES
  users,     \* how many rows table users has
  session,   \* table sessions
  asker,     \* the request of a session that ends sessions: its step m
  sock,      \* where the handler of a socket is, its kind and its session
  wire,      \* the sockets whose connection is open
  table,     \* the sockets registered with their manager
  count,     \* userCounts of each manager
  sweep,     \* where the sweep is: the ids it has still to look up, the one it closes
  failures,  \* consecutive failed look-ups of a session
  shells,    \* the shells that run in a container
  entry,     \* the shells in TerminalService.sessions
  seen       \* history: look-ups of a session that failed in a row

auth == <<users, session, asker>>
conns == <<sock, wire, table, count>>
check == <<sweep, failures>>
terms == <<shells, entry>>
vars == <<auth, conns, check, terms, seen>>

Metered(k) == sock[k].kind \in {"stream", "terminal"}
Of(m) == {k \in table : ManagerOf(sock[k].kind) = m}

(* The types of the variables. *)
TypeOK ==
  /\ users \in Nat
  /\ session \in [Ids -> {"none", "live", "expired", "deleted"}]
  /\ asker \in [Ids -> [what : {"none", "setup", "logout", "password"}, m : 0 .. 2]]
  /\ sock \in [Sockets -> [at : {"new", "upgraded", "open", "shell", "left", "ended"},
                           kind : {"stream", "backup", "terminal", None}, s : Ids \cup {None}]]
  /\ wire \subseteq Sockets /\ table \subseteq Sockets
  /\ count \in [{1, 2} -> Int]
  /\ sweep \in [todo : SUBSET Ids, id : Ids \cup {None}, m : {1, 2}]
  /\ failures \in [Ids -> 0 .. FailLimit]
  /\ shells \subseteq Sockets /\ entry \subseteq Sockets

Idle == [todo |-> {}, id |-> None, m |-> 1]

Gone == [at |-> "ended", kind |-> None, s |-> None]
Asks(what) == [what |-> what, m |-> 0]

Init ==
  /\ users = 0
  /\ session = [s \in Ids |-> "none"] /\ asker = [s \in Ids |-> Asks("none")]
  /\ sock = [k \in Sockets |-> [at |-> "new", kind |-> None, s |-> None]]
  /\ wire = {} /\ table = {} /\ count = [m \in {1, 2} |-> 0]
  /\ sweep = Idle /\ failures = [s \in Ids |-> 0]
  /\ shells = {} /\ entry = {}
  /\ seen = [s \in Ids |-> 0]

-----------------------------------------------------------------------------
(* Signing in.                                                             *)

Authentication == UNCHANGED <<conns, check, terms, seen>>

(* What the middleware asks of a request, and the upgrade of a WebSocket:  *)
(* the row of a session that has not expired.                              *)
SignedIn(s) == session[s] = "live"
AuthenticateToken(s) == SignedIn(s)

(* Set-up looks for a user first, and hashes the password after: another   *)
(* set-up may have come first by the time the row is inserted.             *)
SetupBegins(s) ==
  /\ users = 0 /\ session[s] = "none" /\ asker[s].what = "none"
  /\ asker' = [asker EXCEPT ![s] = Asks("setup")]
  /\ UNCHANGED <<users, session>> /\ Authentication

MayCreateFirstUser == users = 0

SetupEnds(s) ==
  /\ asker[s].what = "setup"
  /\ asker' = [asker EXCEPT ![s] = Asks("none")]
  /\ IF MayCreateFirstUser
     THEN users' = users + 1 /\ session' = [session EXCEPT ![s] = "live"]
     ELSE UNCHANGED <<users, session>>
  /\ Authentication

Login(s) ==
  /\ users > 0 /\ session[s] = "none" /\ asker[s].what = "none"
  /\ session' = [session EXCEPT ![s] = "live"]
  /\ UNCHANGED <<users, asker>> /\ Authentication

Expire(s) ==
  /\ session[s] = "live"
  /\ session' = [session EXCEPT ![s] = "expired"]
  /\ UNCHANGED <<users, asker>> /\ Authentication

DeleteExpiredSessions ==
  /\ \E s \in Ids : session[s] = "expired"
  /\ session' = [s \in Ids |-> IF session[s] = "expired" THEN "deleted" ELSE session[s]]
  /\ UNCHANGED <<users, asker>> /\ Authentication

Deleted(S) == [s \in Ids |-> IF s \in S /\ session[s] # "none" THEN "deleted" ELSE session[s]]

(* The password reset of the command line deletes every session from a     *)
(* process that has none of the sockets.                                   *)
ResetPassword ==
  /\ users > 0
  /\ session' = Deleted(Ids)
  /\ UNCHANGED <<users, asker>> /\ Authentication

(* A logout deletes the session, a password change all others; that the    *)
(* database did not is only logged.  Both then close the sockets, one      *)
(* manager after the other.                                                *)
Ask(s, what) ==
  /\ SignedIn(s) /\ asker[s].what = "none" /\ <<s, what>> \in Requests
  /\ asker' = [asker EXCEPT ![s] = Asks(what)]
  /\ UNCHANGED <<users, session>> /\ Authentication

Revokes(s, what) == IF what = "logout" THEN {s} ELSE Ids \ {s}

DeleteSessions(s) ==
  /\ asker[s].what \in {"logout", "password"} /\ asker[s].m = 0
  /\ asker' = [asker EXCEPT ![s].m = 1]
  /\ \/ session' = Deleted(Revokes(s, asker[s].what))
     \/ UNCHANGED session
  /\ UNCHANGED users /\ Authentication

-----------------------------------------------------------------------------
(* The connection managers.                                                *)

(* A WebSocket is let in by the session of its upgrade.                    *)
Upgrade(k, s) ==
  /\ sock[k].at = "new" /\ AuthenticateToken(s)
  /\ \E kind \in Kinds[k] : sock' = [sock EXCEPT ![k] = [at |-> "upgraded", kind |-> kind, s |-> s]]
  /\ wire' = wire \cup {k}
  /\ UNCHANGED <<auth, table, count, check, terms, seen>>

(* MUTANT: every socket that goes is taken off the count. *)
CountedAll(K) == Cardinality(K)
Counted(K) == Cardinality({k \in K : Metered(k)})

MayAdd(m) == count[m] < Limit

(* Add, which refuses above the limit, and AddUnmetered for the viewer of  *)
(* a backup, which never does.  The session may have ended since.          *)
Register(k) ==
  LET m == ManagerOf(sock[k].kind) IN
  /\ sock[k].at = "upgraded"
  /\ IF Metered(k) /\ ~MayAdd(m)
     THEN /\ sock' = [sock EXCEPT ![k] = Gone] /\ wire' = wire \ {k}
          /\ UNCHANGED <<table, count>>
     ELSE /\ sock' = [sock EXCEPT ![k].at = "open"]
          /\ table' = table \cup {k}
          /\ count' = [count EXCEPT ![m] = @ + Counted({k})]
          /\ UNCHANGED wire
  /\ UNCHANGED <<auth, check, terms, seen>>

(* The client goes away; before it is registered nobody looks.             *)
ClientGone(k) ==
  /\ k \in wire /\ sock[k].at \in {"open", "shell"} /\ wire' = wire \ {k}
  /\ UNCHANGED <<auth, sock, table, count, check, terms, seen>>

(* The deferred release closes the connection and takes it out of the      *)
(* table, where a revocation may have been first.                          *)
Release(k) ==
  /\ sock[k].at = "left" \/ (sock[k].at = "open" /\ k \notin wire)
  /\ wire' = wire \ {k} /\ table' = table \ {k}
  /\ count' = [count EXCEPT ![ManagerOf(sock[k].kind)] = @ - Counted({k} \cap table)]
  /\ sock' = [sock EXCEPT ![k] = Gone]
  /\ UNCHANGED <<auth, check, terms, seen>>

(* closeMatching: out of the table and the count under the mutex, then     *)
(* closed; the handler leaves when it sees that.                           *)
CloseMatching(m, S) ==
  LET K == {k \in Of(m) : sock[k].s \in S} IN
  /\ table' = table \ K /\ wire' = wire \ K
  /\ count' = [count EXCEPT ![m] = @ - Counted(K)]
  /\ UNCHANGED sock

CloseForAsker(s) ==
  LET m == asker[s].m IN
  /\ asker[s].what \in {"logout", "password"} /\ m > 0
  /\ CloseMatching(m, Revokes(s, asker[s].what))
  /\ asker' = [asker EXCEPT ![s] = IF m = 1 THEN [@ EXCEPT !.m = 2] ELSE Asks("none")]
  /\ UNCHANGED <<users, session, check, terms, seen>>

-----------------------------------------------------------------------------
(* What a socket is for.                                                   *)

StreamEnds(k) ==
  /\ k \in wire /\ sock[k].at = "open" /\ sock[k].kind # "terminal"
  /\ sock' = [sock EXCEPT ![k].at = "left"]
  /\ UNCHANGED <<auth, wire, table, count, check, terms, seen>>

(* The shell of a terminal: refused at the ceiling of the host, for the    *)
(* wrong container, or because docker does not start it.                   *)
CreateSession(k) ==
  /\ sock[k].at = "open" /\ sock[k].kind = "terminal"
  /\ \/ /\ Cardinality(entry) < MaxShells
        /\ sock' = [sock EXCEPT ![k].at = "shell"]
        /\ shells' = shells \cup {k} /\ entry' = entry \cup {k}
     \/ sock' = [sock EXCEPT ![k].at = "left"] /\ UNCHANGED <<shells, entry>>
  /\ UNCHANGED <<auth, wire, table, count, check, seen>>

(* The shell exits, or its pseudo-terminal is closed under it. *)
ShellExits(k) ==
  /\ k \in shells /\ shells' = shells \ {k}
  /\ UNCHANGED <<auth, conns, check, entry, seen>>

CloseSession(k) == entry \cap {k}

(* The handler leaves when its connection or its shell has ended, and      *)
(* takes the shell out of the table, unless the reaper has.                *)
TerminalEnds(k) ==
  /\ sock[k].at = "shell" /\ (k \notin wire \/ k \notin shells)
  /\ entry' = entry \ CloseSession(k)
  /\ shells' = shells \ CloseSession(k)
  /\ sock' = [sock EXCEPT ![k].at = "left"]
  /\ UNCHANGED <<auth, wire, table, count, check, seen>>

Reap(k) ==
  /\ k \in entry
  /\ entry' = entry \ {k} /\ shells' = shells \ {k}
  /\ UNCHANGED <<auth, conns, check, seen>>

-----------------------------------------------------------------------------
(* The sweep.                                                              *)

LiveIds == {sock[k].s : k \in table}

SweepBegins ==
  /\ sweep = Idle /\ LiveIds # {}
  /\ sweep' = [Idle EXCEPT !.todo = LiveIds]
  /\ failures' = [s \in Ids |-> IF s \in LiveIds THEN failures[s] ELSE 0]
  /\ seen' = [s \in Ids |-> IF s \in LiveIds THEN seen[s] ELSE 0]
  /\ UNCHANGED <<auth, conns, terms>>

(* MUTANT: a session whose row is still there is a session. *)
RowIsEnough(s) == session[s] \in {"live", "expired"}
StillSignedIn(s) == session[s] = "live"

(* MUTANT: failures add up over the life of a session. *)
AfterSuccessKept(s) == failures[s]
AfterSuccess(s) == 0

Look(s, id, n) ==
  /\ sweep' = [todo |-> sweep.todo \ {s}, id |-> id, m |-> 1]
  /\ failures' = [failures EXCEPT ![s] = n]
  /\ UNCHANGED <<auth, conns, terms>>

SweepFinds(s) ==
  /\ s \in sweep.todo /\ sweep.id = None
  /\ IF StillSignedIn(s) THEN Look(s, None, AfterSuccess(s)) ELSE Look(s, s, 0)
  /\ seen' = [seen EXCEPT ![s] = 0]

SweepFails(s) ==
  /\ s \in sweep.todo /\ sweep.id = None
  /\ IF failures[s] + 1 >= FailLimit THEN Look(s, s, 0) ELSE Look(s, None, failures[s] + 1)
  /\ seen' = [seen EXCEPT ![s] = IF failures[s] + 1 >= FailLimit THEN 0 ELSE @ + 1]

SweepCloses ==
  /\ sweep.id # None
  /\ CloseMatching(sweep.m, {sweep.id})
  /\ sweep' = IF sweep.m = 1 THEN [sweep EXCEPT !.m = 2] ELSE [sweep EXCEPT !.m = 1, !.id = None]
  /\ UNCHANGED <<auth, failures, terms, seen>>

-----------------------------------------------------------------------------
SweepStep == SweepBegins \/ (\E s \in Ids : SweepFinds(s) \/ SweepFails(s)) \/ SweepCloses
Handler(k) == Register(k) \/ Release(k) \/ TerminalEnds(k)

Next ==
  \/ \E s \in Ids : \/ SetupBegins(s) \/ SetupEnds(s) \/ Login(s) \/ Expire(s)
                    \/ Ask(s, "logout") \/ Ask(s, "password") \/ DeleteSessions(s) \/ CloseForAsker(s)
  \/ DeleteExpiredSessions \/ ResetPassword
  \/ \E k \in Sockets, s \in Ids : Upgrade(k, s)
  \/ \E k \in Sockets : \/ Handler(k) \/ ClientGone(k) \/ StreamEnds(k) \/ CreateSession(k)
                        \/ ShellExits(k) \/ Reap(k)
  \/ SweepStep

Spec == Init /\ [][Next]_vars

(* The sweep runs on its ticker; a handler goes on, and sees a connection  *)
(* that was closed under it.                                               *)
FairSpec == Spec /\ WF_vars(SweepStep) /\ \A k \in Sockets : WF_vars(Handler(k))

-----------------------------------------------------------------------------
(* What the managers count is what is there: the count of a manager is its *)
(* metered sockets, whoever took one out, and within the limit.            *)
CountsAreExact ==
  \A m \in {1, 2} : /\ count[m] = Cardinality({k \in Of(m) : Metered(k)})
                    /\ count[m] <= Limit

(* Nothing is out of reach: a connection that is open and served is in the *)
(* table that revocations search, or one of them is closing it; and a      *)
(* shell that runs belongs to a handler.                                   *)
NothingIsOutOfReach ==
  /\ \A k \in wire : sock[k].at \in {"open", "shell"} => k \in table
  /\ \A k \in table : sock[k].at \in {"open", "shell", "left"}
  /\ shells \subseteq entry
  /\ \A k \in entry : sock[k].at = "shell"
  /\ Cardinality(entry) <= MaxShells
  /\ users <= 1

ConnectionsInv == TypeOK /\ CountsAreExact /\ NothingIsOutOfReach

(* The sweep closes the sockets of a session only when it has found that   *)
(* the session is over, or has failed FailLimit times in a row to look.    *)
SweepSparesTheSignedIn ==
  [][\A s \in Ids : sweep'.id = s /\ sweep.id = None =>
       session[s] # "live" \/ seen[s] + 1 >= FailLimit]_vars

(* A socket whose session is over, however it ended, is closed in time,    *)
(* even if it was registered after its session was ended; and so is its    *)
(* shell.                                                                  *)
RevokedIsClosed ==
  \A k \in Sockets :
    (sock[k].s # None /\ session[sock[k].s] \in {"expired", "deleted"}) ~> (k \notin wire \cup shells)

=============================================================================
