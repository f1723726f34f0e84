---------------------------- MODULE SessionsProofs ----------------------------
(***************************************************************************)
(* Theorems about the two components that are at the other end of a        *)
(* WebSocket: the sessions and the sockets that are open for them, for any *)
(* sessions, any number of sockets, and any limits; and the update jobs,   *)
(* for any requests, containers, stacks, followers and channel sizes.      *)
(***************************************************************************)
EXTENDS Sessions, UpdateJobs, FiniteSetTheorems, SequenceTheorems, TLAPS

(* A socket that has been let in has the session of its upgrade.           *)
LetIn == {"upgraded", "open", "shell", "left"}
SocketsKnown ==
  \A k \in Sockets : sock[k].at \in LetIn => sock[k].s \in Ids

(* What a manager has in its table, metered; what it can hold is finite.   *)
MeteredIn(m) == {k \in Of(m) : Metered(k)}
TablesAreFinite == IsFiniteSet(table) /\ IsFiniteSet(entry)

SessionIInv ==
  TypeOK /\ SocketsKnown /\ TablesAreFinite /\ CountsAreExact /\ NothingIsOutOfReach

-----------------------------------------------------------------------------
(* The records, and how a step changes them.                               *)
SockType ==
  [at : {"new", "upgraded", "open", "shell", "left", "ended"},
   kind : {"stream", "backup", "terminal", None}, s : Ids \cup {None}]
AskerType == [what : {"none", "setup", "logout", "password"}, m : 0 .. 2]
SweepType == [todo : SUBSET Ids, id : Ids \cup {None}, m : {1, 2}]

LEMMA Records ==
  ASSUME TypeOK
  PROVE  /\ sock \in [Sockets -> SockType] /\ asker \in [Ids -> AskerType]
         /\ sweep \in SweepType /\ Gone \in SockType /\ Idle \in SweepType
         /\ \A k \in Sockets, at \in {"open", "shell", "left"} :
              [sock[k] EXCEPT !.at = at] \in SockType
         /\ \A what \in {"none", "setup", "logout", "password"} : Asks(what) \in AskerType
         /\ \A s \in Ids, m \in {1, 2} : [asker[s] EXCEPT !.m = m] \in AskerType
  <1>1. sock \in [Sockets -> SockType] /\ asker \in [Ids -> AskerType] /\ sweep \in SweepType
    BY DEF TypeOK, SockType, AskerType, SweepType
  <1>2. Gone \in SockType /\ Idle \in SweepType
    BY DEF Gone, Idle, SockType, SweepType
  <1>3. \A k \in Sockets, at \in {"open", "shell", "left"} : [sock[k] EXCEPT !.at = at] \in SockType
    BY <1>1 DEF SockType
  <1>4. \A what \in {"none", "setup", "logout", "password"} : Asks(what) \in AskerType
    BY DEF Asks, AskerType
  <1>5. \A s \in Ids, m \in {1, 2} : [asker[s] EXCEPT !.m = m] \in AskerType
    BY <1>1 DEF AskerType
  <1> QED
    BY <1>1, <1>2, <1>3, <1>4, <1>5

(* The sockets a socket's step leaves alone, and what becomes of the one.  *)
Moves(k, at) == sock' = [sock EXCEPT ![k].at = at]

LEMMA MovesOne ==
  ASSUME TypeOK, NEW k \in Sockets, NEW at \in {"open", "shell", "left"}, Moves(k, at)
  PROVE  /\ sock' \in [Sockets -> SockType]
         /\ \A j \in Sockets : j # k => sock'[j] = sock[j]
         /\ sock'[k].at = at /\ sock'[k].kind = sock[k].kind /\ sock'[k].s = sock[k].s
  <1>1. sock' = [sock EXCEPT ![k] = [sock[k] EXCEPT !.at = at]]
    BY DEF Moves
  <1>2. sock \in [Sockets -> SockType] /\ [sock[k] EXCEPT !.at = at] \in SockType
    BY Records
  <1>3. sock' \in [Sockets -> SockType] /\ \A j \in Sockets : j # k => sock'[j] = sock[j]
    BY <1>1, <1>2
  <1>4. sock'[k] = [sock[k] EXCEPT !.at = at] /\ sock[k] \in SockType
    BY <1>1, <1>2
  <1> QED
    BY <1>3, <1>4 DEF SockType

LEMMA EndsOne ==
  ASSUME TypeOK, NEW k \in Sockets, sock' = [sock EXCEPT ![k] = Gone]
  PROVE  /\ sock' \in [Sockets -> SockType]
         /\ \A j \in Sockets : j # k => sock'[j] = sock[j]
         /\ sock'[k].at = "ended" 
  <1>1. sock \in [Sockets -> SockType] /\ Gone \in SockType
    BY Records
  <1>2. sock' \in [Sockets -> SockType] /\ \A j \in Sockets : j # k => sock'[j] = sock[j]
    BY <1>1
  <1>3. sock'[k] = Gone
    BY <1>1
  <1> QED
    BY <1>2, <1>3 DEF Gone

LEMMA UpgradesOne ==
  ASSUME TypeOK, NEW k \in Sockets, NEW s \in Ids, Upgrade(k, s)
  PROVE  /\ sock' \in [Sockets -> SockType]
         /\ \A j \in Sockets : j # k => sock'[j] = sock[j]
         /\ sock[k].at = "new" /\ sock'[k].at = "upgraded" /\ sock'[k].s \in Ids
  <1>1. PICK kind \in Kinds[k] : sock' = [sock EXCEPT ![k] = [at |-> "upgraded", kind |-> kind, s |-> s]]
    BY DEF Upgrade
  <1>2. kind \in {"stream", "backup", "terminal"}
    BY SessionAssumption
  <1>3. [at |-> "upgraded", kind |-> kind, s |-> s] \in SockType
    BY <1>2 DEF SockType
  <1>4. sock \in [Sockets -> SockType] /\ sock[k].at = "new"
    BY Records DEF Upgrade
  <1> QED
    BY <1>1, <1>2, <1>3, <1>4
(* A session of a socket in the table, and those a revocation ends.        *)
LEMMA LiveIdsKnown ==
  ASSUME TypeOK, SocketsKnown, NothingIsOutOfReach
  PROVE  LiveIds \in SUBSET Ids
  BY DEF LiveIds, TypeOK, SocketsKnown, NothingIsOutOfReach, LetIn

(* Every step preserves the types.                                         *)
LEMMA TypeStep ==
  ASSUME TypeOK, SocketsKnown, TablesAreFinite, NothingIsOutOfReach, [Next]_vars
  PROVE  TypeOK'
  <1> USE SessionAssumption DEF TypeOK, auth, conns, check, terms, Authentication
  <1>0. \A S : IsFiniteSet(S) => Cardinality(S) \in Nat
    BY FS_CardinalityType
  <1>a. ASSUME NEW S, NEW m \in {1, 2}, CloseMatching(m, S)
        PROVE  table' \subseteq Sockets /\ wire' \subseteq Sockets /\ count' \in [{1, 2} -> Int] /\ sock' = sock
    <2> DEFINE K == {k \in Of(m) : sock[k].s \in S}
    <2>1. IsFiniteSet({k \in K : Metered(k)})
      <3>1. {k \in K : Metered(k)} \in SUBSET table
        BY DEF Of
      <3> QED
        BY <3>1, FS_Subset DEF TablesAreFinite
    <2>2. Counted(K) \in Nat
      BY <2>1, <1>0 DEF Counted
    <2>3. count' = [count EXCEPT ![m] = @ - Counted(K)]
      BY <1>a DEF CloseMatching
    <2> QED
      BY <1>a, <2>2, <2>3 DEF CloseMatching
  <1>1. ASSUME NEW s \in Ids, SetupBegins(s) PROVE TypeOK'
    <2>1. asker' \in [Ids -> AskerType]
      BY <1>1, Records DEF SetupBegins
    <2> QED
      BY <1>1, <2>1 DEF SetupBegins, AskerType
  <1>2. ASSUME NEW s \in Ids, SetupEnds(s) PROVE TypeOK'
    <2>1. asker' \in [Ids -> AskerType]
      BY <1>2, Records DEF SetupEnds
    <2> QED
      BY <1>2, <2>1 DEF SetupEnds, AskerType
  <1>3. ASSUME NEW s \in Ids, Login(s) PROVE TypeOK'
    BY <1>3 DEF Login
  <1>4. ASSUME NEW s \in Ids, Expire(s) PROVE TypeOK'
    BY <1>4 DEF Expire
  <1>5. ASSUME NEW s \in Ids, NEW what \in {"logout", "password"}, Ask(s, what) PROVE TypeOK'
    <2>1. asker' \in [Ids -> AskerType]
      BY <1>5, Records DEF Ask
    <2> QED
      BY <1>5, <2>1 DEF Ask, AskerType
  <1>6. ASSUME NEW s \in Ids, DeleteSessions(s) PROVE TypeOK'
    <2>1. asker' = [asker EXCEPT ![s] = [asker[s] EXCEPT !.m = 1]]
      BY <1>6 DEF DeleteSessions
    <2>2. asker' \in [Ids -> AskerType]
      BY <2>1, Records
    <2>3. session' \in [Ids -> {"none", "live", "expired", "deleted"}]
      BY <1>6 DEF DeleteSessions, Deleted
    <2> QED
      BY <1>6, <2>2, <2>3 DEF DeleteSessions, AskerType
  <1>7. ASSUME NEW s \in Ids, CloseForAsker(s) PROVE TypeOK'
    <2>1. asker[s].m \in {1, 2}
      BY <1>7 DEF CloseForAsker
    <2>2. asker' = [asker EXCEPT ![s] = [asker[s] EXCEPT !.m = 2]] \/ asker' = [asker EXCEPT ![s] = Asks("none")]
      BY <1>7 DEF CloseForAsker
    <2>3. [asker[s] EXCEPT !.m = 2] \in AskerType /\ Asks("none") \in AskerType
      BY Records
    <2>5. asker \in [Ids -> AskerType]
      BY Records
    <2>6. asker' \in [Ids -> AskerType]
      <3> HIDE DEF TypeOK
      <3> QED
        BY <2>2, <2>3, <2>5
    <2>4. CloseMatching(asker[s].m, Revokes(s, asker[s].what))
      BY <1>7 DEF CloseForAsker
    <2> QED
      BY <1>7, <1>a, <2>1, <2>6, <2>4 DEF CloseForAsker, AskerType
  <1>8. CASE DeleteExpiredSessions
    BY <1>8 DEF DeleteExpiredSessions
  <1>9. CASE ResetPassword
    BY <1>9 DEF ResetPassword, Deleted
  <1>10. ASSUME NEW k \in Sockets, NEW s \in Ids, Upgrade(k, s) PROVE TypeOK'
    <2>1. sock' \in [Sockets -> SockType]
      BY <1>10, UpgradesOne
    <2> QED
      BY <1>10, <2>1 DEF Upgrade, SockType
  <1>11. ASSUME NEW k \in Sockets, Register(k) PROVE TypeOK'
    <2>1. sock' \in [Sockets -> SockType]
      BY <1>11, EndsOne, MovesOne DEF Register, Moves
    <2>2. Counted({k}) \in Nat
      <3>1. IsFiniteSet({j \in {k} : Metered(j)})
        BY FS_Subset, FS_Singleton
      <3> QED
        BY <3>1, <1>0 DEF Counted
    <2>3. count' \in [{1, 2} -> Int]
      <3>1. count' = count \/ count' = [count EXCEPT ![ManagerOf(sock[k].kind)] = @ + Counted({k})]
        BY <1>11 DEF Register
      <3> QED
        BY <2>2, <3>1 DEF ManagerOf
    <2> QED
      BY <1>11, <2>1, <2>3 DEF Register, SockType
  <1>12. ASSUME NEW k \in Sockets, Release(k) PROVE TypeOK'
    <2>1. sock' \in [Sockets -> SockType]
      BY <1>12, EndsOne DEF Release
    <2>2. Counted({k} \cap table) \in Nat
      <3>1. IsFiniteSet({j \in {k} \cap table : Metered(j)})
        BY FS_Subset, FS_Singleton
      <3> QED
        BY <3>1, <1>0 DEF Counted
    <2>3. count' \in [{1, 2} -> Int]
      <3>1. count' = [count EXCEPT ![ManagerOf(sock[k].kind)] = @ - Counted({k} \cap table)]
        BY <1>12 DEF Release
      <3> QED
        BY <2>2, <3>1 DEF ManagerOf
    <2> QED
      BY <1>12, <2>1, <2>3 DEF Release, SockType
  <1>13. ASSUME NEW k \in Sockets, TerminalEnds(k) PROVE TypeOK'
    <2>1. sock' \in [Sockets -> SockType]
      BY <1>13, MovesOne DEF TerminalEnds, Moves
    <2> QED
      BY <1>13, <2>1 DEF TerminalEnds, SockType
  <1>14. ASSUME NEW k \in Sockets, ClientGone(k) PROVE TypeOK'
    BY <1>14 DEF ClientGone
  <1>15. ASSUME NEW k \in Sockets, StreamEnds(k) PROVE TypeOK'
    <2>1. sock' \in [Sockets -> SockType]
      BY <1>15, MovesOne DEF StreamEnds, Moves
    <2> QED
      BY <1>15, <2>1 DEF StreamEnds, SockType
  <1>16. ASSUME NEW k \in Sockets, CreateSession(k) PROVE TypeOK'
    <2>1. sock' \in [Sockets -> SockType]
      BY <1>16, MovesOne DEF CreateSession, Moves
    <2> QED
      BY <1>16, <2>1 DEF CreateSession, SockType
  <1>17. ASSUME NEW k \in Sockets, ShellExits(k) PROVE TypeOK'
    BY <1>17 DEF ShellExits
  <1>18. ASSUME NEW k \in Sockets, Reap(k) PROVE TypeOK'
    BY <1>18 DEF Reap
  <1>19. CASE SweepBegins
    <2>1. sweep' = [todo |-> LiveIds, id |-> None, m |-> 1]
      BY <1>19 DEF SweepBegins, Idle
    <2>2. sweep' \in SweepType
      BY <2>1, LiveIdsKnown DEF SweepType
    <2>3. failures' \in [Ids -> 0 .. FailLimit]
      BY <1>19 DEF SweepBegins
    <2> QED
      BY <1>19, <2>2, <2>3 DEF SweepBegins, SweepType
  <1>20. ASSUME NEW s \in Ids, NEW id \in {s, None}, NEW n \in 0 .. FailLimit, Look(s, id, n) PROVE TypeOK'
    <2>1. sweep' \in SweepType
      BY <1>20 DEF Look, SweepType
    <2> QED
      BY <1>20, <2>1 DEF Look, SweepType
  <1>21. ASSUME NEW s \in Ids, SweepFinds(s) PROVE TypeOK'
    BY <1>20, <1>21 DEF SweepFinds, AfterSuccess
  <1>22. ASSUME NEW s \in Ids, SweepFails(s) PROVE TypeOK'
    <2>1. CASE failures[s] + 1 >= FailLimit
      BY <1>20, <1>22, <2>1 DEF SweepFails
    <2>2. CASE ~(failures[s] + 1 >= FailLimit)
      <3>1. failures[s] + 1 \in 0 .. FailLimit
        BY <2>2
      <3> QED
        BY <1>20, <1>22, <2>2, <3>1 DEF SweepFails
    <2> QED
      BY <2>1, <2>2
  <1>23. CASE SweepCloses
    <2>1. sweep.m \in {1, 2}
      OBVIOUS
    <2>2. sweep' \in SweepType
      BY <1>23 DEF SweepCloses, SweepType
    <2>3. CloseMatching(sweep.m, {sweep.id})
      BY <1>23 DEF SweepCloses
    <2> QED
      BY <1>23, <1>a, <2>1, <2>2, <2>3 DEF SweepCloses, SweepType
  <1>24. CASE UNCHANGED vars
    BY <1>24 DEF vars
  <1> HIDE DEF TypeOK, auth, conns, check, terms, Authentication
  <1> QED
    BY <1>1, <1>2, <1>3, <1>4, <1>5, <1>6, <1>7, <1>8, <1>9, <1>10, <1>11, <1>12, <1>13, <1>14,
       <1>15, <1>16, <1>17, <1>18, <1>19, <1>21, <1>22, <1>23, <1>24
       DEF Next, Handler, SweepStep

-----------------------------------------------------------------------------
(* What a step does to the sockets: one of them moves on, or none does,    *)
(* and a socket in the table keeps what it was let in as.                  *)
Same(j) == sock'[j].kind = sock[j].kind /\ sock'[j].s = sock[j].s

LEMMA SocketsStep ==
  ASSUME TypeOK, NothingIsOutOfReach, SocketsKnown, [Next]_vars
  PROVE  /\ SocketsKnown'
         /\ \A j \in table : j \in table' => Same(j)
  <1>1. CASE sock' = sock
    BY <1>1 DEF Same, SocketsKnown
  <1>2. ASSUME NEW k \in Sockets, NEW at \in {"open", "shell", "left"}, Moves(k, at),
               sock[k].at \in LetIn
        PROVE  SocketsKnown' /\ \A j \in table : j \in table' => Same(j)
    <2>1. /\ \A j \in Sockets : j # k => sock'[j] = sock[j]
          /\ sock'[k].at = at /\ sock'[k].kind = sock[k].kind /\ sock'[k].s = sock[k].s
      BY <1>2, MovesOne
    <2>2. table \subseteq Sockets
      BY DEF TypeOK
    <2> QED
      BY <1>2, <2>1, <2>2 DEF Same, SocketsKnown
  <1>3. ASSUME NEW k \in Sockets, sock' = [sock EXCEPT ![k] = Gone], k \notin table'
        PROVE  SocketsKnown' /\ \A j \in table : j \in table' => Same(j)
    <2>1. (\A j \in Sockets : j # k => sock'[j] = sock[j]) /\ sock'[k].at = "ended"
      BY <1>3, EndsOne
    <2>2. table \subseteq Sockets
      BY DEF TypeOK
    <2> QED
      BY <1>3, <2>1, <2>2 DEF Same, SocketsKnown, LetIn
  <1>4. ASSUME NEW k \in Sockets, Register(k)
        PROVE  SocketsKnown' /\ \A j \in table : j \in table' => Same(j)
    <2>1. sock[k].at = "upgraded" /\ (Moves(k, "open") \/ (sock' = [sock EXCEPT ![k] = Gone] /\ table' = table))
      BY <1>4 DEF Register, Moves
    <2>2. k \notin table
      BY <2>1 DEF NothingIsOutOfReach
    <2> QED
      BY <1>2, <1>3, <2>1, <2>2 DEF LetIn
  <1>5. ASSUME NEW k \in Sockets, NEW s \in Ids, Upgrade(k, s)
        PROVE  SocketsKnown' /\ \A j \in table : j \in table' => Same(j)
    <2>1. /\ \A j \in Sockets : j # k => sock'[j] = sock[j]
          /\ sock[k].at = "new" /\ sock'[k].at = "upgraded" /\ sock'[k].s \in Ids
      BY <1>5, UpgradesOne
    <2>2. table \subseteq Sockets /\ k \notin table
      BY <2>1 DEF TypeOK, NothingIsOutOfReach
    <2> QED
      BY <2>1, <2>2 DEF Same, SocketsKnown
  <1>6. ASSUME NEW k \in Sockets, Release(k)
        PROVE  SocketsKnown' /\ \A j \in table : j \in table' => Same(j)
    BY <1>3, <1>6 DEF Release
  <1>7. ASSUME NEW k \in Sockets, TerminalEnds(k) \/ StreamEnds(k) \/ CreateSession(k)
        PROVE  SocketsKnown' /\ \A j \in table : j \in table' => Same(j)
    <2>1. sock[k].at \in LetIn /\ \E at \in {"open", "shell", "left"} : Moves(k, at)
      BY <1>7 DEF TerminalEnds, StreamEnds, CreateSession, Moves, LetIn
    <2> QED
      BY <1>2, <2>1
  <1>8. ASSUME NEW s \in Ids, CloseForAsker(s) PROVE sock' = sock
    BY <1>8 DEF CloseForAsker, CloseMatching
  <1>9. ASSUME SweepStep PROVE sock' = sock
    BY <1>9 DEF SweepStep, SweepBegins, SweepFinds, SweepFails, Look, SweepCloses, CloseMatching, conns
  <1>10. ASSUME NEW s \in Ids, NEW what \in {"logout", "password"},
               \/ SetupBegins(s) \/ SetupEnds(s) \/ Login(s) \/ Expire(s) \/ Ask(s, what)
               \/ DeleteSessions(s) \/ DeleteExpiredSessions \/ ResetPassword
        PROVE  sock' = sock
    BY <1>10 DEF SetupBegins, SetupEnds, Login, Expire, Ask, DeleteSessions,
         DeleteExpiredSessions, ResetPassword, Authentication, conns
  <1>11. ASSUME NEW k \in Sockets, ClientGone(k) \/ ShellExits(k) \/ Reap(k) PROVE sock' = sock
    BY <1>11 DEF ClientGone, ShellExits, Reap, conns
  <1>12. ASSUME UNCHANGED vars PROVE sock' = sock
    BY <1>12 DEF vars, conns
  <1>13. ASSUME DeleteExpiredSessions \/ ResetPassword PROVE sock' = sock
    BY <1>13 DEF DeleteExpiredSessions, ResetPassword, Authentication, conns
  <1> QED
    BY <1>1, <1>4, <1>5, <1>6, <1>7, <1>8, <1>9, <1>10, <1>11, <1>12, <1>13 DEF Next, Handler

(* Of the steps, those that change the tables and the counts.              *)
LEMMA TablesStep ==
  ASSUME TypeOK, [Next]_vars
  PROVE  \/ UNCHANGED <<wire, table, count>>
         \/ \E k \in Sockets, s \in Ids : Upgrade(k, s)
         \/ \E k \in Sockets : Register(k) \/ Release(k) \/ ClientGone(k)
         \/ \E m \in {1, 2} : \E S : CloseMatching(m, S)
  <1>1. ASSUME NEW k \in Sockets, TerminalEnds(k) \/ StreamEnds(k) \/ CreateSession(k) \/ ShellExits(k) \/ Reap(k)
        PROVE  UNCHANGED <<wire, table, count>>
    BY <1>1 DEF TerminalEnds, StreamEnds, CreateSession, ShellExits, Reap, conns
  <1>2. ASSUME NEW s \in Ids, CloseForAsker(s) PROVE \E m \in {1, 2} : \E S : CloseMatching(m, S)
    <2>1. asker[s].m \in {1, 2}
      BY <1>2 DEF CloseForAsker, TypeOK
    <2> QED
      BY <1>2, <2>1 DEF CloseForAsker
  <1>3. ASSUME SweepCloses PROVE \E m \in {1, 2} : \E S : CloseMatching(m, S)
    BY <1>3 DEF SweepCloses, TypeOK
  <1>4. ASSUME NEW s \in Ids, SweepBegins \/ SweepFinds(s) \/ SweepFails(s)
        PROVE  UNCHANGED <<wire, table, count>>
    BY <1>4 DEF SweepBegins, SweepFinds, SweepFails, Look, conns
  <1>5. ASSUME SweepBegins PROVE UNCHANGED <<wire, table, count>>
    BY <1>5 DEF SweepBegins, conns
  <1>6. ASSUME NEW s \in Ids, NEW what \in {"logout", "password"},
               \/ SetupBegins(s) \/ SetupEnds(s) \/ Login(s) \/ Expire(s) \/ Ask(s, what)
               \/ DeleteSessions(s)
        PROVE  UNCHANGED <<wire, table, count>>
    BY <1>6 DEF SetupBegins, SetupEnds, Login, Expire, Ask, DeleteSessions, Authentication, conns
  <1>7. ASSUME DeleteExpiredSessions \/ ResetPassword \/ UNCHANGED vars PROVE UNCHANGED <<wire, table, count>>
    BY <1>7 DEF DeleteExpiredSessions, ResetPassword, Authentication, conns, vars
  <1> QED
    BY <1>1, <1>2, <1>3, <1>4, <1>5, <1>6, <1>7 DEF Next, Handler, SweepStep

-----------------------------------------------------------------------------
(* The counts: nothing else changes when a socket goes in or some go out.  *)
LEMMA MeteredFinite ==
  ASSUME TablesAreFinite, NEW m
  PROVE  IsFiniteSet(MeteredIn(m)) /\ Cardinality(MeteredIn(m)) \in Nat
  <1>1. MeteredIn(m) \in SUBSET table
    BY DEF MeteredIn, Of
  <1>2. IsFiniteSet(MeteredIn(m))
    BY <1>1, FS_Subset DEF TablesAreFinite
  <1> QED
    BY <1>2, FS_CardinalityType

LEMMA CountsOut ==
  ASSUME TypeOK, TablesAreFinite, CountsAreExact, NEW m \in {1, 2}, NEW K \in SUBSET Of(m),
         table' = table \ K, count' = [count EXCEPT ![m] = @ - Counted(K)],
         \A j \in table : j \in table' => Same(j)
  PROVE  CountsAreExact'
  <1> DEFINE C == {k \in K : Metered(k)}
  <1>1. MeteredIn(m)' = MeteredIn(m) \ C /\ MeteredIn(m) \cap C = C
    BY DEF MeteredIn, Of, Metered, Same
  <1>2. ASSUME NEW o \in {1, 2}, o # m PROVE MeteredIn(o)' = MeteredIn(o)
    BY <1>2 DEF MeteredIn, Of, Metered, Same
  <1>3. Cardinality(MeteredIn(m)') = Cardinality(MeteredIn(m)) - Cardinality(C)
    BY <1>1, MeteredFinite, FS_Difference
  <1>4. C \in SUBSET MeteredIn(m)
    BY <1>1
  <1>5. IsFiniteSet(C)
    BY <1>4, MeteredFinite, FS_Subset
  <1>6. Cardinality(C) \in Nat
    BY <1>5, FS_CardinalityType
  <1>7. count[1] \in Int /\ count[2] \in Int /\ count' = [count EXCEPT ![m] = @ - Cardinality(C)]
        /\ count \in [{1, 2} -> Int]
    BY DEF TypeOK, Counted
  <1>8. \A o \in {1, 2} : count[o] = Cardinality(MeteredIn(o)) /\ count[o] <= Limit
    BY DEF CountsAreExact, MeteredIn
  <1>9. count'[m] = Cardinality(MeteredIn(m)') /\ count'[m] <= Limit
    <2> HIDE DEF C
    <2>1. count'[m] = count[m] - Cardinality(C)
      BY <1>7
    <2> QED
      BY <2>1, <1>3, <1>6, <1>7, <1>8, MeteredFinite, SessionAssumption
  <1>10. ASSUME NEW o \in {1, 2}, o # m PROVE count'[o] = Cardinality(MeteredIn(o)') /\ count'[o] <= Limit
    BY <1>2, <1>7, <1>8, <1>10
  <1> QED
    BY <1>9, <1>10 DEF CountsAreExact, MeteredIn

LEMMA CountsIn ==
  ASSUME TypeOK, TablesAreFinite, CountsAreExact, NothingIsOutOfReach, NEW k \in Sockets, Register(k)
  PROVE  CountsAreExact'
  <1> DEFINE C == {j \in {k} : Metered(j)}
  <1>1. k \notin table
    BY DEF NothingIsOutOfReach, Register
  <1>2. PICK m \in {1, 2} : m = ManagerOf(sock[k].kind)
    BY DEF ManagerOf
  <1>3. CASE Metered(k) /\ ~MayAdd(m)
    <2>1. sock' = [sock EXCEPT ![k] = Gone] /\ table' = table /\ count' = count
      BY <1>2, <1>3 DEF Register
    <2>2. \A j \in table : sock'[j] = sock[j]
      BY <1>1, <2>1, EndsOne DEF TypeOK
    <2>3. \A o \in {1, 2} : MeteredIn(o)' = MeteredIn(o)
      BY <1>2, <2>1, <2>2 DEF MeteredIn, Of, Metered
    <2> QED
      BY <2>1, <2>3 DEF CountsAreExact, MeteredIn
  <1>4. CASE ~(Metered(k) /\ ~MayAdd(m))
    <2>1. Moves(k, "open") /\ table' = table \cup {k} /\ count' = [count EXCEPT ![m] = @ + Cardinality(C)]
      BY <1>2, <1>4 DEF Register, Moves, Counted
    <2>2. (\A j \in table : sock'[j] = sock[j]) /\ sock'[k].kind = sock[k].kind
      BY <1>1, <2>1, MovesOne DEF TypeOK
    <2>3. \A o \in {1, 2} : o # m => MeteredIn(o)' = MeteredIn(o)
      BY <1>2, <2>1, <2>2 DEF MeteredIn, Of, Metered
    <2>4. CASE Metered(k)
      <3>1. MeteredIn(m)' = MeteredIn(m) \cup {k} /\ k \notin MeteredIn(m)
        BY <1>1, <1>2, <2>1, <2>2, <2>4 DEF MeteredIn, Of, Metered
      <3>2. Cardinality(MeteredIn(m)') = Cardinality(MeteredIn(m)) + 1
        BY <3>1, MeteredFinite, FS_AddElement
      <3>3. Cardinality(C) = 1
        <4>1. C = {k}
          BY <2>4
        <4> QED
          BY <4>1, FS_Singleton
      <3>4. count[m] < Limit
        BY <1>4, <2>4 DEF MayAdd
      <3>5. count \in [{1, 2} -> Int] /\ \A o \in {1, 2} : count[o] = Cardinality(MeteredIn(o)) /\ count[o] <= Limit
        BY DEF TypeOK, CountsAreExact, MeteredIn
      <3> HIDE DEF C
      <3>6. count'[m] = count[m] + 1 /\ \A o \in {1, 2} : o # m => count'[o] = count[o]
        BY <1>2, <2>1, <3>3, <3>5
      <3>7. count'[m] = Cardinality(MeteredIn(m)') /\ count'[m] <= Limit
        BY <1>2, <3>2, <3>4, <3>5, <3>6, SessionAssumption
      <3>8. \A o \in {1, 2} : o # m => count'[o] = Cardinality(MeteredIn(o)') /\ count'[o] <= Limit
        BY <2>3, <3>5, <3>6
      <3>9. \A o \in {1, 2} : count'[o] = Cardinality(MeteredIn(o)') /\ count'[o] <= Limit
        BY <1>2, <3>7, <3>8
      <3> QED
        BY <3>9 DEF CountsAreExact, MeteredIn
    <2>5. CASE ~Metered(k)
      <3>1. MeteredIn(m)' = MeteredIn(m)
        BY <1>1, <1>2, <2>1, <2>2, <2>5 DEF MeteredIn, Of, Metered
      <3>2. Cardinality(C) = 0
        <4>1. C = {}
          BY <2>5
        <4> QED
          BY <4>1, FS_EmptySet
      <3>3. count \in [{1, 2} -> Int]
        BY DEF TypeOK
      <3> HIDE DEF C
      <3>4. count' = count
        BY <1>2, <2>1, <3>2, <3>3
      <3>5. \A o \in {1, 2} : MeteredIn(o)' = MeteredIn(o)
        BY <2>3, <3>1
      <3> QED
        BY <3>4, <3>5 DEF CountsAreExact, MeteredIn
    <2> QED
      BY <2>4, <2>5
  <1> QED
    BY <1>3, <1>4

(* Every step preserves the counts.                                        *)
LEMMA CountsStep ==
  ASSUME TypeOK, SocketsKnown, TablesAreFinite, CountsAreExact, NothingIsOutOfReach, [Next]_vars
  PROVE  CountsAreExact' /\ IsFiniteSet(table)'
  <1>a. \A j \in table : j \in table' => Same(j)
    BY SocketsStep
  <1>1. ASSUME table' = table, count' = count PROVE CountsAreExact' /\ IsFiniteSet(table)'
    <2>1. \A m \in {1, 2} : MeteredIn(m)' = MeteredIn(m)
      BY <1>a, <1>1 DEF MeteredIn, Of, Metered, Same
    <2> QED
      BY <1>1, <2>1 DEF CountsAreExact, MeteredIn, TablesAreFinite
  <1>2. ASSUME NEW k \in Sockets, Register(k) PROVE CountsAreExact' /\ IsFiniteSet(table)'
    <2>1. table' = table \/ table' = table \cup {k}
      BY <1>2 DEF Register
    <2> QED
      BY <1>2, <2>1, CountsIn, FS_AddElement DEF TablesAreFinite
  <1>3. ASSUME NEW m \in {1, 2}, NEW K \in SUBSET Of(m), table' = table \ K,
               count' = [count EXCEPT ![m] = @ - Counted(K)]
        PROVE  CountsAreExact' /\ IsFiniteSet(table)'
    <2>1. table' \in SUBSET table
      BY <1>3
    <2>2. CountsAreExact'
      BY <1>a, <1>3, CountsOut
    <2> QED
      BY <2>1, <2>2, FS_Subset DEF TablesAreFinite
  <1>4. ASSUME NEW k \in Sockets, Release(k) PROVE CountsAreExact' /\ IsFiniteSet(table)'
    <2> DEFINE m == ManagerOf(sock[k].kind)
               K == {k} \cap table
    <2>1. table' = table \ K /\ count' = [count EXCEPT ![m] = @ - Counted(K)]
      BY <1>4 DEF Release
    <2>2. m \in {1, 2} /\ K \in SUBSET Of(m)
      BY DEF ManagerOf, Of
    <2> HIDE DEF m, K
    <2> QED
      BY <1>3, <2>1, <2>2
  <1>5. ASSUME NEW m \in {1, 2}, NEW S, CloseMatching(m, S) PROVE CountsAreExact' /\ IsFiniteSet(table)'
    <2> DEFINE K == {k \in Of(m) : sock[k].s \in S}
    <2>1. table' = table \ K /\ count' = [count EXCEPT ![m] = @ - Counted(K)]
      BY <1>5 DEF CloseMatching
    <2>2. K \in SUBSET Of(m)
      OBVIOUS
    <2> HIDE DEF K
    <2> QED
      BY <1>3, <2>1, <2>2
  <1>6. ASSUME NEW k \in Sockets, NEW s \in Ids, Upgrade(k, s) \/ ClientGone(k) PROVE table' = table /\ count' = count
    BY <1>6 DEF Upgrade, ClientGone
  <1>7. ASSUME NEW k \in Sockets, ClientGone(k) PROVE table' = table /\ count' = count
    BY <1>7 DEF ClientGone
  <1> QED
    BY <1>1, <1>2, <1>4, <1>5, <1>6, <1>7, TablesStep

-----------------------------------------------------------------------------
(* The reach: what serves a socket is in the table of its manager, what    *)
(* runs has a handler, and there is one user.                              *)
TablesInReach ==
  /\ \A k \in wire : sock[k].at \in {"open", "shell"} => k \in table
  /\ \A k \in table : sock[k].at \in {"open", "shell", "left"}
ShellsInReach == shells \subseteq entry /\ \A k \in entry : sock[k].at = "shell"

LEMMA ReachStep ==
  ASSUME TypeOK, NothingIsOutOfReach, [Next]_vars
  PROVE  TablesInReach' /\ ShellsInReach'
  <1> DEFINE R == TablesInReach' /\ ShellsInReach'
  <1>a. table \subseteq Sockets /\ wire \subseteq Sockets /\ entry \subseteq Sockets
    BY DEF TypeOK
  <1>b. TablesInReach /\ ShellsInReach
    BY DEF NothingIsOutOfReach, TablesInReach, ShellsInReach
  <1> USE DEF TablesInReach, ShellsInReach
  <1>1. ASSUME sock' = sock, entry' = entry, shells' \subseteq shells,
               \/ table' = table /\ wire' \subseteq wire
               \/ \E K : table' = table \ K /\ wire' = wire \ K
        PROVE  R
    BY <1>1, <1>b
  <1>2. ASSUME NEW k \in Sockets, NEW s \in Ids, Upgrade(k, s) PROVE R
    <2>1. /\ \A j \in Sockets : j # k => sock'[j] = sock[j]
          /\ sock[k].at = "new" /\ sock'[k].at = "upgraded"
      BY <1>2, UpgradesOne
    <2>2. table' = table /\ wire' = wire \cup {k} /\ entry' = entry /\ shells' = shells
      BY <1>2 DEF Upgrade, terms
    <2> QED
      BY <2>1, <2>2, <1>a, <1>b
  <1>3. ASSUME NEW k \in Sockets, sock' = [sock EXCEPT ![k] = Gone],
               \/ wire' = wire \ {k} /\ table' = table /\ k \notin table
               \/ wire' = wire \ {k} /\ table' = table \ {k},
               entry' = entry, shells' = shells, k \notin entry
        PROVE  R
    <2>1. \A j \in Sockets : j # k => sock'[j] = sock[j]
      BY <1>3, EndsOne
    <2> QED
      BY <2>1, <1>3, <1>a, <1>b
  <1>4. ASSUME NEW k \in Sockets, Register(k) PROVE R
    <2>1. sock[k].at = "upgraded" /\ entry' = entry /\ shells' = shells
      BY <1>4 DEF Register, terms
    <2>2. k \notin table /\ k \notin entry
      BY <2>1, <1>b
    <2>3. CASE sock' = [sock EXCEPT ![k] = Gone] /\ wire' = wire \ {k} /\ table' = table
      BY <1>3, <2>1, <2>2, <2>3
    <2>4. CASE Moves(k, "open") /\ wire' = wire /\ table' = table \cup {k}
      <3>1. (\A j \in Sockets : j # k => sock'[j] = sock[j]) /\ sock'[k].at = "open"
        BY <2>4, MovesOne
      <3> QED
        BY <3>1, <2>1, <2>2, <2>4, <1>a, <1>b
    <2> QED
      BY <1>4, <2>3, <2>4 DEF Register, Moves
  <1>5. ASSUME NEW k \in Sockets, Release(k) PROVE R
    <2>1. entry' = entry /\ shells' = shells /\ k \notin entry
      BY <1>5, <1>b DEF Release, terms
    <2> QED
      BY <1>3, <1>5, <2>1 DEF Release
  <1>6. ASSUME NEW k \in Sockets, TerminalEnds(k) PROVE R
    <2>1. (\A j \in Sockets : j # k => sock'[j] = sock[j]) /\ sock'[k].at = "left"
      BY <1>6, MovesOne DEF TerminalEnds, Moves
    <2>2. table' = table /\ wire' = wire /\ entry' = entry \ {k} /\ shells' = shells \ CloseSession(k)
      BY <1>6 DEF TerminalEnds, CloseSession
    <2>3. shells' \subseteq entry'
      BY <2>2, <1>b DEF CloseSession
    <2> QED
      BY <2>1, <2>2, <2>3, <1>a, <1>b
  <1>7. ASSUME NEW k \in Sockets, StreamEnds(k) PROVE R
    <2>1. (\A j \in Sockets : j # k => sock'[j] = sock[j]) /\ sock'[k].at = "left"
      BY <1>7, MovesOne DEF StreamEnds, Moves
    <2>2. table' = table /\ wire' = wire /\ entry' = entry /\ shells' = shells /\ k \notin entry
      BY <1>7, <1>b DEF StreamEnds, terms
    <2> QED
      BY <2>1, <2>2, <1>a, <1>b
  <1>8. ASSUME NEW k \in Sockets, CreateSession(k) PROVE R
    <2>1. table' = table /\ wire' = wire /\ sock[k].at = "open"
      BY <1>8 DEF CreateSession
    <2>2. CASE Moves(k, "shell") /\ shells' = shells \cup {k} /\ entry' = entry \cup {k}
      <3>1. (\A j \in Sockets : j # k => sock'[j] = sock[j]) /\ sock'[k].at = "shell"
        BY <2>2, MovesOne
      <3> QED
        BY <3>1, <2>1, <2>2, <1>a, <1>b
    <2>3. CASE Moves(k, "left") /\ shells' = shells /\ entry' = entry
      <3>1. (\A j \in Sockets : j # k => sock'[j] = sock[j]) /\ sock'[k].at = "left"
        BY <2>3, MovesOne
      <3> QED
        BY <3>1, <2>1, <2>3, <1>a, <1>b
    <2> QED
      BY <1>8, <2>2, <2>3 DEF CreateSession, Moves
  <1>9. ASSUME NEW k \in Sockets, Reap(k) PROVE R
    BY <1>9, <1>b DEF Reap, conns
  <1>10. ASSUME NEW k \in Sockets, ClientGone(k) \/ ShellExits(k) PROVE R
    BY <1>10, <1>1 DEF ClientGone, ShellExits, conns, terms
  <1>11. ASSUME NEW m, NEW S, CloseMatching(m, S), UNCHANGED terms PROVE R
    BY <1>11, <1>1 DEF CloseMatching, terms
  <1>12. ASSUME NEW s \in Ids, CloseForAsker(s) PROVE R
    BY <1>11, <1>12 DEF CloseForAsker
  <1>13. ASSUME NEW s \in Ids, SweepFinds(s) \/ SweepFails(s) PROVE R
    BY <1>1, <1>13 DEF SweepFinds, SweepFails, Look, conns, terms
  <1>14. ASSUME SweepStep PROVE R
    <2>1. ASSUME SweepBegins PROVE R
      BY <1>1, <2>1 DEF SweepBegins, conns, terms
    <2>2. ASSUME SweepCloses PROVE R
      BY <1>11, <2>2 DEF SweepCloses
    <2> QED
      BY <1>13, <1>14, <2>1, <2>2 DEF SweepStep
  <1>15. ASSUME NEW s \in Ids, NEW what \in {"logout", "password"},
               \/ SetupBegins(s) \/ SetupEnds(s) \/ Login(s) \/ Expire(s) \/ Ask(s, what)
               \/ DeleteSessions(s)
        PROVE  R
    BY <1>1, <1>15 DEF SetupBegins, SetupEnds, Login, Expire, Ask, DeleteSessions, Authentication, conns, terms
  <1>16. ASSUME DeleteExpiredSessions \/ ResetPassword \/ UNCHANGED vars PROVE R
    BY <1>1, <1>16 DEF DeleteExpiredSessions, ResetPassword, Authentication, conns, terms, vars
  <1> HIDE DEF TablesInReach, ShellsInReach
  <1> QED
    BY <1>2, <1>4, <1>5, <1>6, <1>7, <1>8, <1>9, <1>10, <1>12, <1>14, <1>15, <1>16 DEF Next, Handler

(* The shells stay within the ceiling of the host.                         *)
LEMMA ShellsStep ==
  ASSUME NothingIsOutOfReach, TablesAreFinite, [Next]_vars
  PROVE  IsFiniteSet(entry)' /\ Cardinality(entry)' <= MaxShells
  <1> DEFINE R == IsFiniteSet(entry)' /\ Cardinality(entry)' <= MaxShells
  <1>a. IsFiniteSet(entry) /\ Cardinality(entry) \in Nat /\ Cardinality(entry) <= MaxShells
    BY FS_CardinalityType DEF TablesAreFinite, NothingIsOutOfReach
  <1>1. ASSUME entry' \in SUBSET entry PROVE R
    <2>1. IsFiniteSet(entry') /\ Cardinality(entry') <= Cardinality(entry)
      BY <1>1, <1>a, FS_Subset
    <2>2. Cardinality(entry') \in Nat
      BY <2>1, FS_CardinalityType
    <2> QED
      BY <2>1, <2>2, <1>a, SessionAssumption
  <1>2. ASSUME NEW k \in Sockets, CreateSession(k) PROVE R
    <2>1. CASE Cardinality(entry) < MaxShells /\ entry' = entry \cup {k}
      <3>1. /\ IsFiniteSet(entry')
            /\ Cardinality(entry') = IF k \in entry THEN Cardinality(entry) ELSE Cardinality(entry) + 1
        BY <2>1, <1>a, FS_AddElement
      <3> QED
        BY <2>1, <3>1, <1>a, SessionAssumption
    <2>2. CASE entry' = entry
      BY <1>1, <2>2
    <2> QED
      BY <1>2, <2>1, <2>2 DEF CreateSession
  <1>3. ASSUME NEW k \in Sockets, NEW s \in Ids, NEW what \in {"logout", "password"},
               \/ SetupBegins(s) \/ SetupEnds(s) \/ Login(s) \/ Expire(s) \/ Ask(s, what)
               \/ DeleteSessions(s) \/ CloseForAsker(s) \/ SweepFinds(s) \/ SweepFails(s)
               \/ Upgrade(k, s)
        PROVE  entry' \in SUBSET entry
    BY <1>3 DEF SetupBegins, SetupEnds, Login, Expire, Ask, DeleteSessions, CloseForAsker, Authentication,
       SweepFinds, SweepFails, Look, Upgrade, terms
  <1>4. ASSUME NEW k \in Sockets,
               \/ Register(k) \/ Release(k) \/ TerminalEnds(k) \/ ClientGone(k) \/ StreamEnds(k)
               \/ ShellExits(k) \/ Reap(k)
        PROVE  entry' \in SUBSET entry
    BY <1>4 DEF Register, Release, TerminalEnds, ClientGone, StreamEnds, ShellExits, Reap, terms
  <1>5. ASSUME DeleteExpiredSessions \/ ResetPassword \/ SweepBegins \/ SweepCloses \/ UNCHANGED vars
        PROVE  entry' \in SUBSET entry
    BY <1>5 DEF DeleteExpiredSessions, ResetPassword, SweepBegins, SweepCloses, Authentication, terms, vars
  <1>6. ASSUME NEW s \in Ids,
               \/ SetupBegins(s) \/ SetupEnds(s) \/ Login(s) \/ Expire(s) \/ Ask(s, "logout")
               \/ Ask(s, "password") \/ DeleteSessions(s) \/ CloseForAsker(s) \/ SweepFinds(s) \/ SweepFails(s)
        PROVE  entry' \in SUBSET entry
    BY <1>6 DEF SetupBegins, SetupEnds, Login, Expire, Ask, DeleteSessions, CloseForAsker, Authentication,
       SweepFinds, SweepFails, Look, terms
  <1> HIDE DEF R
  <1> QED
    BY <1>1, <1>2, <1>3, <1>4, <1>5, <1>6 DEF Next, Handler, SweepStep, R

(* Only a set-up that finds no user makes one.                             *)
LEMMA UsersStep ==
  ASSUME TypeOK, NothingIsOutOfReach, [Next]_vars
  PROVE  (users <= 1)'
  <1>a. users \in Nat /\ users <= 1
    BY DEF TypeOK, NothingIsOutOfReach
  <1>1. ASSUME NEW s \in Ids, SetupEnds(s) PROVE (users <= 1)'
    BY <1>1, <1>a DEF SetupEnds, MayCreateFirstUser
  <1>2. ASSUME NEW s \in Ids,
               \/ SetupBegins(s) \/ Login(s) \/ Expire(s) \/ Ask(s, "logout")
               \/ Ask(s, "password") \/ DeleteSessions(s) \/ CloseForAsker(s) \/ SweepFinds(s) \/ SweepFails(s)
        PROVE  users' = users
    BY <1>2 DEF SetupBegins, Login, Expire, Ask, DeleteSessions, CloseForAsker, SweepFinds, SweepFails, Look, auth
  <1>3. ASSUME NEW k \in Sockets, NEW s \in Ids, Upgrade(k, s) PROVE users' = users
    BY <1>3 DEF Upgrade, auth
  <1>4. ASSUME NEW k \in Sockets,
               \/ Register(k) \/ Release(k) \/ TerminalEnds(k) \/ ClientGone(k) \/ StreamEnds(k)
               \/ ShellExits(k) \/ Reap(k) \/ CreateSession(k)
        PROVE  users' = users
    BY <1>4 DEF Register, Release, TerminalEnds, ClientGone, StreamEnds, ShellExits, Reap, CreateSession, auth
  <1>5. ASSUME DeleteExpiredSessions \/ ResetPassword \/ SweepBegins \/ SweepCloses \/ UNCHANGED vars
        PROVE  users' = users
    BY <1>5 DEF DeleteExpiredSessions, ResetPassword, SweepBegins, SweepCloses, auth, vars
  <1> QED
    BY <1>a, <1>1, <1>2, <1>3, <1>4, <1>5 DEF Next, Handler, SweepStep

-----------------------------------------------------------------------------
LEMMA InitIInv == Init => SessionIInv
  <1> SUFFICES ASSUME Init PROVE SessionIInv
    OBVIOUS
  <1> USE SessionAssumption DEF Init
  <1>1. TypeOK
    BY DEF TypeOK, Asks, Idle
  <1>2. SocketsKnown /\ TablesAreFinite
    BY FS_EmptySet DEF SocketsKnown, TablesAreFinite, LetIn
  <1>3. CountsAreExact
    <2>1. \A m \in {1, 2} : {k \in Of(m) : Metered(k)} = {}
      BY DEF Of
    <2>2. \A m \in {1, 2} : count[m] = 0 /\ 0 <= Limit
      OBVIOUS
    <2>3. Cardinality({}) = 0
      BY FS_EmptySet
    <2> QED
      BY <2>1, <2>2, <2>3 DEF CountsAreExact
  <1>4. NothingIsOutOfReach
    BY FS_EmptySet DEF NothingIsOutOfReach
  <1> QED
    BY <1>1, <1>2, <1>3, <1>4 DEF SessionIInv

LEMMA StepIInv == SessionIInv /\ [Next]_vars => SessionIInv'
  <1> SUFFICES ASSUME SessionIInv, [Next]_vars PROVE SessionIInv'
    OBVIOUS
  <1> USE DEF SessionIInv
  <1>1. TypeOK' /\ SocketsKnown' /\ CountsAreExact'
    BY TypeStep, SocketsStep, CountsStep
  <1>2. TablesAreFinite'
    BY CountsStep, ShellsStep DEF TablesAreFinite
  <1>3. NothingIsOutOfReach'
    <2>1. TablesInReach' /\ ShellsInReach' /\ Cardinality(entry)' <= MaxShells /\ (users <= 1)'
      BY ReachStep, ShellsStep, UsersStep
    <2> QED
      BY <2>1 DEF NothingIsOutOfReach, TablesInReach, ShellsInReach
  <1> QED
    BY <1>1, <1>2, <1>3

(* In every state what the managers count is what they have, a socket that *)
(* is served is in the table a revocation searches, and a shell that runs  *)
(* has its entry and its handler (ws.go, terminal.go).                     *)
THEOREM ConnectionsCorrect == Spec => []ConnectionsInv
  <1>1. SessionIInv => ConnectionsInv
    BY DEF SessionIInv, ConnectionsInv
  <1> QED
    BY InitIInv, StepIInv, <1>1, PTL DEF Spec

-----------------------------------------------------------------------------
(* The sweep counts the failures that were in a row.                       *)
LEMMA SeenStep ==
  ASSUME SessionIInv, seen = failures, [Next]_vars
  PROVE  seen' = failures'
  <1> USE DEF SessionIInv
  <1>a. failures \in [Ids -> 0 .. FailLimit]
    BY DEF TypeOK
  <1>1. ASSUME NEW s \in Ids, SweepFinds(s) PROVE seen' = failures'
    BY <1>1, <1>a DEF SweepFinds, Look, AfterSuccess
  <1>2. ASSUME NEW s \in Ids, SweepFails(s) PROVE seen' = failures'
    <2>1. CASE failures[s] + 1 >= FailLimit
      BY <1>2, <1>a, <2>1 DEF SweepFails, Look
    <2>2. CASE ~(failures[s] + 1 >= FailLimit)
      BY <1>2, <1>a, <2>2 DEF SweepFails, Look
    <2> QED
      BY <2>1, <2>2
  <1>3. ASSUME SweepBegins PROVE seen' = failures'
    BY <1>3 DEF SweepBegins
  <1>4. ASSUME NEW s \in Ids,
               \/ SetupBegins(s) \/ SetupEnds(s) \/ Login(s) \/ Expire(s) \/ Ask(s, "logout")
               \/ Ask(s, "password") \/ DeleteSessions(s) \/ CloseForAsker(s)
        PROVE  seen' = failures'
    BY <1>4 DEF SetupBegins, SetupEnds, Login, Expire, Ask, DeleteSessions, CloseForAsker, Authentication, check
  <1>5. ASSUME NEW k \in Sockets, NEW s \in Ids, Upgrade(k, s) PROVE seen' = failures'
    BY <1>5 DEF Upgrade, check
  <1>6. ASSUME NEW k \in Sockets,
               \/ Register(k) \/ Release(k) \/ TerminalEnds(k) \/ ClientGone(k) \/ StreamEnds(k)
               \/ ShellExits(k) \/ Reap(k) \/ CreateSession(k)
        PROVE  seen' = failures'
    BY <1>6 DEF Register, Release, TerminalEnds, ClientGone, StreamEnds, ShellExits, Reap, CreateSession, check
  <1>7. ASSUME DeleteExpiredSessions \/ ResetPassword \/ SweepCloses \/ UNCHANGED vars
        PROVE  seen' = failures'
    BY <1>7 DEF DeleteExpiredSessions, ResetPassword, SweepCloses, Authentication, check, vars
  <1> QED
    BY <1>1, <1>2, <1>3, <1>4, <1>5, <1>6, <1>7 DEF Next, Handler, SweepStep

(* A step that picks a session to close has found it over, or has failed   *)
(* once more at the end of a row of failures.                              *)
SpareStep ==
  \A s \in Ids : sweep'.id = s /\ sweep.id = None => session[s] # "live" \/ seen[s] + 1 >= FailLimit

LEMMA SpareHolds ==
  ASSUME SessionIInv, seen = failures, [Next]_vars
  PROVE  SpareStep
  <1> USE SessionAssumption DEF SpareStep, SessionIInv
  <1>1. ASSUME sweep' = sweep PROVE SpareStep
    BY <1>1
  <1>2. ASSUME NEW s \in Ids, SweepFinds(s) PROVE SpareStep
    BY <1>2 DEF SweepFinds, StillSignedIn, Look
  <1>3. ASSUME NEW s \in Ids, SweepFails(s) PROVE SpareStep
    BY <1>3 DEF SweepFails, Look
  <1>4. ASSUME SweepBegins PROVE SpareStep
    BY <1>4 DEF SweepBegins, Idle
  <1>5. ASSUME SweepCloses PROVE SpareStep
    BY <1>5 DEF SweepCloses
  <1>6. ASSUME NEW s \in Ids,
               \/ SetupBegins(s) \/ SetupEnds(s) \/ Login(s) \/ Expire(s) \/ Ask(s, "logout")
               \/ Ask(s, "password") \/ DeleteSessions(s) \/ CloseForAsker(s)
        PROVE  sweep' = sweep
    BY <1>6 DEF SetupBegins, SetupEnds, Login, Expire, Ask, DeleteSessions, CloseForAsker, Authentication, check
  <1>7. ASSUME NEW k \in Sockets, NEW s \in Ids, Upgrade(k, s) PROVE sweep' = sweep
    BY <1>7 DEF Upgrade, check
  <1>8. ASSUME NEW k \in Sockets,
               \/ Register(k) \/ Release(k) \/ TerminalEnds(k) \/ ClientGone(k) \/ StreamEnds(k)
               \/ ShellExits(k) \/ Reap(k) \/ CreateSession(k)
        PROVE  sweep' = sweep
    BY <1>8 DEF Register, Release, TerminalEnds, ClientGone, StreamEnds, ShellExits, Reap, CreateSession, check
  <1>9. ASSUME DeleteExpiredSessions \/ ResetPassword \/ UNCHANGED vars PROVE sweep' = sweep
    BY <1>9 DEF DeleteExpiredSessions, ResetPassword, Authentication, check, vars
  <1> HIDE DEF SpareStep
  <1> QED
    BY <1>1, <1>2, <1>3, <1>4, <1>5, <1>6, <1>7, <1>8, <1>9 DEF Next, Handler, SweepStep

(* The sweep ends no session that it has found signed in, or has failed to *)
(* look up too few times in a row (sweepSessions of ws.go).                *)
THEOREM SignedInSpared == Spec => SweepSparesTheSignedIn
  <1>1. Init => seen = failures
    BY DEF Init
  <1>2. SessionIInv /\ seen = failures /\ [Next]_vars => (seen = failures)'
    BY SeenStep
  <1>3. SessionIInv /\ seen = failures /\ [Next]_vars
          => [\A s \in Ids : sweep'.id = s /\ sweep.id = None =>
                session[s] # "live" \/ seen[s] + 1 >= FailLimit]_vars
    BY SpareHolds DEF SpareStep
  <1> QED
    BY InitIInv, StepIInv, <1>1, <1>2, <1>3, PTL DEF Spec, SweepSparesTheSignedIn

-----------------------------------------------------------------------------
(***************************************************************************)
(* UpdateJobs.                                                             *)
(***************************************************************************)
(* The stages at which the job of the worker is at a container. *)
OnBox == {"begin", "pull", "apply", "up", "settle", "stop", "remove", "create",
          "start", "verify", "verified", "failed"}
Waits(r) == req[r] \in {"pushing", "queued"}
Works(r) == work.r = r /\ work.pc \in OnBox
Has(r, c) == \E k \in 1 .. Len(todo[r]) : todo[r][k] = c

(* One job at a time, and the queue before it. *)
Serial ==
  /\ work.r = Nil <=> work.pc = "idle"
  /\ \A r \in Posts : req[r] = "running" <=> work.r = r
  /\ \A r \in Posts :
       req[r] = "queued" <=> \E k \in 1 .. Len(queue) : queue[k] = r
  /\ \A j, k \in 1 .. Len(queue) : queue[j] = queue[k] => j = k

(* A job is in the table from its queueing to its eviction. *)
Kept ==
  /\ \A r \in Posts : Waits(r) \/ (work.r = r /\ work.pc # "close") => r \in known
  /\ \A r \in Posts : job[r].status \in Terminal =>
       req[r] = "over" \/ (work.r = r /\ work.pc = "close")
  /\ \A r \in known : req[r] \in {"pushing", "queued", "running", "over"}
  /\ work.pc = "close" /\ work.r \in known => job[work.r].status \in Terminal

(* A job holds the turns of what it has to do, and a prune holds them all. *)
Turned ==
  /\ pruning => AllFree
  /\ \A r \in Posts : IF Waits(r) \/ Works(r)
       THEN /\ todo[r] # <<>>
            /\ \A c \in Containers : Has(r, c) => turn[LockKey(c)] = r
       ELSE todo[r] = <<>>

Spared ==
  /\ PruneSparesUpdates
  /\ Doing("settle") => ~work.was
  /\ Doing("verify") /\ work.was => box[Cur] = "running"

Vouched ==
  /\ Containers \ cached \subseteq past.verified
  /\ Doing("verified") => Cur \in past.verified

Written == \A r \in Posts, c \in Containers :
  /\ ~writes => row[r][c] = "none"
  /\ row[r][c] = "pending" => Has(r, c)
  /\ req[r] \notin {"new", "refused", "lost"} /\ target[r] = StackOf[c] /\ c \in cached
       => ~writes \/ row[r][c] # "none" \/ Has(r, c)

Bad == {"failed", "skipped"}
Ended(r) ==
  \/ req[r] \in {"over", "lost"}
  \/ work.r = r /\ work.pc \in {"returned", "finish"} /\ work.err
  \/ work.r = r /\ work.pc = "close"
Blamed == \A r \in Posts, c \in Containers : row[r][c] \in Bad =>
  Ended(r) /\ job[r].status # "success"

Follows(c) == client[c].at = "open"

Subscribed ==
  /\ \A c \in Clients, r \in Posts : c \in subs[r] =>
       /\ Follows(c) /\ client[c].r = r /\ ~client[c].closed
       /\ r \in known /\ job[r].status \notin Terminal
  /\ \A c \in Clients : Follows(c) =>
       /\ client[c].r \in Posts /\ req[client[c].r] \notin {"new", "refused"}
       /\ \/ c \in subs[client[c].r]
          \/ client[c].closed /\ req[client[c].r] = "over"
          \/ Doing("close") /\ c \in work.subs
  /\ \A c \in Clients : client[c].at = "new" => client[c] = NoClient
  /\ \A c \in work.subs :
       Doing("close") /\ client[c].at # "new" /\ (Follows(c) => client[c].r = work.r)

(* A channel after the event last: in order, done only at its end, and     *)
(* nothing that comes after event n.                                       *)
Ordered(s, last) ==
  /\ \A k \in 1 .. Len(s) : last < s[k].n
  /\ \A j, k \in 1 .. Len(s) : j < k => s[j].n < s[k].n
  /\ \A k \in 1 .. Len(s) : s[k].done => k = Len(s)
UpTo(s, last, n) == last <= n /\ \A k \in 1 .. Len(s) : s[k].n <= n /\ ~s[k].done
Dense(s, last) == \A k \in 1 .. Len(s) : s[k].n = last + k
Told(s) == s # <<>> /\ s[Len(s)].done

InOrder(c) == Follows(c) =>
  /\ Ordered(client[c].ch, client[c].last)
  /\ c \in subs[client[c].r] => UpTo(client[c].ch, client[c].last, job[client[c].r].n)
Numbered == \A c \in Clients : InOrder(c)

Complete(c) ==
  /\ client[c].at # "cut"
  /\ Follows(c) =>
       /\ Dense(client[c].ch, client[c].last)
       /\ client[c].r \in known => job[client[c].r].n = client[c].last + Len(client[c].ch)
       /\ c \in subs[client[c].r] \/ Told(client[c].ch)
Gapless == \A c \in Clients \ past.full : Complete(c)

JobsIInv ==
  /\ JobsTypeOK /\ Serial /\ Kept /\ Turned /\ Spared /\ Vouched /\ Written /\ Blamed
  /\ Subscribed /\ Numbered /\ Gapless

-----------------------------------------------------------------------------
(* The records, the sequences and how a step changes them.                 *)
WorkType ==
  [r : Posts \cup {Nil}, pc : Stages, was : BOOLEAN, adv : BOOLEAN, any : BOOLEAN,
   err : BOOLEAN, subs : SUBSET Clients]
EventType == [n : Nat, done : BOOLEAN]
ClientType ==
  [at : {"new", "unknown", "open", "told", "cut", "gone"}, r : Posts \cup {Nil},
   ch : Seq(EventType), last : Nat, closed : BOOLEAN]
StateType ==
  [status : {"queued", "pulling", "recreating"} \cup Terminal,
   outcome : {"unset", "success", "no_change", "failed"}, n : Nat]
PastType == [verified : SUBSET Containers, full : SUBSET Clients]

LEMMA JobsRecords ==
  ASSUME JobsTypeOK
  PROVE  /\ work \in WorkType /\ client \in [Clients -> ClientType]
         /\ job \in [Posts -> StateType] /\ past \in PastType
  BY DEF JobsTypeOK, WorkType, ClientType, EventType, StateType, PastType

LEMMA JobsFirsts ==
  /\ NoWork \in WorkType /\ NoClient \in ClientType /\ NoJob \in StateType
  /\ NoWork.r = Nil /\ NoWork.pc = "idle" /\ NoWork.subs = {}
  /\ NoClient.at = "new" /\ ~NoClient.closed /\ NoClient.ch = <<>>
  /\ NoJob.status \notin Terminal
  <1>1. <<>> \in Seq(EventType)
    BY EmptySeq
  <1> QED
    BY <1>1 DEF NoWork, NoClient, NoJob, WorkType, ClientType, StateType, Stages, Terminal

LEMMA JobsHead ==
  ASSUME NEW S, NEW s \in Seq(S), s # <<>>
  PROVE  /\ Head(s) = s[1] /\ Head(s) \in S
         /\ Len(s) \in Nat \ {0} /\ 1 \in 1 .. Len(s)
         /\ Tail(s) \in Seq(S) /\ Len(Tail(s)) = Len(s) - 1
         /\ \A i \in 1 .. Len(Tail(s)) : Tail(s)[i] = s[i + 1] /\ i + 1 \in 1 .. Len(s)
         /\ \A i \in 1 .. Len(s) : i # 1 => i - 1 \in 1 .. Len(Tail(s)) /\ s[i] = Tail(s)[i - 1]
         /\ Len(s) = 1 => Tail(s) = <<>>
  <1>1. Len(s) \in Nat \ {0}
    BY EmptySeq
  <1>2. /\ Head(s) \in S /\ Tail(s) \in Seq(S) /\ Len(Tail(s)) = Len(s) - 1
        /\ \A i \in 1 .. Len(Tail(s)) : Tail(s)[i] = s[i + 1]
    BY HeadTailProperties
  <1>3. Head(s) = s[1]
    BY <1>1
  <1>4. \A i \in 1 .. Len(Tail(s)) : i + 1 \in 1 .. Len(s)
    BY <1>1, <1>2
  <1>5. \A i \in 1 .. Len(s) : i # 1 => i - 1 \in 1 .. Len(Tail(s)) /\ s[i] = Tail(s)[i - 1]
    BY <1>1, <1>2
  <1>6. Len(s) = 1 => Tail(s) = <<>>
    <2>1. Len(s) = 1 => Len(Tail(s)) \notin Nat \ {0}
      BY <1>2
    <2>2. \A seq \in Seq(S) : seq # <<>> => Len(seq) \in Nat \ {0}
      BY EmptySeq, Zenon
    <2> QED
      BY <1>2, <2>1, <2>2, Zenon
  <1> QED
    BY <1>1, <1>2, <1>3, <1>4, <1>5, <1>6

LEMMA JobsAppend ==
  ASSUME NEW S, NEW s \in Seq(S), NEW e \in S
  PROVE  /\ Append(s, e) \in Seq(S) /\ Append(s, e) # <<>>
         /\ Len(s) \in Nat /\ Len(Append(s, e)) = Len(s) + 1
         /\ \A i \in 1 .. Len(s) : Append(s, e)[i] = s[i]
         /\ Append(s, e)[Len(s) + 1] = e
         /\ \A i \in 1 .. Len(Append(s, e)) : i \in 1 .. Len(s) \/ i = Len(s) + 1
  <1>1. Len(s) \in Nat
    BY LenProperties
  <1>2. /\ Append(s, e) \in Seq(S) /\ Append(s, e) # <<>>
        /\ Len(Append(s, e)) = Len(s) + 1
        /\ \A i \in 1 .. Len(s) : Append(s, e)[i] = s[i]
        /\ Append(s, e)[Len(s) + 1] = e
    BY AppendProperties
  <1>3. \A i \in 1 .. Len(s) + 1 : i \in 1 .. Len(s) \/ i = Len(s) + 1
    BY <1>1
  <1> QED
    BY <1>1, <1>2, <1>3

LEMMA OneLong ==
  ASSUME NEW S, NEW e \in S
  PROVE  /\ <<e>> \in Seq(S) /\ <<e>> # <<>> /\ Len(<<e>>) = 1
         /\ \A k \in 1 .. Len(<<e>>) : <<e>>[k] = e
  OBVIOUS

(* The order in which the services of a stack are come to has them all.    *)
LEMMA OrderHasAll ==
  ASSUME NEW S \in SUBSET Containers, S # {}, NEW order \in SetToSeqs(S)
  PROVE  /\ order \in Seq(Containers) /\ order # <<>>
         /\ \A c \in Containers : c \in S <=> \E k \in 1 .. Len(order) : order[k] = c
  <1> DEFINE n == Cardinality(S)
  <1>1. IsFiniteSet(S) /\ n \in Nat /\ n # 0
    BY JobAssumption, FS_Subset, FS_CardinalityType, FS_EmptySet
  <1>2. order \in [1 .. n -> S] /\ \A i, j \in 1 .. n : i # j => order[i] # order[j]
    BY DEF SetToSeqs
  <1>3. order \in Seq(S) /\ Len(order) = n
    BY <1>1, <1>2
  <1>4. order \in Seq(Containers)
    BY <1>3, SeqMonotonic
  <1>5. order # <<>>
    BY <1>1, <1>3, EmptySeq
  <1>6. order \in Injection(1 .. n, S)
    BY <1>2, Zenon DEF Injection, IsInjective
  <1>7. Cardinality(1 .. n) = n
    BY <1>1, FS_Interval
  <1>8. order \in Surjection(1 .. n, S)
    BY <1>1, <1>6, <1>7, FS_Injection
  <1>9. \A c \in S : \E k \in 1 .. n : order[k] = c
    BY <1>8 DEF Surjection
  <1>10. \A k \in 1 .. n : order[k] \in S
    BY <1>2
  <1> QED
    BY <1>3, <1>4, <1>5, <1>9, <1>10

Onward(pcs) ==
  /\ work' \in WorkType /\ work'.r = work.r /\ work'.subs = work.subs /\ work'.pc \in pcs

LEMMA GoesTo ==
  ASSUME work \in WorkType, NEW pc \in Stages, Goto(pc)
  PROVE  /\ work' \in WorkType /\ work'.r = work.r /\ work'.subs = work.subs /\ work'.pc = pc
         /\ work'.was = work.was /\ work'.err = work.err
  BY DEF Goto, WorkType

(* What a step at a container may change, and how.                         *)
Apart == UNCHANGED <<req, writes, todo, target, known, queue, server, turn, pruning, cached,
                     subs, boots>>
AtBox ==
  \/ Inspect \/ Pull \/ Apply \/ ComposeUp \/ Settle \/ Stop \/ RemoveOld \/ Create
  \/ StartNew \/ Verify
AdvGoes(pc) == \E adv \in BOOLEAN : work' = [work EXCEPT !.adv = adv, !.pc = pc]

LEMMA GoesAdv ==
  ASSUME work \in WorkType, NEW pc \in Stages, AdvGoes(pc)
  PROVE  /\ work' \in WorkType /\ work'.r = work.r /\ work'.subs = work.subs /\ work'.pc = pc
         /\ work'.was = work.was
  BY DEF AdvGoes, WorkType

LEMMA StageNames ==
  OnBox \subseteq Stages /\ {"idle", "returned", "finish", "close"} \subseteq Stages
  BY DEF OnBox, Stages

LEMMA InspectGoes ==
  ASSUME JobsTypeOK, Inspect
  PROVE  /\ work.pc = "begin" /\ Onward({"pull", "failed"}) /\ Apart
         /\ UNCHANGED <<job, box, client, past>>
         /\ row' = IF Whole THEN Inserted(work.r, Cur) ELSE row
  <1>1. PICK pc \in {"pull", "failed"} :
          work' = [work EXCEPT !.pc = pc, !.was = box[Cur] = "running", !.adv = FALSE]
    BY DEF Inspect
  <1>2. work \in WorkType /\ pc \in Stages /\ (box[Cur] = "running") \in BOOLEAN
    BY JobsRecords DEF Stages
  <1>3. Onward({"pull", "failed"})
    <2> DEFINE was == box[Cur] = "running"
    <2>1. was \in BOOLEAN /\ work' = [work EXCEPT !.pc = pc, !.was = was, !.adv = FALSE]
      BY <1>1
    <2> HIDE DEF was
    <2> QED
      BY <2>1, <1>2 DEF WorkType, Onward
  <1> QED
    BY <1>3 DEF Inspect, Doing, Apart, jobs, docker, tables, sockets

LEMMA PullGoes ==
  ASSUME JobsTypeOK, Pull
  PROVE  /\ work.pc = "pull" /\ Onward({"apply", "failed"}) /\ Apart
         /\ UNCHANGED <<box, row>> /\ SetStatus(work.r, "pulling")
  <1>1. Onward({"apply", "failed"})
    BY JobsRecords, GoesTo DEF Pull, Onward, Stages
  <1> QED
    BY <1>1 DEF Pull, Doing, Apart, docker, tables

LEMMA ApplyGoes ==
  ASSUME JobsTypeOK, Apply
  PROVE  /\ work.pc = "apply" /\ Onward({"up", "stop", "remove"}) /\ Apart
         /\ work'.pc = "remove" => ~work'.was
         /\ UNCHANGED <<box, row>> /\ SetStatus(work.r, "recreating")
  <1> DEFINE pc == IF StackOf[Cur] # Nil THEN "up" ELSE IF work.was THEN "stop" ELSE "remove"
  <1>1. pc \in {"up", "stop", "remove"} /\ pc \in Stages /\ (pc = "remove" => ~work.was)
    BY DEF Stages
  <1>2. Goto(pc)
    BY DEF Apply
  <1> HIDE DEF pc
  <1>3. Onward({"up", "stop", "remove"}) /\ (work'.pc = "remove" => ~work'.was)
    BY <1>1, <1>2, JobsRecords, GoesTo DEF Onward
  <1> QED
    BY <1>3 DEF Apply, Doing, Apart, docker, tables

LEMMA ComposeUpGoes ==
  ASSUME JobsTypeOK, ComposeUp
  PROVE  /\ work.pc = "up" /\ Onward({"verify", "settle", "failed"}) /\ Apart
         /\ UNCHANGED <<job, row, client, past>>
         /\ \E b \in Boxes \cup {box[Cur]} : box' = [box EXCEPT ![Cur] = b]
         /\ work'.pc = "settle" => ~work'.was
         /\ work'.pc = "verify" => box' = [box EXCEPT ![Cur] = "running"]
  <1>1. work \in WorkType /\ {"verify", "settle", "failed"} \subseteq Stages
    BY JobsRecords DEF Stages
  <1> DEFINE pc == IF Whole \/ work.was THEN "verify" ELSE "settle"
  <1>2. CASE box' = [box EXCEPT ![Cur] = "running"] /\ AdvGoes(pc)
    <2>1. pc \in {"verify", "settle"} /\ (pc = "settle" => ~work.was)
      OBVIOUS
    <2> HIDE DEF pc
    <2>2. Onward({"verify", "settle", "failed"}) /\ (work'.pc = "settle" => ~work'.was)
      BY <1>1, <1>2, <2>1, GoesAdv DEF Onward
    <2>3. "running" \in Boxes
      BY DEF Boxes
    <2> QED
      BY <1>2, <2>2, <2>3 DEF ComposeUp, Step, Doing, Apart, jobs, tables, sockets
  <1>3. CASE /\ Goto("failed")
             /\ \E b \in {"running", "created", "gone", box[Cur]} : box' = [box EXCEPT ![Cur] = b]
    <2>1. Onward({"verify", "settle", "failed"}) /\ work'.pc = "failed"
      BY <1>1, <1>3, GoesTo DEF Onward
    <2>2. \E b \in Boxes \cup {box[Cur]} : box' = [box EXCEPT ![Cur] = b]
      BY <1>3 DEF Boxes
    <2> QED
      BY <2>1, <2>2 DEF ComposeUp, Step, Doing, Apart, jobs, tables, sockets
  <1> QED
    BY <1>2, <1>3 DEF ComposeUp, AdvGoes

LEMMA SettleGoes ==
  ASSUME JobsTypeOK, Settle
  PROVE  /\ work.pc = "settle" /\ Onward({"verify", "failed"}) /\ Apart
         /\ UNCHANGED <<job, row, client, past>>
         /\ UNCHANGED box \/ \E b \in Boxes : box' = [box EXCEPT ![Cur] = b]
         /\ work'.was = work.was
  <1>1. work \in WorkType /\ {"verify", "failed"} \subseteq Stages
    BY JobsRecords DEF Stages
  <1>2. Goto("verify") \/ Goto("failed")
    BY DEF Settle
  <1>3. Onward({"verify", "failed"}) /\ work'.was = work.was
    BY <1>1, <1>2, GoesTo DEF Onward
  <1> QED
    BY <1>3 DEF Settle, Step, Doing, Apart, Boxes, jobs, tables, sockets

LEMMA StopGoes ==
  ASSUME JobsTypeOK, Stop
  PROVE  /\ work.pc = "stop" /\ Onward({"remove", "failed"}) /\ Apart
         /\ UNCHANGED <<job, row, client, past>>
         /\ UNCHANGED box \/ box' = [box EXCEPT ![Cur] = "stopped"]
         /\ work'.pc = "remove" => box' = [box EXCEPT ![Cur] = "stopped"]
  <1>1. work \in WorkType /\ {"remove", "failed"} \subseteq Stages
    BY JobsRecords DEF Stages
  <1>2. CASE Goto("remove") /\ box' = [box EXCEPT ![Cur] = "stopped"]
    <2>1. Onward({"remove", "failed"})
      BY <1>1, <1>2, GoesTo DEF Onward
    <2> QED
      BY <1>2, <2>1 DEF Stop, Step, Doing, Apart, jobs, tables, sockets
  <1>3. CASE Goto("failed") /\ UNCHANGED box
    <2>1. Onward({"remove", "failed"}) /\ work'.pc = "failed"
      BY <1>1, <1>3, GoesTo DEF Onward
    <2> QED
      BY <1>3, <2>1 DEF Stop, Step, Doing, Apart, jobs, tables, sockets
  <1> QED
    BY <1>2, <1>3 DEF Stop

LEMMA RemoveGoes ==
  ASSUME JobsTypeOK, RemoveOld
  PROVE  /\ work.pc = "remove" /\ Onward({"create", "failed"}) /\ Apart
         /\ UNCHANGED <<job, row, client, past>>
         /\ UNCHANGED box \/ box' = [box EXCEPT ![Cur] = "gone"]
  <1>1. work \in WorkType /\ {"create", "failed"} \subseteq Stages
    BY JobsRecords DEF Stages
  <1>2. Goto("create") \/ Goto("failed")
    BY DEF RemoveOld
  <1>3. Onward({"create", "failed"})
    BY <1>1, <1>2, GoesTo DEF Onward
  <1> QED
    BY <1>3 DEF RemoveOld, Step, Doing, Apart, jobs, tables, sockets

LEMMA CreateGoes ==
  ASSUME JobsTypeOK, Create
  PROVE  /\ work.pc = "create" /\ Onward({"start", "verify", "failed"}) /\ Apart
         /\ UNCHANGED <<job, row, client, past>>
         /\ UNCHANGED box \/ box' = [box EXCEPT ![Cur] = "created"]
         /\ work'.pc = "start" => box' = [box EXCEPT ![Cur] = "created"]
         /\ work'.pc = "verify" => ~work'.was
  <1>1. work \in WorkType /\ {"start", "verify", "failed"} \subseteq Stages
    BY JobsRecords DEF Stages
  <1> DEFINE pc == IF work.was THEN "start" ELSE "verify"
  <1>2. CASE box' = [box EXCEPT ![Cur] = "created"] /\ AdvGoes(pc)
    <2>1. pc \in {"start", "verify"} /\ (pc = "verify" => ~work.was)
      OBVIOUS
    <2> HIDE DEF pc
    <2>2. Onward({"start", "verify", "failed"}) /\ (work'.pc = "verify" => ~work'.was)
      BY <1>1, <1>2, <2>1, GoesAdv DEF Onward
    <2> QED
      BY <1>2, <2>2 DEF Create, Step, Doing, Apart, jobs, tables, sockets
  <1>3. CASE Goto("failed") /\ UNCHANGED box
    <2>1. Onward({"start", "verify", "failed"}) /\ work'.pc = "failed"
      BY <1>1, <1>3, GoesTo DEF Onward
    <2> QED
      BY <1>3, <2>1 DEF Create, Step, Doing, Apart, jobs, tables, sockets
  <1> QED
    BY <1>2, <1>3 DEF Create, AdvGoes

LEMMA StartGoes ==
  ASSUME JobsTypeOK, StartNew
  PROVE  /\ work.pc = "start" /\ Onward({"verify", "failed"}) /\ Apart
         /\ UNCHANGED <<job, row, client, past>>
         /\ UNCHANGED box \/ box' = [box EXCEPT ![Cur] = "running"]
         /\ work'.pc = "verify" => box' = [box EXCEPT ![Cur] = "running"]
  <1>1. work \in WorkType /\ {"verify", "failed"} \subseteq Stages
    BY JobsRecords DEF Stages
  <1>2. CASE Goto("verify") /\ box' = [box EXCEPT ![Cur] = "running"]
    <2>1. Onward({"verify", "failed"})
      BY <1>1, <1>2, GoesTo DEF Onward
    <2> QED
      BY <1>2, <2>1 DEF StartNew, Step, Doing, Apart, jobs, tables, sockets
  <1>3. CASE Goto("failed") /\ UNCHANGED box
    <2>1. Onward({"verify", "failed"}) /\ work'.pc = "failed"
      BY <1>1, <1>3, GoesTo DEF Onward
    <2> QED
      BY <1>3, <2>1 DEF StartNew, Step, Doing, Apart, jobs, tables, sockets
  <1> QED
    BY <1>2, <1>3 DEF StartNew

LEMMA VerifyGoes ==
  ASSUME JobsTypeOK, Verify
  PROVE  /\ work.pc = "verify" /\ Onward({"verified", "failed"}) /\ Apart
         /\ UNCHANGED <<job, row, client, box>> /\ work'.was = work.was
         /\ past' = past \/ past' = [past EXCEPT !.verified = @ \cup {Cur}]
         /\ work'.pc = "verified" => past' = [past EXCEPT !.verified = @ \cup {Cur}]
  <1>1. work \in WorkType /\ {"verified", "failed"} \subseteq Stages
    BY JobsRecords DEF Stages
  <1>2. CASE Goto("verified") /\ past' = [past EXCEPT !.verified = @ \cup {Cur}]
    <2>1. Onward({"verified", "failed"}) /\ work'.was = work.was
      BY <1>1, <1>2, GoesTo DEF Onward
    <2> QED
      BY <1>2, <2>1 DEF Verify, Step, Doing, Apart, jobs, tables, sockets
  <1>3. CASE Goto("failed") /\ UNCHANGED past
    <2>1. Onward({"verified", "failed"}) /\ work'.was = work.was /\ work'.pc = "failed"
      BY <1>1, <1>3, GoesTo DEF Onward
    <2> QED
      BY <1>3, <2>1 DEF Verify, Step, Doing, Apart, jobs, tables, sockets
  <1> QED
    BY <1>2, <1>3 DEF Verify

LEMMA AtBoxGoes ==
  ASSUME JobsTypeOK, AtBox
  PROVE  /\ work \in WorkType /\ work' \in WorkType /\ work'.r = work.r /\ work'.subs = work.subs
         /\ work.pc \in OnBox /\ work'.pc \in OnBox /\ Apart
         /\ job' = job \/ SetStatus(work.r, "pulling") \/ SetStatus(work.r, "recreating")
  <1>0. work \in WorkType
    BY JobsRecords
  <1>1. CASE Inspect
    BY <1>0, <1>1, InspectGoes, SMT DEF Onward, OnBox
  <1>2. CASE Pull
    BY <1>0, <1>2, PullGoes, SMT DEF Onward, OnBox
  <1>3. CASE Apply
    BY <1>0, <1>3, ApplyGoes, SMT DEF Onward, OnBox
  <1>4. CASE ComposeUp
    BY <1>0, <1>4, ComposeUpGoes, SMT DEF Onward, OnBox
  <1>5. CASE Settle
    BY <1>0, <1>5, SettleGoes, SMT DEF Onward, OnBox
  <1>6. CASE Stop
    BY <1>0, <1>6, StopGoes, SMT DEF Onward, OnBox
  <1>7. CASE RemoveOld
    BY <1>0, <1>7, RemoveGoes, SMT DEF Onward, OnBox
  <1>8. CASE Create
    BY <1>0, <1>8, CreateGoes, SMT DEF Onward, OnBox
  <1>9. CASE StartNew
    BY <1>0, <1>9, StartGoes, SMT DEF Onward, OnBox
  <1>10. CASE Verify
    BY <1>0, <1>10, VerifyGoes, SMT DEF Onward, OnBox
  <1> QED
    BY <1>1, <1>2, <1>3, <1>4, <1>5, <1>6, <1>7, <1>8, <1>9, <1>10 DEF AtBox

LEMMA FansOut ==
  ASSUME JobsTypeOK, NEW r \in Posts, NEW done \in BOOLEAN, FanOut(r, done)
  PROVE  /\ client' \in [Clients -> ClientType] /\ past' \in PastType
         /\ past'.verified = past.verified /\ past.full \subseteq past'.full
         /\ [n |-> job[r].n + 1, done |-> done] \in EventType
         /\ \A c \in Clients : /\ client'[c].at = client[c].at /\ client'[c].r = client[c].r
                               /\ client'[c].last = client[c].last
                               /\ client'[c].closed = client[c].closed
         /\ \A c \in Clients : client'[c] = client[c] \/ c \in subs[r]
         /\ \A c \in subs[r] :
              \/ client'[c] = client[c] /\ c \in past'.full
              \/ client'[c].ch = Append(client[c].ch, [n |-> job[r].n + 1, done |-> done])
  <1> DEFINE ev == [n |-> job[r].n + 1, done |-> done]
             Room == {c \in subs[r] : Len(client[c].ch) < ChanCap}
             Sent(c) == [client[c] EXCEPT !.ch = Append(@, ev)]
  <1>1. ev \in EventType
    BY JobsRecords DEF StateType, EventType
  <1>2. /\ client' = [c \in Clients |-> IF c \in Room THEN Sent(c) ELSE client[c]]
        /\ past' = [past EXCEPT !.full = @ \cup (subs[r] \ Room)]
    BY DEF FanOut
  <1>3. subs[r] \in SUBSET Clients /\ Room \subseteq subs[r]
    BY DEF JobsTypeOK
  <1> HIDE DEF ev, Room
  <1>4. ASSUME NEW c \in Clients
        PROVE  /\ client[c] \in ClientType /\ Append(client[c].ch, ev) \in Seq(EventType)
               /\ Sent(c) \in ClientType /\ Sent(c).at = client[c].at /\ Sent(c).r = client[c].r
               /\ Sent(c).last = client[c].last /\ Sent(c).closed = client[c].closed
               /\ Sent(c).ch = Append(client[c].ch, ev)
    <2>1. client[c] \in ClientType
      BY JobsRecords
    <2>2. client[c].ch \in Seq(EventType)
      BY <2>1 DEF ClientType
    <2>3. Append(client[c].ch, ev) \in Seq(EventType)
      BY <2>2, <1>1, JobsAppend
    <2> DEFINE app == Append(client[c].ch, ev)
    <2>4. Sent(c) = [client[c] EXCEPT !.ch = app]
      OBVIOUS
    <2> HIDE DEF app, Sent
    <2>5. app \in Seq(EventType)
      BY <2>3 DEF app
    <2>6. /\ Sent(c) \in ClientType /\ Sent(c).at = client[c].at /\ Sent(c).r = client[c].r
          /\ Sent(c).last = client[c].last /\ Sent(c).closed = client[c].closed
          /\ Sent(c).ch = app
      BY <2>1, <2>4, <2>5 DEF ClientType
    <2> QED
      BY <2>1, <2>3, <2>6 DEF app
  <1> HIDE DEF Sent
  <1>5. \A c \in Clients : client'[c] = IF c \in Room THEN Sent(c) ELSE client[c]
    BY <1>2
  <1>6. client' \in [Clients -> ClientType]
    BY <1>2, <1>4
  <1>7. /\ past' \in PastType /\ past'.verified = past.verified
        /\ past'.full = past.full \cup (subs[r] \ Room)
    BY <1>2, <1>3, JobsRecords DEF PastType
  <1>8. \A c \in Clients : /\ client'[c].at = client[c].at /\ client'[c].r = client[c].r
                           /\ client'[c].last = client[c].last
                           /\ client'[c].closed = client[c].closed
    BY <1>4, <1>5
  <1>9. \A c \in Clients : client'[c] = client[c] \/ c \in subs[r]
    BY <1>3, <1>5
  <1>10. \A c \in subs[r] : \/ client'[c] = client[c] /\ c \in past'.full
                            \/ client'[c].ch = Append(client[c].ch, ev)
    BY <1>3, <1>4, <1>5, <1>7
  <1> QED
    BY <1>1, <1>6, <1>7, <1>8, <1>9, <1>10 DEF ev

LEMMA SetsStatus ==
  ASSUME JobsTypeOK, NEW r \in Posts, NEW status \in {"pulling", "recreating"},
         SetStatus(r, status)
  PROVE  /\ FanOut(r, FALSE) /\ job' \in [Posts -> StateType]
         /\ job'[r].n = job[r].n + 1 /\ job'[r].status \notin Terminal
         /\ \A q \in Posts : q # r => job'[q] = job[q]
  <1>1. job \in [Posts -> StateType]
    BY JobsRecords
  <1>2. job' = [job EXCEPT ![r] = [job[r] EXCEPT !.status = status, !.n = @ + 1]]
    BY <1>1 DEF SetStatus
  <1> DEFINE n == job[r].n + 1
             new == [job[r] EXCEPT !.status = status, !.n = n]
  <1>3. new \in StateType /\ new.n = n /\ new.status \notin Terminal
    <2>1. job[r] \in StateType /\ n \in Nat
      BY <1>1 DEF StateType
    <2> HIDE DEF n
    <2> QED
      BY <2>1 DEF StateType, Terminal
  <1> HIDE DEF new
  <1>4. job' = [job EXCEPT ![r] = new]
    BY <1>2 DEF new
  <1> QED
    BY <1>1, <1>3, <1>4 DEF SetStatus

(* The job at hand, and the container it is at. *)
LEMMA AtWork ==
  ASSUME JobsTypeOK, Serial, work.pc # "idle"
  PROVE  work.r \in Posts /\ req[work.r] = "running"
  <1>1. work.r \in Posts
    BY JobsRecords DEF WorkType, Serial
  <1> QED
    BY <1>1 DEF Serial

LEMMA AtContainer ==
  ASSUME JobsTypeOK, Serial, Turned, work.pc \in OnBox
  PROVE  /\ work.r \in Posts /\ req[work.r] = "running" /\ Works(work.r)
         /\ todo[work.r] \in Seq(Containers) /\ todo[work.r] # <<>>
         /\ Cur \in Containers /\ Has(work.r, Cur) /\ turn[LockKey(Cur)] = work.r
         /\ LockKey(Cur) \in Keys /\ ~pruning
  <1>1. work.pc # "idle"
    BY DEF OnBox
  <1>2. work.r \in Posts /\ req[work.r] = "running"
    BY <1>1, AtWork
  <1>3. Works(work.r)
    BY DEF Works
  <1>4. todo[work.r] \in Seq(Containers) /\ todo[work.r] # <<>>
    BY <1>2, <1>3 DEF JobsTypeOK, Turned
  <1>5. Cur \in Containers /\ Has(work.r, Cur)
    BY <1>4, JobsHead DEF Cur, Has
  <1>6. LockKey(Cur) \in Keys
    BY <1>5, JobAssumption DEF LockKey, Keys
  <1>7. turn[LockKey(Cur)] = work.r
    BY <1>2, <1>3, <1>5 DEF Turned
  <1>8. ~pruning
    BY <1>2, <1>6, <1>7, JobAssumption DEF Turned, AllFree
  <1> QED
    BY <1>2, <1>3, <1>4, <1>5, <1>6, <1>7, <1>8

-----------------------------------------------------------------------------
(* The types.                                                              *)
PlainTypes ==
  /\ req \in [Posts -> {"new", "refused", "pushing", "queued", "running", "over", "lost"}]
  /\ writes \in BOOLEAN
  /\ todo \in [Posts -> Seq(Containers)]
  /\ target \in [Posts -> Keys \cup {Nil}]
  /\ known \subseteq Posts
  /\ queue \in Seq(Posts)
  /\ server \in {"up", "stopping", "stopped"}
  /\ turn \in [Keys -> Posts \cup {Nil}]
  /\ pruning \in BOOLEAN
  /\ box \in [Containers -> Boxes]
  /\ cached \subseteq Containers
  /\ row \in [Posts -> [Containers -> {"none", "pending", "success", "failed", "skipped"}]]
  /\ subs \in [Posts -> SUBSET Clients]
  /\ boots \in 0 .. MaxBoots
RecordTypes ==
  /\ work \in WorkType /\ client \in [Clients -> ClientType]
  /\ job \in [Posts -> StateType] /\ past \in PastType

LEMMA TwoTypes == JobsTypeOK <=> PlainTypes /\ RecordTypes
  BY DEF JobsTypeOK, PlainTypes, RecordTypes, WorkType, ClientType, EventType,
     StateType, PastType

LEMMA TwoTypesNext == PlainTypes' /\ RecordTypes' => JobsTypeOK'
  BY DEF JobsTypeOK, PlainTypes, RecordTypes, WorkType, ClientType, EventType,
     StateType, PastType

LEMMA InsertedType ==
  ASSUME JobsTypeOK, NEW r \in Posts, NEW c \in Containers
  PROVE  Inserted(r, c) \in [Posts -> [Containers -> {"none", "pending", "success", "failed", "skipped"}]]
  BY DEF JobsTypeOK, Inserted

LEMMA LockKeys == \A c \in Containers : LockKey(c) \in Keys
  BY JobAssumption DEF LockKey, Keys

LEMMA LeaveGoes ==
  ASSUME JobsTypeOK, NEW c \in Clients, NEW how \in {"told", "cut", "gone"}, Leave(c, how)
  PROVE  /\ client' \in [Clients -> ClientType] /\ subs' \in [Posts -> SUBSET Clients]
         /\ client'[c].at = how
         /\ \A d \in Clients : d # c => client'[d] = client[d]
         /\ \A r \in Posts : subs'[r] = subs[r] \ {c}
  <1> DEFINE new == [NoClient EXCEPT !.at = how]
  <1>1. new \in ClientType /\ new.at = how
    BY JobsFirsts DEF ClientType
  <1>2. client' = [client EXCEPT ![c] = new]
    BY DEF Leave
  <1> HIDE DEF new
  <1>3. client \in [Clients -> ClientType] /\ subs \in [Posts -> SUBSET Clients]
    BY JobsRecords DEF JobsTypeOK
  <1>4. subs' = [r \in Posts |-> subs[r] \ {c}]
    BY DEF Leave
  <1>5. subs' \in [Posts -> SUBSET Clients] /\ \A r \in Posts : subs'[r] = subs[r] \ {c}
    BY <1>3, <1>4
  <1> QED
    BY <1>1, <1>2, <1>3, <1>5

(* The three ways to answer a WebSocket. *)
LEMMA SubscribeGoes ==
  ASSUME JobsTypeOK, NEW c \in Clients, NEW r \in Posts, Subscribe(c, r)
  PROVE  /\ client' \in [Clients -> ClientType]
         /\ client[c].at = "new" /\ req[r] \notin {"new", "refused"}
         /\ \A d \in Clients : d # c => client'[d] = client[d]
         /\ \/ client'[c].at \in {"unknown", "told"} /\ subs' = subs
            \/ /\ r \in known /\ job[r].status \notin Terminal
               /\ client'[c].at = "open" /\ client'[c].r = r /\ client'[c].last = job[r].n
               /\ client'[c].ch = client[c].ch /\ client'[c].closed = client[c].closed
               /\ subs' = [subs EXCEPT ![r] = @ \cup {c}]
  <1>1. client \in [Clients -> ClientType] /\ client[c] \in ClientType /\ job[r].n \in Nat
    BY JobsRecords DEF StateType
  <1> DEFINE Not(at) == [client[c] EXCEPT !.at = at]
             Open(n) == [client[c] EXCEPT !.at = "open", !.r = r, !.last = n]
  <1>2. \A at \in {"unknown", "told"} : Not(at) \in ClientType /\ Not(at).at = at
    BY <1>1 DEF ClientType
  <1>3. \A n \in Nat : /\ Open(n) \in ClientType /\ Open(n).at = "open" /\ Open(n).r = r
                       /\ Open(n).last = n /\ Open(n).ch = client[c].ch
                       /\ Open(n).closed = client[c].closed
    BY <1>1 DEF ClientType
  <1>4. \/ client' = [client EXCEPT ![c] = Not("unknown")] /\ subs' = subs
        \/ client' = [client EXCEPT ![c] = Not("told")] /\ subs' = subs
        \/ /\ r \in known /\ job[r].status \notin Terminal
           /\ client' = [client EXCEPT ![c] = Open(job[r].n)]
           /\ subs' = [subs EXCEPT ![r] = @ \cup {c}]
    BY <1>1, Zenon DEF Subscribe, Snapshot
  <1>5. client[c].at = "new" /\ req[r] \notin {"new", "refused"}
    BY DEF Subscribe
  <1> HIDE DEF Not, Open
  <1> QED
    BY <1>1, <1>2, <1>3, <1>4, <1>5

LEMMA ForwardGoes ==
  ASSUME JobsTypeOK, NEW c \in Clients, Forward(c)
  PROVE  /\ client' \in [Clients -> ClientType]
         /\ Follows(c) /\ client[c].ch # <<>>
         /\ \A d \in Clients : d # c => client'[d] = client[d]
         /\ \/ client[c].ch[1].done /\ Leave(c, "told")
            \/ /\ ~client[c].ch[1].done /\ subs' = subs
               /\ client'[c].at = "open" /\ client'[c].r = client[c].r
               /\ client'[c].last = client[c].ch[1].n /\ client'[c].ch = Tail(client[c].ch)
               /\ client'[c].closed = client[c].closed
  <1>1. /\ client \in [Clients -> ClientType] /\ client[c] \in ClientType
        /\ client[c].ch \in Seq(EventType)
    BY JobsRecords DEF ClientType
  <1>2. client[c].at = "open" /\ client[c].ch # <<>>
    BY DEF Forward
  <1>3. /\ Head(client[c].ch) = client[c].ch[1] /\ client[c].ch[1] \in EventType
        /\ Tail(client[c].ch) \in Seq(EventType)
    BY <1>1, <1>2, JobsHead
  <1>4. CASE client[c].ch[1].done /\ Leave(c, "told")
    BY <1>2, <1>4, LeaveGoes DEF Follows
  <1> DEFINE After(s, n) == [client[c] EXCEPT !.ch = s, !.last = n]
  <1>5. \A s \in Seq(EventType), n \in Nat :
          /\ After(s, n) \in ClientType /\ After(s, n).at = client[c].at /\
             After(s, n).r = client[c].r
          /\ After(s, n).last = n /\ After(s, n).ch = s /\ After(s, n).closed = client[c].closed
    BY <1>1 DEF ClientType
  <1> DEFINE s1 == Tail(client[c].ch)
             n1 == client[c].ch[1].n
  <1>6. CASE /\ ~client[c].ch[1].done /\ subs' = subs
             /\ client' = [client EXCEPT ![c] = After(s1, n1)]
    <2>1. s1 \in Seq(EventType) /\ n1 \in Nat
      BY <1>3 DEF EventType
    <2> HIDE DEF s1, n1, After
    <2>2. /\ client'[c] = After(s1, n1) /\ client' \in [Clients -> ClientType]
          /\ \A d \in Clients : d # c => client'[d] = client[d]
      BY <1>1, <1>5, <1>6, <2>1
    <2>3. /\ client'[c].at = client[c].at /\ client'[c].r = client[c].r
          /\ client'[c].last = n1 /\ client'[c].ch = s1 /\ client'[c].closed = client[c].closed
      BY <1>5, <2>1, <2>2
    <2> QED
      BY <1>2, <1>6, <2>2, <2>3 DEF Follows, s1, n1
  <1>7. client' = [client EXCEPT ![c] = After(s1, n1)] \/ client[c].ch[1].done
    BY <1>1, <1>3 DEF Forward
  <1> QED
    BY <1>3, <1>4, <1>6, <1>7 DEF Forward

LEMMA ClosesGoes ==
  ASSUME JobsTypeOK, CloseChannels
  PROVE  /\ client' \in [Clients -> ClientType]
         /\ \A c \in Clients :
              /\ client'[c].at = client[c].at /\ client'[c].r = client[c].r
              /\ client'[c].last = client[c].last /\ client'[c].ch = client[c].ch
              /\ client'[c].closed = (client[c].closed \/ c \in work.subs)
              /\ c \notin work.subs => client'[c] = client[c]
  <1> DEFINE Shut(c, b) == [client[c] EXCEPT !.closed = b]
             b(c) == client[c].closed \/ c \in work.subs
  <1>1. \A c \in Clients : client[c] \in ClientType /\ b(c) \in BOOLEAN
    BY JobsRecords DEF ClientType
  <1>2. ASSUME NEW c \in Clients, NEW x \in BOOLEAN
        PROVE  /\ Shut(c, x) \in ClientType /\ Shut(c, x).at = client[c].at
               /\ Shut(c, x).r = client[c].r /\ Shut(c, x).last = client[c].last
               /\ Shut(c, x).ch = client[c].ch /\ Shut(c, x).closed = x
               /\ x = client[c].closed => Shut(c, x) = client[c]
    <2>1. client[c] \in ClientType
      BY <1>1
    <2> QED
      BY <2>1 DEF ClientType
  <1>3. client' = [c \in Clients |-> Shut(c, b(c))]
    BY DEF CloseChannels
  <1> HIDE DEF Shut, b
  <1>4. \A c \in Clients : client'[c] = Shut(c, b(c))
    BY <1>3
  <1>5. client' \in [Clients -> ClientType]
    BY <1>1, <1>2, <1>3
  <1> QED
    <2>1. \A c \in Clients : client[c].closed \in BOOLEAN
      BY JobsRecords DEF ClientType
    <2>2. \A c \in Clients : c \notin work.subs => b(c) = client[c].closed
      BY <2>1 DEF b
    <2>3. ASSUME NEW c \in Clients
          PROVE  /\ client'[c].at = client[c].at /\ client'[c].r = client[c].r
                 /\ client'[c].last = client[c].last /\ client'[c].ch = client[c].ch
                 /\ client'[c].closed = b(c)
                 /\ b(c) = client[c].closed => client'[c] = client[c]
      <3>1. client'[c] = Shut(c, b(c)) /\ b(c) \in BOOLEAN
        BY <1>1, <1>4
      <3> QED
        BY <1>2, <3>1
    <2> QED
      BY <1>5, <2>2, <2>3 DEF b

LEMMA RestartClients ==
  ASSUME JobsTypeOK, Restart
  PROVE  /\ client' \in [Clients -> ClientType]
         /\ \A c \in Clients : (client'[c] = client[c] /\ ~Follows(c)) \/ client'[c].at = "gone"
  <1> DEFINE new == [NoClient EXCEPT !.at = "gone"]
  <1>1. new \in ClientType /\ new.at = "gone"
    BY JobsFirsts DEF ClientType
  <1>2. client' = [c \in Clients |-> IF client[c].at = "open" THEN new ELSE client[c]]
    BY DEF Restart
  <1> HIDE DEF new
  <1> QED
    BY <1>1, <1>2, JobsRecords DEF Follows

LEMMA FinishGoes ==
  ASSUME JobsTypeOK, Serial, Finish
  PROVE  /\ work.r \in Posts /\ work.pc = "finish" /\ FanOut(work.r, TRUE)
         /\ work' \in WorkType /\ work'.r = work.r /\ work'.pc = "close"
         /\ work'.subs = subs[work.r]
         /\ job' \in [Posts -> StateType] /\ job'[work.r].n = job[work.r].n + 1
         /\ job'[work.r].status = IF work.err THEN "error" ELSE "success"
         /\ \A q \in Posts : q # work.r => job'[q] = job[q]
         /\ subs' = [subs EXCEPT ![work.r] = {}]
  <1>1. work.pc = "finish" /\ work.r \in Posts /\ job \in [Posts -> StateType]
    BY AtWork, JobsRecords DEF Finish, Doing
  <1>2. subs[work.r] \in SUBSET Clients
    BY <1>1 DEF JobsTypeOK
  <1>3. work' \in WorkType /\ work'.r = work.r /\ work'.pc = "close" /\ work'.subs = subs[work.r]
    BY <1>1, <1>2, JobsFirsts DEF Finish, WorkType, Stages
  <1> DEFINE n == job[work.r].n + 1
             st == IF work.err THEN "error" ELSE "success"
             new == [job[work.r] EXCEPT !.status = st, !.n = n]
  <1>4. job' = [job EXCEPT ![work.r] = new]
    BY <1>1 DEF Finish
  <1>5. new \in StateType /\ new.n = n /\ new.status = st
    <2>1. job[work.r] \in StateType /\ n \in Nat /\ st \in Terminal
      BY <1>1 DEF StateType, Terminal
    <2> HIDE DEF n, st
    <2> QED
      BY <2>1 DEF StateType, Terminal
  <1> HIDE DEF new
  <1>6. /\ job' \in [Posts -> StateType] /\ job'[work.r] = new
        /\ \A q \in Posts : q # work.r => job'[q] = job[q]
    BY <1>1, <1>4, <1>5
  <1> QED
    BY <1>1, <1>3, <1>5, <1>6 DEF Finish

LEMMA OutcomeGoes ==
  ASSUME JobsTypeOK, Serial, Turned, RecordOutcome
  PROVE  /\ work.pc = "verified" /\ work.r \in Posts /\ work' \in WorkType
         /\ work'.r = work.r /\ work'.subs = work.subs
         /\ work'.pc = IF Len(todo[work.r]) > 1 THEN "begin" ELSE "returned"
         /\ job' \in [Posts -> StateType]
         /\ \A q \in Posts : job'[q].status = job[q].status /\ job'[q].n = job[q].n
  <1>1. work.pc = "verified" /\ work.r \in Posts
    BY AtContainer DEF RecordOutcome, Doing, OnBox
  <1>2. work \in WorkType /\ job \in [Posts -> StateType]
    BY JobsRecords
  <1> DEFINE any == work.any \/ work.adv
             out == IF any THEN "success" ELSE "no_change"
             W(pc) == [work EXCEPT !.any = any, !.pc = pc]
             new == [job[work.r] EXCEPT !.outcome = out]
  <1>3. any \in BOOLEAN /\ out \in {"success", "no_change"}
    BY <1>2 DEF WorkType
  <1>4. /\ Len(todo[work.r]) > 1 => work' = W("begin") /\ UNCHANGED job
        /\ ~(Len(todo[work.r]) > 1) =>
           work' = W("returned") /\ job' = [job EXCEPT ![work.r] = new]
    BY <1>1, <1>2 DEF RecordOutcome
  <1> HIDE DEF any, out
  <1>5. \A pc \in {"begin", "returned"} :
          W(pc) \in WorkType /\ W(pc).r = work.r /\ W(pc).subs = work.subs /\ W(pc).pc = pc
    BY <1>2, <1>3 DEF WorkType, Stages
  <1>6. new \in StateType /\ new.status = job[work.r].status /\ new.n = job[work.r].n
    BY <1>1, <1>2, <1>3 DEF StateType
  <1> HIDE DEF W, new
  <1> QED
    BY <1>1, <1>2, <1>4, <1>5, <1>6

LEMMA FailureGoes ==
  ASSUME JobsTypeOK, Serial, Turned, RecordFailure
  PROVE  /\ work.pc = "failed" /\ work.r \in Posts /\ work' \in WorkType
         /\ work'.r = work.r /\ work'.subs = work.subs /\ work'.pc = "returned" /\ work'.err
         /\ job' \in [Posts -> StateType]
         /\ \A q \in Posts : job'[q].status = job[q].status /\ job'[q].n = job[q].n
  <1>1. work.pc = "failed" /\ work.r \in Posts
    BY AtContainer DEF RecordFailure, Doing, OnBox
  <1>2. work \in WorkType /\ job \in [Posts -> StateType]
    BY JobsRecords
  <1>3. /\ work' \in WorkType /\ work'.r = work.r /\ work'.subs = work.subs
        /\ work'.pc = "returned" /\ work'.err
    BY <1>2 DEF RecordFailure, WorkType, Stages
  <1> DEFINE new == [job[work.r] EXCEPT !.outcome = "failed"]
  <1>4. new \in StateType /\ new.status = job[work.r].status /\ new.n = job[work.r].n
    BY <1>1, <1>2 DEF StateType
  <1>5. job' = [job EXCEPT ![work.r] = new]
    BY <1>1, <1>2 DEF RecordFailure
  <1> HIDE DEF new
  <1> QED
    BY <1>1, <1>2, <1>3, <1>4, <1>5

LEMMA JobTypesKept ==
  ASSUME JobsTypeOK, Serial, Turned, [JobsNext]_jobVars
  PROVE  JobsTypeOK'
  <1>1. ASSUME NEW r \in Posts, Refuse(r) PROVE JobsTypeOK'
    <2>1. RecordTypes'
      BY <1>1, TwoTypes DEF RecordTypes, Refuse, jobs, docker, tables, sockets
    <2>2. PlainTypes'
      BY <1>1, TwoTypes DEF PlainTypes, Refuse, jobs, docker, tables, sockets
    <2> QED
      BY <2>1, <2>2, TwoTypesNext, Zenon
  <1>2. ASSUME NEW r \in Posts, Push(r) PROVE JobsTypeOK'
    <2>1. RecordTypes'
      BY <1>2, TwoTypes DEF RecordTypes, Push, jobs, docker, tables, sockets
    <2>2. PlainTypes'
      <3>1. Append(queue, r) \in Seq(Posts)
        BY JobsAppend, TwoTypes DEF PlainTypes
      <3> QED
        BY <1>2, <3>1, TwoTypes DEF PlainTypes, Push, docker, tables, sockets
    <2> QED
      BY <2>1, <2>2, TwoTypesNext, Zenon
  <1>3. ASSUME NEW r \in Posts, EvictExpired(r) PROVE JobsTypeOK'
    <2>1. RecordTypes'
      BY <1>3, TwoTypes, JobsFirsts DEF RecordTypes, EvictExpired, docker,
         tables, sockets
    <2>2. PlainTypes'
      BY <1>3, TwoTypes DEF PlainTypes, EvictExpired, jobs, docker, tables,
         sockets
    <2> QED
      BY <2>1, <2>2, TwoTypesNext, Zenon
  <1>4. ASSUME NEW r \in Posts, NEW c \in Containers, UpdateContainer(r, c)
        PROVE  JobsTypeOK'
    <2>1. RecordTypes'
      BY <1>4, TwoTypes DEF RecordTypes, UpdateContainer, Enqueue, jobs,
         docker, tables, sockets
    <2>2. PlainTypes'
      <3>1. Inserted(r, c) \in [Posts -> [Containers -> {"none", "pending", "success", "failed", "skipped"}]]
        BY InsertedType
      <3>2. <<c>> \in Seq(Containers)
        BY OneLong
      <3>3. c \in Keys /\ LockKey(c) \in Keys
        BY LockKeys DEF Keys
      <3> QED
        BY <1>4, <3>1, <3>2, <3>3, TwoTypes DEF PlainTypes, UpdateContainer,
           Enqueue, docker, sockets
    <2> QED
      BY <2>1, <2>2, TwoTypesNext, Zenon
  <1>5. ASSUME NEW r \in Posts, NEW s \in Stacks, UpdateStack(r, s)
        PROVE  JobsTypeOK'
    <2>1. RecordTypes'
      BY <1>5, TwoTypes DEF RecordTypes, UpdateStack, Enqueue, jobs, docker,
         tables, sockets
    <2>2. PlainTypes'
      <3>1. PICK order \in SetToSeqs(Outdated(s)) : todo' = [todo EXCEPT ![r] = order]
        BY <1>5 DEF UpdateStack
      <3>2. order \in Seq(Containers)
        BY <1>5, OrderHasAll, TwoTypes DEF UpdateStack, Outdated, PlainTypes
      <3>3. s \in Keys
        BY DEF Keys
      <3> QED
        BY <1>5, <3>1, <3>2, <3>3, TwoTypes DEF PlainTypes, UpdateStack,
           Enqueue, docker, tables, sockets
    <2> QED
      BY <2>1, <2>2, TwoTypesNext, Zenon
  <1>6. CASE TakeJob
    <2>1. RecordTypes'
      <3>1. Head(queue) \in Posts
        BY <1>6, JobsHead, TwoTypes DEF PlainTypes, TakeJob
      <3>2. work' \in WorkType
        BY <1>6, <3>1, JobsFirsts DEF TakeJob, WorkType, Stages
      <3> QED
        BY <1>6, <3>2, TwoTypes DEF RecordTypes, TakeJob, sockets
    <2>2. PlainTypes'
      <3>1. Head(queue) \in Posts /\ Tail(queue) \in Seq(Posts)
        BY <1>6, JobsHead, TwoTypes DEF PlainTypes, TakeJob
      <3> QED
        BY <1>6, <3>1, TwoTypes DEF PlainTypes, TakeJob, docker, tables,
           sockets
    <2> QED
      BY <2>1, <2>2, TwoTypesNext, Zenon
  <1>7. CASE AtBox
    <2>1. RecordTypes'
      <3>1. CASE UNCHANGED <<job, client, past>>
        BY <3>1, <1>7, AtBoxGoes, TwoTypes DEF RecordTypes
      <3>2. CASE SetStatus(work.r, "pulling") \/ SetStatus(work.r, "recreating")
        <4>1. work.r \in Posts
          BY <1>7, AtBoxGoes, AtContainer
        <4>2. client' \in [Clients -> ClientType] /\ past' \in PastType /\
              job' \in [Posts -> StateType]
          BY <3>2, <4>1, SetsStatus, FansOut
        <4> QED
          BY <4>2, <1>7, AtBoxGoes DEF RecordTypes
      <3>3. CASE Verify
        <4>1. Cur \in Containers /\ past \in PastType
          BY <1>7, AtBoxGoes, AtContainer, JobsRecords
        <4>2. past' \in PastType
          BY <4>1, <3>3, VerifyGoes DEF PastType
        <4> QED
          BY <4>2, <3>3, <1>7, AtBoxGoes, VerifyGoes, TwoTypes DEF RecordTypes
      <3> QED
        BY <1>7, <3>1, <3>2, <3>3, InspectGoes, PullGoes, ApplyGoes,
           ComposeUpGoes, SettleGoes, StopGoes,
           RemoveGoes, CreateGoes, StartGoes DEF AtBox
    <2>2. PlainTypes'
      <3>1. Cur \in Containers /\ work.r \in Posts
        BY <1>7, AtBoxGoes, AtContainer
      <3>2. box' = box \/ \E b \in Boxes \cup {box[Cur]} : box' = [box EXCEPT ![Cur] = b]
        BY <1>7, InspectGoes, PullGoes, ApplyGoes, ComposeUpGoes, SettleGoes,
           StopGoes, RemoveGoes,
           CreateGoes, StartGoes, VerifyGoes DEF AtBox, Boxes
      <3>3. box' \in [Containers -> Boxes]
        BY <3>1, <3>2, TwoTypes DEF PlainTypes
      <3>4. row' = row \/ row' = Inserted(work.r, Cur)
        BY <1>7, InspectGoes, PullGoes, ApplyGoes, ComposeUpGoes, SettleGoes,
           StopGoes, RemoveGoes,
           CreateGoes, StartGoes, VerifyGoes DEF AtBox
      <3>5. row' \in [Posts -> [Containers -> {"none", "pending", "success", "failed", "skipped"}]]
        BY <3>1, <3>4, InsertedType, TwoTypes DEF PlainTypes
      <3> QED
        BY <1>7, <3>3, <3>5, AtBoxGoes, TwoTypes DEF PlainTypes, Apart
    <2> QED
      BY <2>1, <2>2, TwoTypesNext, Zenon
  <1>8. CASE RecordOutcome
    <2>1. RecordTypes'
      BY <1>8, OutcomeGoes, TwoTypes DEF RecordTypes, RecordOutcome, sockets
    <2>2. PlainTypes'
      <3>1. /\ work.r \in Posts /\ Cur \in Containers /\ Tail(todo[work.r]) \in Seq(Containers)
        BY <1>8, AtContainer, JobsHead DEF RecordOutcome, Doing, OnBox
      <3> QED
        BY <1>8, <3>1, TwoTypes DEF PlainTypes, RecordOutcome, docker, sockets
    <2> QED
      BY <2>1, <2>2, TwoTypesNext, Zenon
  <1>9. CASE RecordFailure
    <2>1. RecordTypes'
      BY <1>9, FailureGoes, TwoTypes DEF RecordTypes, RecordFailure, sockets
    <2>2. PlainTypes'
      <3>1. work.r \in Posts
        BY <1>9, AtContainer DEF RecordFailure, Doing, OnBox
      <3>2. <<>> \in Seq(Containers)
        BY EmptySeq
      <3> DEFINE R(c) == IF c = Cur /\ writes THEN "failed"
                         ELSE IF c \in Skipped /\ writes THEN "skipped" ELSE row[work.r][c]
      <3>3. row' = [row EXCEPT ![work.r] = [c \in Containers |-> R(c)]]
        BY <1>9, <3>1, TwoTypes DEF RecordFailure, PlainTypes
      <3>4. \A c \in Containers : R(c) \in {"none", "pending", "success", "failed", "skipped"}
        BY <3>1, TwoTypes DEF PlainTypes
      <3> HIDE DEF R
      <3> QED
        BY <1>9, <3>1, <3>2, <3>3, <3>4, TwoTypes DEF PlainTypes,
           RecordFailure, docker, sockets
    <2> QED
      BY <2>1, <2>2, TwoTypesNext, Zenon
  <1>10. CASE ReleaseLock
    <2>1. RecordTypes'
      <3>1. work' \in WorkType
        BY <1>10, JobsRecords, GoesTo DEF ReleaseLock, Stages
      <3> QED
        BY <1>10, <3>1, TwoTypes DEF RecordTypes, ReleaseLock, jobs, sockets
    <2>2. PlainTypes'
      BY <1>10, TwoTypes DEF PlainTypes, ReleaseLock, Goto, jobs, docker,
         tables, sockets
    <2> QED
      BY <2>1, <2>2, TwoTypesNext, Zenon
  <1>11. CASE Finish
    <2>1. RecordTypes'
      BY <1>11, FinishGoes, FansOut, TwoTypes DEF RecordTypes
    <2>2. PlainTypes'
      <3>1. subs' \in [Posts -> SUBSET Clients]
        BY <1>11, FinishGoes, TwoTypes DEF PlainTypes
      <3> QED
        BY <1>11, <3>1, TwoTypes DEF PlainTypes, Finish, docker, tables
    <2> QED
      BY <2>1, <2>2, TwoTypesNext, Zenon
  <1>12. CASE CloseChannels
    <2>1. RecordTypes'
      BY <1>12, ClosesGoes, JobsFirsts, TwoTypes DEF RecordTypes,
         CloseChannels, jobs
    <2>2. PlainTypes'
      <3>1. work.r \in Posts
        <4>1. work.pc = "close"
          BY <1>12, Zenon DEF CloseChannels, Doing
        <4> QED
          BY <4>1, AtWork
      <3> QED
        BY <1>12, <3>1, TwoTypes DEF PlainTypes, CloseChannels, jobs, docker,
           tables
    <2> QED
      BY <2>1, <2>2, TwoTypesNext, Zenon
  <1>13. ASSUME NEW c \in Clients, NEW r \in Posts, Subscribe(c, r)
        PROVE  JobsTypeOK'
    <2>1. RecordTypes'
      BY <1>13, SubscribeGoes, TwoTypes DEF RecordTypes, Subscribe, Reader,
         jobs
    <2>2. PlainTypes'
      <3>1. subs' \in [Posts -> SUBSET Clients]
        <4>1. subs \in [Posts -> SUBSET Clients] /\
              (subs' = subs \/ subs' = [subs EXCEPT ![r] = @ \cup {c}])
          BY <1>13, SubscribeGoes, TwoTypes DEF PlainTypes
        <4> QED
          BY <4>1
      <3> QED
        BY <1>13, <3>1, TwoTypes DEF PlainTypes, Subscribe, Reader, jobs,
           docker, tables
    <2> QED
      BY <2>1, <2>2, TwoTypesNext, Zenon
  <1>14. ASSUME NEW c \in Clients, Forward(c) PROVE JobsTypeOK'
    <2>1. RecordTypes'
      BY <1>14, ForwardGoes, TwoTypes DEF RecordTypes, Forward, Reader, jobs
    <2>2. PlainTypes'
      <3>1. subs' \in [Posts -> SUBSET Clients]
        BY <1>14, ForwardGoes, LeaveGoes, TwoTypes DEF PlainTypes
      <3> QED
        BY <1>14, <3>1, TwoTypes DEF PlainTypes, Forward, Reader, jobs,
           docker, tables
    <2> QED
      BY <2>1, <2>2, TwoTypesNext, Zenon
  <1>15. ASSUME NEW c \in Clients, SeeClosed(c) PROVE JobsTypeOK'
    <2>1. RecordTypes'
      BY <1>15, LeaveGoes, TwoTypes DEF RecordTypes, SeeClosed, Reader, jobs
    <2>2. PlainTypes'
      <3>1. subs' \in [Posts -> SUBSET Clients]
        BY <1>15, LeaveGoes DEF SeeClosed
      <3> QED
        BY <1>15, <3>1, TwoTypes DEF PlainTypes, SeeClosed, Reader, jobs,
           docker, tables
    <2> QED
      BY <2>1, <2>2, TwoTypesNext, Zenon
  <1>16. ASSUME NEW c \in Clients, Disconnect(c) PROVE JobsTypeOK'
    <2>1. RecordTypes'
      BY <1>16, LeaveGoes, TwoTypes DEF RecordTypes, Disconnect, Reader, jobs
    <2>2. PlainTypes'
      <3>1. subs' \in [Posts -> SUBSET Clients]
        BY <1>16, LeaveGoes DEF Disconnect
      <3> QED
        BY <1>16, <3>1, TwoTypes DEF PlainTypes, Disconnect, Reader, jobs,
           docker, tables
    <2> QED
      BY <2>1, <2>2, TwoTypesNext, Zenon
  <1>17. CASE PruneBegins
    <2>1. RecordTypes'
      BY <1>17, TwoTypes DEF RecordTypes, PruneBegins, Pruner, jobs, docker,
         tables, sockets
    <2>2. PlainTypes'
      BY <1>17, TwoTypes DEF PlainTypes, PruneBegins, Pruner, jobs, docker,
         tables, sockets
    <2> QED
      BY <2>1, <2>2, TwoTypesNext, Zenon
  <1>18. ASSUME NEW c \in Containers, PruneRemoves(c) PROVE JobsTypeOK'
    <2>1. RecordTypes'
      BY <1>18, TwoTypes DEF RecordTypes, PruneRemoves, Pruner, jobs, docker,
         tables, sockets
    <2>2. PlainTypes'
      BY <1>18, TwoTypes DEF PlainTypes, Boxes, PruneRemoves, Pruner, jobs,
         tables, sockets
    <2> QED
      BY <2>1, <2>2, TwoTypesNext, Zenon
  <1>19. CASE PruneEnds
    <2>1. RecordTypes'
      BY <1>19, TwoTypes DEF RecordTypes, PruneEnds, Pruner, jobs, docker,
         tables, sockets
    <2>2. PlainTypes'
      BY <1>19, TwoTypes DEF PlainTypes, PruneEnds, Pruner, jobs, docker,
         tables, sockets
    <2> QED
      BY <2>1, <2>2, TwoTypesNext, Zenon
  <1>20. CASE Shutdown
    <2>1. RecordTypes'
      BY <1>20, TwoTypes DEF RecordTypes, Shutdown, jobs, docker, tables,
         sockets
    <2>2. PlainTypes'
      BY <1>20, TwoTypes DEF PlainTypes, Shutdown, jobs, docker, tables,
         sockets
    <2> QED
      BY <2>1, <2>2, TwoTypesNext, Zenon
  <1>21. CASE StopReturns
    <2>1. RecordTypes'
      BY <1>21, TwoTypes DEF RecordTypes, StopReturns, jobs, docker, tables,
         sockets
    <2>2. PlainTypes'
      BY <1>21, TwoTypes DEF PlainTypes, StopReturns, jobs, docker, tables,
         sockets
    <2> QED
      BY <2>1, <2>2, TwoTypesNext, Zenon
  <1>22. CASE Restart
    <2>1. RecordTypes'
      BY <1>22, RestartClients, JobsFirsts, TwoTypes DEF RecordTypes, Restart
    <2>2. PlainTypes'
      <3>1. <<>> \in Seq(Containers) /\ <<>> \in Seq(Posts)
        BY EmptySeq
      <3>2. boots' \in 0 .. MaxBoots
        BY <1>22, TwoTypes, JobAssumption DEF Restart, PlainTypes
      <3>3. row' \in [Posts -> [Containers -> {"none", "pending", "success", "failed", "skipped"}]]
        BY <1>22, TwoTypes DEF Restart, Sweep, PlainTypes
      <3> QED
        BY <1>22, <3>1, <3>2, <3>3, TwoTypes DEF PlainTypes, Restart
    <2> QED
      BY <2>1, <2>2, TwoTypesNext, Zenon
  <1>23. CASE UNCHANGED jobVars
    <2>1. RecordTypes'
      BY <1>23, TwoTypes DEF RecordTypes, jobVars, jobs, docker, tables,
         sockets
    <2>2. PlainTypes'
      BY <1>23, TwoTypes DEF PlainTypes, jobVars, jobs, docker, tables,
         sockets
    <2> QED
      BY <2>1, <2>2, TwoTypesNext, Zenon
  <1> QED
    BY <1>1, <1>2, <1>3, <1>4, <1>5, <1>6, <1>7, <1>8, <1>9, <1>10, <1>11,
       <1>12, <1>13, <1>14, <1>15, <1>16, <1>17, <1>18, <1>19, <1>20, <1>21,
       <1>22, <1>23 DEF JobsNext, Working, AtBox

LEMMA SerialKept ==
  ASSUME JobsTypeOK, Serial, Turned, [JobsNext]_jobVars
  PROVE  Serial'
  <1>1. ASSUME NEW r \in Posts, Refuse(r) PROVE Serial'
    <2>1. /\ req \in [Posts -> {"new", "refused", "pushing", "queued", "running", "over", "lost"}]
          /\ req[r] = "new"
          /\ req' = [req EXCEPT ![r] = "refused"] \/ req' = [req EXCEPT ![r] = "pushing"]
          /\ UNCHANGED <<work, queue>>
      BY <1>1 DEF Refuse, jobs, JobsTypeOK
    <2> QED
      BY <2>1 DEF Serial
  <1>2. ASSUME NEW r \in Posts, Push(r) PROVE Serial'
    <2>1. queue \in Seq(Posts)
      BY DEF JobsTypeOK
    <2>2. /\ Len(queue) \in Nat /\ Len(queue') = Len(queue) + 1
          /\ \A k \in 1 .. Len(queue) : queue'[k] = queue[k]
          /\ queue'[Len(queue) + 1] = r
          /\ \A k \in 1 .. Len(queue') : k \in 1 .. Len(queue) \/ k = Len(queue) + 1
          /\ \A k \in 1 .. Len(queue) : k \in 1 .. Len(queue')
          /\ Len(queue) + 1 \in 1 .. Len(queue')
      BY <1>2, <2>1, JobsAppend DEF Push
    <2>3. req \in [Posts -> {"new", "refused", "pushing", "queued", "running", "over", "lost"}]
          /\ req' = [req EXCEPT ![r] = "queued"] /\ req[r] = "pushing" /\ work' = work
      BY <1>2 DEF Push, JobsTypeOK
    <2>4. \A k \in 1 .. Len(queue) : queue[k] # r
      BY <2>1, <2>3 DEF Serial
    <2>5. \A q \in Posts : req'[q] = "queued" <=> \E k \in 1 .. Len(queue') : queue'[k] = q
      <3>1. ASSUME NEW q \in Posts, q # r
            PROVE  req'[q] = "queued" <=> \E k \in 1 .. Len(queue') : queue'[k] = q
        <4>1. req'[q] = "queued" <=> \E k \in 1 .. Len(queue) : queue[k] = q
          BY <2>3, <3>1 DEF Serial
        <4>2. (\E k \in 1 .. Len(queue) : queue[k] = q) <=>
              \E k \in 1 .. Len(queue') : queue'[k] = q
          BY <2>2, <3>1
        <4> QED
          BY <4>1, <4>2
      <3>2. req'[r] = "queued" /\ \E k \in 1 .. Len(queue') : queue'[k] = r
        BY <2>2, <2>3
      <3> QED
        BY <3>1, <3>2
    <2>6. \A j, k \in 1 .. Len(queue') : queue'[j] = queue'[k] => j = k
      BY <2>2, <2>4 DEF Serial
    <2> QED
      BY <2>3, <2>5, <2>6 DEF Serial
  <1>3. ASSUME NEW r \in Posts, EvictExpired(r) PROVE Serial'
    BY <1>3 DEF Serial, EvictExpired
  <1>4. ASSUME NEW r \in Posts, NEW c \in Containers, UpdateContainer(r, c)
        PROVE  Serial'
    <2>1. /\ req \in [Posts -> {"new", "refused", "pushing", "queued", "running", "over", "lost"}]
          /\ req[r] = "new"
          /\ req' = [req EXCEPT ![r] = "refused"] \/ req' = [req EXCEPT ![r] = "pushing"]
          /\ UNCHANGED <<work, queue>>
      BY <1>4 DEF UpdateContainer, Enqueue, jobs, JobsTypeOK
    <2> QED
      BY <2>1 DEF Serial
  <1>5. ASSUME NEW r \in Posts, NEW s \in Stacks, UpdateStack(r, s)
        PROVE  Serial'
    <2>1. /\ req \in [Posts -> {"new", "refused", "pushing", "queued", "running", "over", "lost"}]
          /\ req[r] = "new"
          /\ req' = [req EXCEPT ![r] = "refused"] \/ req' = [req EXCEPT ![r] = "pushing"]
          /\ UNCHANGED <<work, queue>>
      BY <1>5 DEF UpdateStack, Enqueue, jobs, JobsTypeOK
    <2> QED
      BY <2>1 DEF Serial
  <1>6. CASE TakeJob
    <2> DEFINE r == Head(queue)
    <2>1. queue \in Seq(Posts) /\ queue # <<>> /\ queue' = Tail(queue)
      BY <1>6 DEF TakeJob, JobsTypeOK
    <2>2. /\ r = queue[1] /\ r \in Posts /\ 1 \in 1 .. Len(queue)
          /\ Len(queue) \in Nat /\ Len(queue') = Len(queue) - 1
          /\ \A k \in 1 .. Len(queue') : queue'[k] = queue[k + 1] /\ k + 1 \in 1 .. Len(queue)
          /\ \A k \in 1 .. Len(queue) :
               k # 1 => k - 1 \in 1 .. Len(queue') /\ queue[k] = queue'[k - 1]
      BY <2>1, JobsHead
    <2>3. /\ req \in [Posts -> {"new", "refused", "pushing", "queued", "running", "over", "lost"}]
          /\ req' = [req EXCEPT ![r] = "running"] /\ work.pc = "idle"
      BY <1>6 DEF TakeJob, Doing, JobsTypeOK
    <2>4. work'.r = r /\ work'.pc = "begin"
      BY <1>6 DEF TakeJob, NoWork
    <2> HIDE DEF r
    <2>5. \A q \in Posts : req'[q] = "running" <=> work'.r = q
      BY <2>2, <2>3, <2>4, JobAssumption DEF Serial
    <2>6. \A k \in 1 .. Len(queue') : queue'[k] # r
      BY <2>2 DEF Serial
    <2>7. \A q \in Posts : req'[q] = "queued" <=> \E k \in 1 .. Len(queue') : queue'[k] = q
      <3>1. ASSUME NEW q \in Posts, q # r
            PROVE  req'[q] = "queued" <=> \E k \in 1 .. Len(queue') : queue'[k] = q
        <4>1. req'[q] = "queued" <=> \E k \in 1 .. Len(queue) : queue[k] = q
          BY <2>3, <3>1 DEF Serial
        <4>2. (\E k \in 1 .. Len(queue) : queue[k] = q) <=>
              \E k \in 1 .. Len(queue') : queue'[k] = q
          BY <2>2, <3>1
        <4> QED
          BY <4>1, <4>2
      <3> QED
        BY <2>2, <2>3, <2>6, <3>1
    <2>8. \A j, k \in 1 .. Len(queue') : queue'[j] = queue'[k] => j = k
      <3> SUFFICES ASSUME NEW j \in 1 .. Len(queue'), NEW k \in 1 .. Len(queue'),
                          queue'[j] = queue'[k]
                   PROVE  j = k
        OBVIOUS
      <3>1. j + 1 = k + 1
        BY <2>2 DEF Serial
      <3> QED
        BY <3>1
    <2>9. work'.r # Nil /\ work'.pc # "idle"
      BY <2>2, <2>4, JobAssumption
    <2> QED
      BY <2>5, <2>7, <2>8, <2>9 DEF Serial
  <1>7. CASE AtBox
    <2>1. work.pc # "idle" /\ work'.pc # "idle" /\ work'.r = work.r
      BY <1>7, AtBoxGoes DEF OnBox
    <2> QED
      BY <1>7, <2>1, AtBoxGoes DEF Serial, Apart
  <1>8. CASE RecordOutcome
    <2>1. work' \in WorkType /\ work'.r = work.r /\ work'.pc # "idle" /\ work.pc # "idle"
      BY <1>8, OutcomeGoes, JobsRecords
    <2> QED
      BY <1>8, <2>1 DEF Serial, RecordOutcome, jobs
  <1>9. CASE RecordFailure
    <2>1. work' \in WorkType /\ work'.r = work.r /\ work'.pc # "idle" /\ work.pc # "idle"
      BY <1>9, FailureGoes, JobsRecords
    <2> QED
      BY <1>9, <2>1 DEF Serial, RecordFailure, jobs
  <1>10. CASE ReleaseLock
    <2>1. work' \in WorkType /\ work'.r = work.r /\ work'.pc # "idle" /\ work.pc # "idle"
      BY <1>10, JobsRecords, GoesTo DEF ReleaseLock, Doing, Stages
    <2> QED
      BY <1>10, <2>1 DEF Serial, ReleaseLock, Goto, jobs
  <1>11. CASE Finish
    <2>1. work' \in WorkType /\ work'.r = work.r /\ work'.pc # "idle" /\ work.pc # "idle"
      BY <1>11, FinishGoes
    <2> QED
      BY <1>11, <2>1 DEF Serial, Finish, jobs
  <1>12. CASE CloseChannels
    <2>1. work.r \in Posts /\ req[work.r] = "running"
      BY <1>12, AtWork DEF CloseChannels, Doing
    <2>2. work' = NoWork /\ req' = [req EXCEPT ![work.r] = "over"] /\ queue' = queue
          /\ req \in [Posts -> {"new", "refused", "pushing", "queued", "running", "over", "lost"}]
      BY <1>12 DEF CloseChannels, jobs, JobsTypeOK
    <2> QED
      BY <2>1, <2>2, JobsFirsts, JobAssumption DEF Serial
  <1>13. ASSUME NEW c \in Clients, NEW r \in Posts, Subscribe(c, r)
        PROVE  Serial'
    BY <1>13 DEF Serial, Subscribe, Reader, jobs
  <1>14. ASSUME NEW c \in Clients, Forward(c) PROVE Serial'
    BY <1>14 DEF Serial, Forward, Reader, jobs
  <1>15. ASSUME NEW c \in Clients, SeeClosed(c) PROVE Serial'
    BY <1>15 DEF Serial, SeeClosed, Reader, jobs
  <1>16. ASSUME NEW c \in Clients, Disconnect(c) PROVE Serial'
    BY <1>16 DEF Serial, Disconnect, Reader, jobs
  <1>17. CASE PruneBegins
    BY <1>17 DEF Serial, PruneBegins, Pruner, jobs
  <1>18. ASSUME NEW c \in Containers, PruneRemoves(c) PROVE Serial'
    BY <1>18 DEF Serial, PruneRemoves, Pruner, jobs
  <1>19. CASE PruneEnds
    BY <1>19 DEF Serial, PruneEnds, Pruner, jobs
  <1>20. CASE Shutdown
    BY <1>20 DEF Serial, Shutdown, jobs
  <1>21. CASE StopReturns
    BY <1>21 DEF Serial, StopReturns, jobs
  <1>22. CASE Restart
    <2>1. work' = NoWork /\ queue' = <<>> /\ \A r \in Posts : req'[r] \notin {"running", "queued"}
      BY <1>22 DEF Restart, JobsTypeOK
    <2>2. Len(<<>>) = 0
      BY EmptySeq
    <2> QED
      BY <2>1, <2>2, JobsFirsts, JobAssumption DEF Serial
  <1>23. CASE UNCHANGED jobVars
    BY <1>23 DEF Serial, jobVars, jobs
  <1> QED
    BY <1>1, <1>2, <1>3, <1>4, <1>5, <1>6, <1>7, <1>8, <1>9, <1>10, <1>11,
       <1>12, <1>13, <1>14, <1>15, <1>16, <1>17, <1>18, <1>19, <1>20, <1>21,
       <1>22, <1>23 DEF JobsNext, Working, AtBox

LEMMA KeptKept ==
  ASSUME JobsTypeOK, Serial, Turned, Kept, [JobsNext]_jobVars
  PROVE  Kept'
  <1>1. ASSUME NEW r \in Posts, Refuse(r) PROVE Kept'
    <2>1. /\ req \in [Posts -> {"new", "refused", "pushing", "queued", "running", "over", "lost"}]
          /\ req[r] = "new" /\ work.r # r /\ r \notin known
      BY <1>1 DEF Refuse, JobsTypeOK, Kept, Serial
    <2>2. UNCHANGED <<work, job, known>> /\ req' = [req EXCEPT ![r] = "refused"]
      BY <1>1 DEF Refuse, jobs
    <2> QED
      BY <2>1, <2>2 DEF Kept, Waits
  <1>2. ASSUME NEW r \in Posts, Push(r) PROVE Kept'
    <2>1. /\ req \in [Posts -> {"new", "refused", "pushing", "queued", "running", "over", "lost"}]
          /\ req[r] = "pushing" /\ req' = [req EXCEPT ![r] = "queued"] /\
             UNCHANGED <<work, job, known>>
      BY <1>2 DEF Push, JobsTypeOK
    <2> QED
      BY <2>1 DEF Kept, Waits
  <1>3. ASSUME NEW r \in Posts, EvictExpired(r) PROVE Kept'
    <2>1. /\ r \in known /\ job[r].status \in Terminal /\ known' = known \ {r}
          /\ job \in [Posts -> StateType] /\ job' = [job EXCEPT ![r] = NoJob] /\
             UNCHANGED <<req, work>>
      BY <1>3, JobsRecords DEF EvictExpired
    <2>2. ~Waits(r) /\ (work.r = r => work.pc = "close")
      BY <2>1 DEF Kept, Waits, Serial
    <2> QED
      BY <2>1, <2>2, JobsFirsts DEF Kept, Waits
  <1>4. ASSUME NEW r \in Posts, NEW c \in Containers, UpdateContainer(r, c)
        PROVE  Kept'
    <2>1. /\ req \in [Posts -> {"new", "refused", "pushing", "queued", "running", "over", "lost"}]
          /\ req[r] = "new" /\ work.r # r /\ r \notin known
      BY <1>4 DEF UpdateContainer, Enqueue, JobsTypeOK, Kept, Serial
    <2>2. UNCHANGED <<work, job>> /\ known' = known \cup {r} /\
          req' = [req EXCEPT ![r] = "pushing"]
      BY <1>4 DEF UpdateContainer, Enqueue, jobs
    <2> QED
      BY <2>1, <2>2 DEF Kept, Waits
  <1>5. ASSUME NEW r \in Posts, NEW s \in Stacks, UpdateStack(r, s)
        PROVE  Kept'
    <2>1. /\ req \in [Posts -> {"new", "refused", "pushing", "queued", "running", "over", "lost"}]
          /\ req[r] = "new" /\ work.r # r /\ r \notin known
      BY <1>5 DEF UpdateStack, Enqueue, JobsTypeOK, Kept, Serial
    <2>2. UNCHANGED <<work, job>> /\ known' = known \cup {r} /\
          req' = [req EXCEPT ![r] = "pushing"]
      BY <1>5 DEF UpdateStack, Enqueue, jobs
    <2> QED
      BY <2>1, <2>2 DEF Kept, Waits
  <1>6. CASE TakeJob
    <2> DEFINE r == Head(queue)
    <2>1. queue \in Seq(Posts) /\ queue # <<>> /\ UNCHANGED <<known, job>>
      BY <1>6 DEF TakeJob, JobsTypeOK
    <2>2. r = queue[1] /\ r \in Posts /\ 1 \in 1 .. Len(queue)
      BY <2>1, JobsHead
    <2>3. /\ req \in [Posts -> {"new", "refused", "pushing", "queued", "running", "over", "lost"}]
          /\ req' = [req EXCEPT ![r] = "running"] /\ work.pc = "idle"
      BY <1>6 DEF TakeJob, Doing, JobsTypeOK
    <2>4. work'.r = r /\ work'.pc = "begin"
      BY <1>6 DEF TakeJob, NoWork
    <2>5. req[r] = "queued"
      BY <2>2 DEF Serial
    <2> HIDE DEF r
    <2> QED
      BY <2>1, <2>2, <2>3, <2>4, <2>5 DEF Kept, Waits
  <1>7. CASE AtBox
    <2>1. work.pc # "close" /\ work'.pc # "close" /\ work'.r = work.r /\ UNCHANGED <<req, known>>
      BY <1>7, AtBoxGoes DEF OnBox, Apart
    <2>2. work.r \in Posts
      BY <1>7, AtBoxGoes, AtContainer
    <2>3. \A q \in Posts : job'[q].status \in Terminal => job[q].status \in Terminal
      BY <1>7, <2>2, AtBoxGoes, SetsStatus
    <2> QED
      BY <2>1, <2>3 DEF Kept, Waits
  <1>8. CASE RecordOutcome
    <2>1. /\ work'.r = work.r /\ work'.pc # "close" /\ work.pc # "close"
          /\ \A q \in Posts : job'[q].status = job[q].status
      BY <1>8, OutcomeGoes
    <2> QED
      BY <1>8, <2>1 DEF Kept, Waits, RecordOutcome, jobs
  <1>9. CASE RecordFailure
    <2>1. /\ work'.r = work.r /\ work'.pc # "close" /\ work.pc # "close"
          /\ \A q \in Posts : job'[q].status = job[q].status
      BY <1>9, FailureGoes
    <2> QED
      BY <1>9, <2>1 DEF Kept, Waits, RecordFailure, jobs
  <1>10. CASE ReleaseLock
    <2>1. /\ work'.r = work.r /\ work'.pc # "close" /\ work.pc # "close"
          /\ \A q \in Posts : job'[q].status = job[q].status
      BY <1>10, JobsRecords, GoesTo DEF ReleaseLock, Doing, Stages, jobs
    <2> QED
      BY <1>10, <2>1 DEF Kept, Waits, ReleaseLock, Goto, jobs
  <1>11. CASE Finish
    <2>1. /\ work.r \in Posts /\ work'.r = work.r /\ work'.pc = "close" /\ work.pc = "finish"
          /\ \A q \in Posts : q # work.r => job'[q] = job[q]
          /\ job'[work.r].status \in Terminal
      BY <1>11, FinishGoes DEF Terminal
    <2>2. UNCHANGED <<req, known>>
      BY <1>11 DEF Finish
    <2> QED
      BY <2>1, <2>2 DEF Kept, Waits
  <1>12. CASE CloseChannels
    <2>1. work.r \in Posts /\ req[work.r] = "running" /\ work.pc = "close"
      BY <1>12, AtWork DEF CloseChannels, Doing
    <2>2. work' = NoWork /\ req' = [req EXCEPT ![work.r] = "over"] /\ UNCHANGED <<job, known>>
          /\ req \in [Posts -> {"new", "refused", "pushing", "queued", "running", "over", "lost"}]
      BY <1>12 DEF CloseChannels, jobs, JobsTypeOK
    <2> QED
      BY <2>1, <2>2, JobsFirsts, JobAssumption DEF Kept, Waits
  <1>13. ASSUME NEW c \in Clients, NEW r \in Posts, Subscribe(c, r)
        PROVE  Kept'
    BY <1>13 DEF Kept, Waits, Subscribe, Reader, jobs
  <1>14. ASSUME NEW c \in Clients, Forward(c) PROVE Kept'
    BY <1>14 DEF Kept, Waits, Forward, Reader, jobs
  <1>15. ASSUME NEW c \in Clients, SeeClosed(c) PROVE Kept'
    BY <1>15 DEF Kept, Waits, SeeClosed, Reader, jobs
  <1>16. ASSUME NEW c \in Clients, Disconnect(c) PROVE Kept'
    BY <1>16 DEF Kept, Waits, Disconnect, Reader, jobs
  <1>17. CASE PruneBegins
    BY <1>17 DEF Kept, Waits, PruneBegins, Pruner, jobs
  <1>18. ASSUME NEW c \in Containers, PruneRemoves(c) PROVE Kept'
    BY <1>18 DEF Kept, Waits, PruneRemoves, Pruner, jobs
  <1>19. CASE PruneEnds
    BY <1>19 DEF Kept, Waits, PruneEnds, Pruner, jobs
  <1>20. CASE Shutdown
    BY <1>20 DEF Kept, Waits, Shutdown, jobs
  <1>21. CASE StopReturns
    BY <1>21 DEF Kept, Waits, StopReturns, jobs
  <1>22. CASE Restart
    <2>1. /\ work' = NoWork /\ known' = {} /\ job' = [r \in Posts |-> NoJob]
          /\ \A r \in Posts : req'[r] \notin {"pushing", "queued"}
      BY <1>22 DEF Restart, JobsTypeOK
    <2> QED
      BY <2>1, JobsFirsts, JobAssumption DEF Kept, Waits
  <1>23. CASE UNCHANGED jobVars
    BY <1>23 DEF Kept, Waits, jobVars, jobs
  <1> QED
    BY <1>1, <1>2, <1>3, <1>4, <1>5, <1>6, <1>7, <1>8, <1>9, <1>10, <1>11,
       <1>12, <1>13, <1>14, <1>15, <1>16, <1>17, <1>18, <1>19, <1>20, <1>21,
       <1>22, <1>23 DEF JobsNext, Working, AtBox

(* A step that leaves the turns, the to-do lists and a request's place alone. *)
LEMMA TurnedSame ==
  ASSUME Turned, UNCHANGED <<turn, todo, pruning>>,
         \A r \in Posts : (Waits(r) \/ Works(r)) <=> (Waits(r) \/ Works(r))'
  PROVE  Turned'
  BY DEF Turned, AllFree, Has

LEMMA TurnedKept ==
  ASSUME JobsTypeOK, Serial, Turned, [JobsNext]_jobVars
  PROVE  Turned'
  <1>1. ASSUME NEW r \in Posts, Refuse(r) PROVE Turned'
    <2>1. \A q \in Posts : (Waits(q) \/ Works(q)) <=> (Waits(q) \/ Works(q))'
      <3>1. /\ req \in [Posts -> {"new", "refused", "pushing", "queued", "running", "over", "lost"}]
           /\ req[r] = "new" /\ req' = [req EXCEPT ![r] = "refused"] /\ work' = work
        BY <1>1 DEF Refuse, JobsTypeOK
      <3> QED
        BY <3>1 DEF Waits, Works
    <2>2. UNCHANGED <<turn, todo, pruning>>
      BY <1>1 DEF Refuse, docker
    <2> QED
      BY <2>1, <2>2, TurnedSame
  <1>2. ASSUME NEW r \in Posts, Push(r) PROVE Turned'
    <2>1. \A q \in Posts : (Waits(q) \/ Works(q)) <=> (Waits(q) \/ Works(q))'
      <3>1. /\ req \in [Posts -> {"new", "refused", "pushing", "queued", "running", "over", "lost"}]
           /\ req[r] = "pushing" /\ req' = [req EXCEPT ![r] = "queued"] /\ work' = work
        BY <1>2 DEF Push, JobsTypeOK
      <3> QED
        BY <3>1 DEF Waits, Works
    <2>2. UNCHANGED <<turn, todo, pruning>>
      BY <1>2 DEF Push, docker
    <2> QED
      BY <2>1, <2>2, TurnedSame
  <1>3. ASSUME NEW r \in Posts, EvictExpired(r) PROVE Turned'
    <2>1. \A q \in Posts : (Waits(q) \/ Works(q)) <=> (Waits(q) \/ Works(q))'
      BY <1>3 DEF Waits, Works, EvictExpired
    <2>2. UNCHANGED <<turn, todo, pruning>>
      BY <1>3 DEF EvictExpired, docker
    <2> QED
      BY <2>1, <2>2, TurnedSame
  <1>4. ASSUME NEW r \in Posts, NEW c \in Containers, UpdateContainer(r, c)
        PROVE  Turned'
    <2>1. /\ req \in [Posts -> {"new", "refused", "pushing", "queued", "running", "over", "lost"}]
          /\ req[r] = "new" /\ req' = [req EXCEPT ![r] = "pushing"] /\ UNCHANGED <<work, pruning>>
          /\ todo \in [Posts -> Seq(Containers)] /\ turn \in [Keys -> Posts \cup {Nil}]
      BY <1>4 DEF UpdateContainer, Enqueue, docker, JobsTypeOK
    <2>2. work.r # r
      BY <2>1 DEF Serial
    <2>3. Waits(r)' /\ \A q \in Posts : q # r =>
          ((Waits(q) \/ Works(q)) <=> (Waits(q) \/ Works(q))')
      BY <2>1, <2>2 DEF Waits, Works
    <2>4. /\ todo' = [todo EXCEPT ![r] = <<c>>] /\ turn' = [turn EXCEPT ![LockKey(c)] = r]
          /\ turn[LockKey(c)] = Nil /\ ~pruning /\ LockKey(c) \in Keys
      BY <1>4, LockKeys DEF UpdateContainer, Free
    <2>5. /\ todo'[r] = <<c>> /\ todo'[r] # <<>> /\ turn'[LockKey(c)] = r
          /\ \A d \in Containers : Has(r, d)' => d = c
      BY <2>1, <2>4, OneLong DEF Has
    <2>6. ASSUME NEW q \in Posts, q # r
          PROVE  /\ todo'[q] = todo[q]
                 /\ \A d \in Containers : Has(q, d)' /\ turn[LockKey(d)] = q =>
                       turn'[LockKey(d)] = q
      BY <2>1, <2>4, <2>6, LockKeys, JobAssumption
    <2>7. \A q \in Posts, d \in Containers : q # r => (Has(q, d) <=> Has(q, d)')
      BY <2>6 DEF Has
    <2>8. ASSUME NEW q \in Posts, q # r
          PROVE  IF (Waits(q) \/ Works(q))'
                 THEN /\ todo'[q] # <<>>
                      /\ \A d \in Containers : Has(q, d)' => turn'[LockKey(d)] = q
                 ELSE todo'[q] = <<>>
      BY <2>3, <2>6, <2>7, <2>8 DEF Turned
    <2> QED
      BY <2>1, <2>3, <2>4, <2>5, <2>8 DEF Turned
  <1>5. ASSUME NEW r \in Posts, NEW s \in Stacks, UpdateStack(r, s)
        PROVE  Turned'
    <2>1. /\ req \in [Posts -> {"new", "refused", "pushing", "queued", "running", "over", "lost"}]
          /\ req[r] = "new" /\ req' = [req EXCEPT ![r] = "pushing"] /\ UNCHANGED <<work, pruning>>
          /\ todo \in [Posts -> Seq(Containers)] /\ turn \in [Keys -> Posts \cup {Nil}]
      BY <1>5 DEF UpdateStack, Enqueue, docker, JobsTypeOK
    <2>2. work.r # r
      BY <2>1 DEF Serial
    <2>3. Waits(r)' /\ \A q \in Posts : q # r =>
          ((Waits(q) \/ Works(q)) <=> (Waits(q) \/ Works(q))')
      BY <2>1, <2>2 DEF Waits, Works
    <2>4. /\ turn' = [turn EXCEPT ![s] = r] /\ turn[s] = Nil /\ ~pruning /\ s \in Keys /\ s # Nil
      BY <1>5, JobAssumption DEF UpdateStack, Free, Keys
    <2>5. PICK order \in SetToSeqs(Outdated(s)) : todo' = [todo EXCEPT ![r] = order]
      BY <1>5 DEF UpdateStack
    <2>6. /\ order # <<>>
          /\ \A c \in Containers : c \in Outdated(s) <=> \E k \in 1 .. Len(order) : order[k] = c
      <3>1. Outdated(s) \in SUBSET Containers /\ Outdated(s) # {}
        BY <1>5 DEF UpdateStack, Outdated, JobsTypeOK
      <3> QED
        BY <3>1, OrderHasAll
    <2>7. todo'[r] = order
      BY <2>1, <2>5
    <2>8. \A d \in Containers : Has(r, d)' => turn'[LockKey(d)] = r
      BY <2>1, <2>4, <2>6, <2>7 DEF Has, Outdated, LockKey
    <2>9. ASSUME NEW q \in Posts, q # r
          PROVE  /\ todo'[q] = todo[q]
                 /\ \A d \in Containers : turn[LockKey(d)] = q => turn'[LockKey(d)] = q
      BY <2>1, <2>4, <2>5, <2>9, LockKeys, JobAssumption
    <2>10. \A q \in Posts, d \in Containers : q # r => (Has(q, d) <=> Has(q, d)')
      BY <2>9 DEF Has
    <2>11. ASSUME NEW q \in Posts, q # r
           PROVE  IF (Waits(q) \/ Works(q))'
                  THEN /\ todo'[q] # <<>>
                       /\ \A d \in Containers : Has(q, d)' => turn'[LockKey(d)] = q
                  ELSE todo'[q] = <<>>
      BY <2>3, <2>9, <2>10, <2>11 DEF Turned
    <2> QED
      BY <2>1, <2>3, <2>4, <2>6, <2>7, <2>8, <2>11 DEF Turned
  <1>6. CASE TakeJob
    <2>1. \A q \in Posts : (Waits(q) \/ Works(q)) <=> (Waits(q) \/ Works(q))'
      <3> DEFINE r == Head(queue)
      <3>1. queue \in Seq(Posts) /\ queue # <<>>
        BY <1>6 DEF TakeJob, JobsTypeOK
      <3>2. r = queue[1] /\ r \in Posts /\ 1 \in 1 .. Len(queue)
        BY <3>1, JobsHead
      <3>3. /\ req \in [Posts -> {"new", "refused", "pushing", "queued", "running", "over", "lost"}]
           /\ req' = [req EXCEPT ![r] = "running"] /\ work.pc = "idle"
        BY <1>6 DEF TakeJob, Doing, JobsTypeOK
      <3>4. work'.r = r /\ work'.pc = "begin" /\ req[r] = "queued"
        BY <1>6, <3>2 DEF TakeJob, NoWork, Serial
      <3> HIDE DEF r
      <3> QED
        BY <3>2, <3>3, <3>4 DEF Waits, Works, OnBox
    <2>2. UNCHANGED <<turn, todo, pruning>>
      BY <1>6 DEF TakeJob, docker
    <2> QED
      BY <2>1, <2>2, TurnedSame
  <1>7. CASE AtBox
    <2>1. \A q \in Posts : (Waits(q) \/ Works(q)) <=> (Waits(q) \/ Works(q))'
      BY <1>7, AtBoxGoes DEF Waits, Works, Apart
    <2>2. UNCHANGED <<turn, todo, pruning>>
      BY <1>7, AtBoxGoes DEF Apart
    <2> QED
      BY <2>1, <2>2, TurnedSame
  <1>8. CASE RecordOutcome
    <2>1. /\ work.r \in Posts /\ work.pc \in OnBox /\ work'.r = work.r /\ req' = req
          /\ Waits(work.r) = FALSE /\ UNCHANGED <<turn, pruning>> /\
             todo \in [Posts -> Seq(Containers)]
          /\ todo[work.r] # <<>>
      <3>1. work.r \in Posts /\ work.pc \in OnBox /\ work'.r = work.r
        BY <1>8, OutcomeGoes DEF OnBox
      <3>2. req' = req /\ UNCHANGED <<turn, pruning>>
        BY <1>8 DEF RecordOutcome, docker
      <3>3. req[work.r] = "running" /\ todo[work.r] # <<>>
        BY <3>1, AtContainer
      <3>4. todo \in [Posts -> Seq(Containers)]
        BY DEF JobsTypeOK
      <3> QED
        BY <3>1, <3>2, <3>3, <3>4 DEF Waits
    <2>2. \A q \in Posts : q # work.r => /\ (Waits(q) \/ Works(q)) <=> (Waits(q) \/ Works(q))'
                                       /\ todo'[q] = todo[q]
      BY <1>8, <2>1 DEF Waits, Works, RecordOutcome
    <2>3. \A q \in Posts, d \in Containers : q # work.r => (Has(q, d) <=> Has(q, d)')
      BY <2>2 DEF Has
    <2> DEFINE s == todo[work.r]
    <2>4. /\ todo'[work.r] = Tail(s) /\ Len(s) \in Nat \ {0}
          /\ Len(Tail(s)) = Len(s) - 1 /\ (Len(s) = 1 => Tail(s) = <<>>)
          /\ \A k \in 1 .. Len(Tail(s)) : Tail(s)[k] = s[k + 1] /\ k + 1 \in 1 .. Len(s)
      BY <1>8, <2>1, JobsHead DEF RecordOutcome
    <2>5. CASE Len(s) > 1
      <3>1. work'.pc = "begin" /\ Works(work.r) /\ Works(work.r)'
        BY <1>8, <2>1, <2>5, OutcomeGoes DEF Works, OnBox
      <3>2. todo'[work.r] # <<>>
        <4> HIDE DEF s
        <4>1. Len(Tail(s)) # 0 /\ todo'[work.r] = Tail(s)
          BY <2>4, <2>5
        <4>2. Len(<<>>) = 0
          BY EmptySeq
        <4> QED
          BY <4>1, <4>2
      <3>3. \A d \in Containers : Has(work.r, d)' => Has(work.r, d)
        BY <2>1, <2>4 DEF Has
      <3> QED
        BY <2>1, <2>2, <2>3, <3>1, <3>2, <3>3 DEF Turned, AllFree
    <2>6. CASE ~(Len(s) > 1)
      <3>1. ~Waits(work.r)' /\ ~Works(work.r)' /\ todo'[work.r] = <<>>
        BY <1>8, <2>1, <2>4, <2>6, OutcomeGoes DEF Works, Waits, OnBox
      <3> QED
        BY <2>1, <2>2, <2>3, <3>1 DEF Turned, AllFree
    <2> QED
      BY <2>5, <2>6
  <1>9. CASE RecordFailure
    <2>1. /\ work.r \in Posts /\ work.pc \in OnBox /\ work'.r = work.r /\ req' = req
          /\ Waits(work.r) = FALSE /\ UNCHANGED <<turn, pruning>> /\
             todo \in [Posts -> Seq(Containers)]
          /\ todo[work.r] # <<>>
      <3>1. work.r \in Posts /\ work.pc \in OnBox /\ work'.r = work.r
        BY <1>9, FailureGoes DEF OnBox
      <3>2. req' = req /\ UNCHANGED <<turn, pruning>>
        BY <1>9 DEF RecordFailure, docker
      <3>3. req[work.r] = "running" /\ todo[work.r] # <<>>
        BY <3>1, AtContainer
      <3>4. todo \in [Posts -> Seq(Containers)]
        BY DEF JobsTypeOK
      <3> QED
        BY <3>1, <3>2, <3>3, <3>4 DEF Waits
    <2>2. \A q \in Posts : q # work.r => /\ (Waits(q) \/ Works(q)) <=> (Waits(q) \/ Works(q))'
                                       /\ todo'[q] = todo[q]
      BY <1>9, <2>1 DEF Waits, Works, RecordFailure
    <2>3. \A q \in Posts, d \in Containers : q # work.r => (Has(q, d) <=> Has(q, d)')
      BY <2>2 DEF Has
    <2>4. ~Waits(work.r)' /\ ~Works(work.r)' /\ todo'[work.r] = <<>>
      BY <1>9, <2>1, FailureGoes DEF Works, Waits, OnBox, RecordFailure
    <2> QED
      BY <2>1, <2>2, <2>3, <2>4 DEF Turned, AllFree
  <1>10. CASE ReleaseLock
    <2>1. /\ work.pc = "returned" /\ work'.pc = "finish" /\ work'.r = work.r
          /\ UNCHANGED <<req, todo, pruning>> /\ turn \in [Keys -> Posts \cup {Nil}]
          /\ turn' = [k \in Keys |-> IF turn[k] = work.r THEN Nil ELSE turn[k]]
      BY <1>10, JobsRecords, GoesTo DEF ReleaseLock, Doing, Stages, docker,
         JobsTypeOK
    <2>2. work.r \in Posts /\ req[work.r] = "running"
      BY <2>1, AtWork
    <2>3. \A q \in Posts : (Waits(q) \/ Works(q)) <=> (Waits(q) \/ Works(q))'
      BY <2>1 DEF Waits, Works, OnBox
    <2>4. \A q \in Posts : Waits(q) \/ Works(q) => q # work.r
      BY <2>1, <2>2 DEF Waits, Works, OnBox
    <2>5. \A q \in Posts, d \in Containers : Has(q, d) <=> Has(q, d)'
      BY <2>1 DEF Has
    <2>6. \A q \in Posts, k \in Keys : turn[k] = q /\ q # work.r => turn'[k] = q
      BY <2>1
    <2>7. pruning' => AllFree'
      BY <2>1 DEF Turned, AllFree
    <2> QED
      BY <2>1, <2>3, <2>4, <2>5, <2>6, <2>7, LockKeys DEF Turned
  <1>11. CASE Finish
    <2>1. \A q \in Posts : (Waits(q) \/ Works(q)) <=> (Waits(q) \/ Works(q))'
      <3>1. work.pc = "finish" /\ work'.pc = "close" /\ req' = req
        BY <1>11, FinishGoes DEF Finish
      <3> QED
        BY <3>1 DEF Waits, Works, OnBox
    <2>2. UNCHANGED <<turn, todo, pruning>>
      BY <1>11 DEF Finish, docker
    <2> QED
      BY <2>1, <2>2, TurnedSame
  <1>12. CASE CloseChannels
    <2>1. \A q \in Posts : (Waits(q) \/ Works(q)) <=> (Waits(q) \/ Works(q))'
      <3>1. work.pc = "close" /\ work'.pc = "idle"
        BY <1>12, JobsFirsts DEF CloseChannels, Doing
      <3>2. work.r \in Posts /\ req[work.r] = "running"
        BY <3>1, AtWork
      <3>3. /\ req \in [Posts -> {"new", "refused", "pushing", "queued", "running", "over", "lost"}]
           /\ req' = [req EXCEPT ![work.r] = "over"]
        BY <1>12 DEF CloseChannels, JobsTypeOK
      <3> QED
        BY <3>1, <3>2, <3>3 DEF Waits, Works, OnBox
    <2>2. UNCHANGED <<turn, todo, pruning>>
      BY <1>12 DEF CloseChannels, docker
    <2> QED
      BY <2>1, <2>2, TurnedSame
  <1>13. ASSUME NEW c \in Clients, NEW r \in Posts, Subscribe(c, r)
        PROVE  Turned'
    <2>1. \A q \in Posts : (Waits(q) \/ Works(q)) <=> (Waits(q) \/ Works(q))'
      BY <1>13 DEF Waits, Works, Subscribe, Reader
    <2>2. UNCHANGED <<turn, todo, pruning>>
      BY <1>13 DEF Subscribe, Reader, docker
    <2> QED
      BY <2>1, <2>2, TurnedSame
  <1>14. ASSUME NEW c \in Clients, Forward(c) PROVE Turned'
    <2>1. \A q \in Posts : (Waits(q) \/ Works(q)) <=> (Waits(q) \/ Works(q))'
      BY <1>14 DEF Waits, Works, Forward, Reader
    <2>2. UNCHANGED <<turn, todo, pruning>>
      BY <1>14 DEF Forward, Reader, docker
    <2> QED
      BY <2>1, <2>2, TurnedSame
  <1>15. ASSUME NEW c \in Clients, SeeClosed(c) PROVE Turned'
    <2>1. \A q \in Posts : (Waits(q) \/ Works(q)) <=> (Waits(q) \/ Works(q))'
      BY <1>15 DEF Waits, Works, SeeClosed, Reader
    <2>2. UNCHANGED <<turn, todo, pruning>>
      BY <1>15 DEF SeeClosed, Reader, docker
    <2> QED
      BY <2>1, <2>2, TurnedSame
  <1>16. ASSUME NEW c \in Clients, Disconnect(c) PROVE Turned'
    <2>1. \A q \in Posts : (Waits(q) \/ Works(q)) <=> (Waits(q) \/ Works(q))'
      BY <1>16 DEF Waits, Works, Disconnect, Reader
    <2>2. UNCHANGED <<turn, todo, pruning>>
      BY <1>16 DEF Disconnect, Reader, docker
    <2> QED
      BY <2>1, <2>2, TurnedSame
  <1>17. CASE PruneBegins
    <2>1. UNCHANGED <<req, work, todo, turn>> /\ (pruning' => AllFree)
      BY <1>17 DEF PruneBegins, Pruner
    <2> QED
      BY <2>1 DEF Turned, AllFree, Waits, Works, Has
  <1>18. ASSUME NEW c \in Containers, PruneRemoves(c) PROVE Turned'
    <2>1. \A q \in Posts : (Waits(q) \/ Works(q)) <=> (Waits(q) \/ Works(q))'
      BY <1>18 DEF Waits, Works, PruneRemoves, Pruner
    <2>2. UNCHANGED <<turn, todo, pruning>>
      BY <1>18 DEF PruneRemoves, Pruner, docker
    <2> QED
      BY <2>1, <2>2, TurnedSame
  <1>19. CASE PruneEnds
    <2>1. UNCHANGED <<req, work, todo, turn>> /\ (pruning' => AllFree)
      BY <1>19 DEF PruneEnds, Pruner
    <2> QED
      BY <2>1 DEF Turned, AllFree, Waits, Works, Has
  <1>20. CASE Shutdown
    <2>1. \A q \in Posts : (Waits(q) \/ Works(q)) <=> (Waits(q) \/ Works(q))'
      BY <1>20 DEF Waits, Works, Shutdown
    <2>2. UNCHANGED <<turn, todo, pruning>>
      BY <1>20 DEF Shutdown, docker
    <2> QED
      BY <2>1, <2>2, TurnedSame
  <1>21. CASE StopReturns
    <2>1. \A q \in Posts : (Waits(q) \/ Works(q)) <=> (Waits(q) \/ Works(q))'
      BY <1>21 DEF Waits, Works, StopReturns
    <2>2. UNCHANGED <<turn, todo, pruning>>
      BY <1>21 DEF StopReturns, docker
    <2> QED
      BY <2>1, <2>2, TurnedSame
  <1>22. CASE Restart
    <2>1. /\ work' = NoWork /\ todo' = [r \in Posts |-> <<>>] /\ ~pruning'
          /\ \A r \in Posts : req'[r] \notin {"pushing", "queued"}
      BY <1>22 DEF Restart, JobsTypeOK
    <2> QED
      BY <2>1, JobsFirsts DEF Turned, Waits, Works, OnBox
  <1>23. CASE UNCHANGED jobVars
    <2>1. \A q \in Posts : (Waits(q) \/ Works(q)) <=> (Waits(q) \/ Works(q))'
      BY <1>23 DEF Waits, Works, jobVars
    <2>2. UNCHANGED <<turn, todo, pruning>>
      BY <1>23 DEF jobVars, docker
    <2> QED
      BY <2>1, <2>2, TurnedSame
  <1> QED
    BY <1>1, <1>2, <1>3, <1>4, <1>5, <1>6, <1>7, <1>8, <1>9, <1>10, <1>11,
       <1>12, <1>13, <1>14, <1>15, <1>16, <1>17, <1>18, <1>19, <1>20, <1>21,
       <1>22, <1>23 DEF JobsNext, Working, AtBox

(* What a prune would spoil: at these stages the box of the container is   *)
(* what the step before left it in.                                        *)
LEMMA SparedSame ==
  ASSUME Spared, UNCHANGED <<work, box>>, todo'[work.r] = todo[work.r]
  PROVE  Spared'
  BY DEF Spared, PruneSparesUpdates, Doing, Cur

LEMMA SparedElsewhere ==
  ASSUME work'.pc \notin {"settle", "remove", "start", "verify", "verified"}
  PROVE  Spared'
  BY DEF Spared, PruneSparesUpdates, Doing

LEMMA SparedAtBox ==
  ASSUME JobsTypeOK, Serial, Turned, Spared, AtBox
  PROVE  Spared'
  <1>1. Cur \in Containers /\ box \in [Containers -> Boxes] /\ Cur' = Cur
    BY AtBoxGoes, AtContainer DEF JobsTypeOK, Cur, Apart
  <1>3. CASE Inspect
    BY <1>3, InspectGoes, SparedElsewhere DEF Onward
  <1>4. CASE Pull
    BY <1>4, PullGoes, SparedElsewhere DEF Onward
  <1>5. CASE Apply
    BY <1>1, <1>5, ApplyGoes DEF Onward, Spared, PruneSparesUpdates, Doing
  <1>6. CASE ComposeUp
    BY <1>1, <1>6, ComposeUpGoes DEF Onward, Spared, PruneSparesUpdates, Doing
  <1>7. CASE Settle
    BY <1>1, <1>7, SettleGoes DEF Onward, Spared, PruneSparesUpdates, Doing
  <1>8. CASE Stop
    BY <1>1, <1>8, StopGoes DEF Onward, Spared, PruneSparesUpdates, Doing
  <1>9. CASE RemoveOld
    BY <1>9, RemoveGoes, SparedElsewhere DEF Onward
  <1>10. CASE Create
    BY <1>1, <1>10, CreateGoes DEF Onward, Spared, PruneSparesUpdates, Doing
  <1>11. CASE StartNew
    BY <1>1, <1>11, StartGoes DEF Onward, Spared, PruneSparesUpdates, Doing
  <1>12. CASE Verify
    BY <1>1, <1>12, VerifyGoes DEF Onward, Spared, PruneSparesUpdates, Doing
  <1> QED
    BY <1>3, <1>4, <1>5, <1>6, <1>7, <1>8, <1>9, <1>10, <1>11, <1>12 DEF AtBox

LEMMA SparedKept ==
  ASSUME JobsTypeOK, Serial, Turned, Spared, [JobsNext]_jobVars
  PROVE  Spared'
  <1>1. ASSUME NEW r \in Posts, Refuse(r) PROVE Spared'
    BY <1>1, SparedSame DEF Refuse, docker
  <1>2. ASSUME NEW r \in Posts, Push(r) PROVE Spared'
    BY <1>2, SparedSame DEF Push, docker
  <1>3. ASSUME NEW r \in Posts, EvictExpired(r) PROVE Spared'
    BY <1>3, SparedSame DEF EvictExpired, docker
  <1>4. ASSUME NEW r \in Posts, NEW c \in Containers, UpdateContainer(r, c)
        PROVE  Spared'
    <2>1. work.r # r /\ UNCHANGED <<work, box>>
      BY <1>4 DEF UpdateContainer, Enqueue, docker, Serial
    <2>2. todo'[work.r] = todo[work.r]
      BY <1>4, <2>1 DEF UpdateContainer, Enqueue, JobsTypeOK
    <2> QED
      BY <2>1, <2>2, SparedSame
  <1>5. ASSUME NEW r \in Posts, NEW s \in Stacks, UpdateStack(r, s)
        PROVE  Spared'
    <2>1. work.r # r /\ UNCHANGED <<work, box>>
      BY <1>5 DEF UpdateStack, Enqueue, docker, Serial
    <2>2. todo'[work.r] = todo[work.r]
      BY <1>5, <2>1 DEF UpdateStack, Enqueue, JobsTypeOK
    <2> QED
      BY <2>1, <2>2, SparedSame
  <1>6. CASE TakeJob
    <2>1. work'.pc = "begin"
      BY <1>6 DEF TakeJob, NoWork
    <2> QED
      BY <2>1, SparedElsewhere
  <1>7. CASE AtBox
    BY <1>7, SparedAtBox
  <1>8. CASE RecordOutcome
    BY <1>8, OutcomeGoes, SparedElsewhere
  <1>9. CASE RecordFailure
    BY <1>9, FailureGoes, SparedElsewhere
  <1>10. CASE ReleaseLock
    <2>1. work'.pc = "finish"
      BY <1>10, JobsRecords, GoesTo DEF ReleaseLock, Stages
    <2> QED
      BY <2>1, SparedElsewhere
  <1>11. CASE Finish
    BY <1>11, FinishGoes, SparedElsewhere
  <1>12. CASE CloseChannels
    BY <1>12, JobsFirsts, SparedElsewhere DEF CloseChannels
  <1>13. ASSUME NEW c \in Clients, NEW r \in Posts, Subscribe(c, r)
        PROVE  Spared'
    BY <1>13, SparedSame DEF Subscribe, Reader, docker
  <1>14. ASSUME NEW c \in Clients, Forward(c) PROVE Spared'
    BY <1>14, SparedSame DEF Forward, Reader, docker
  <1>15. ASSUME NEW c \in Clients, SeeClosed(c) PROVE Spared'
    BY <1>15, SparedSame DEF SeeClosed, Reader, docker
  <1>16. ASSUME NEW c \in Clients, Disconnect(c) PROVE Spared'
    BY <1>16, SparedSame DEF Disconnect, Reader, docker
  <1>17. CASE PruneBegins
    BY <1>17, SparedSame DEF PruneBegins, Pruner, docker
  <1>18. ASSUME NEW c \in Containers, PruneRemoves(c) PROVE Spared'
    <2>1. work' = work /\ work.pc \notin OnBox
      BY <1>18, AtContainer DEF PruneRemoves, Pruner
    <2> QED
      BY <2>1, SparedElsewhere DEF OnBox
  <1>19. CASE PruneEnds
    BY <1>19, SparedSame DEF PruneEnds, Pruner, docker
  <1>20. CASE Shutdown
    BY <1>20, SparedSame DEF Shutdown, docker
  <1>21. CASE StopReturns
    BY <1>21, SparedSame DEF StopReturns, docker
  <1>22. CASE Restart
    BY <1>22, JobsFirsts, SparedElsewhere DEF Restart
  <1>23. CASE UNCHANGED jobVars
    BY <1>23, SparedSame DEF jobVars, docker
  <1> QED
    BY <1>1, <1>2, <1>3, <1>4, <1>5, <1>6, <1>7, <1>8, <1>9, <1>10, <1>11,
       <1>12, <1>13, <1>14, <1>15, <1>16, <1>17, <1>18, <1>19, <1>20, <1>21,
       <1>22, <1>23 DEF JobsNext, Working, AtBox

(* What leaves the list of updates was verified.                           *)
LEMMA VouchedSame ==
  ASSUME Vouched, cached' = cached, past.verified \subseteq past'.verified,
         work'.pc = "verified" => UNCHANGED work /\ todo'[work.r] = todo[work.r]
  PROVE  Vouched'
  BY DEF Vouched, Doing, Cur

LEMMA VouchedAtBox ==
  ASSUME JobsTypeOK, Serial, Turned, Vouched, AtBox
  PROVE  Vouched'
  <1>1. Cur \in Containers /\ Cur' = Cur /\ cached' = cached /\ work.r \in Posts /\
        past \in PastType
    BY AtBoxGoes, AtContainer, JobsRecords DEF Cur, Apart
  <1>2. CASE Verify
    <2>1. /\ past'.verified = past.verified \/ past'.verified = past.verified \cup {Cur}
          /\ work'.pc = "verified" => past'.verified = past.verified \cup {Cur}
      BY <1>1, <1>2, VerifyGoes DEF PastType
    <2> QED
      BY <1>1, <2>1 DEF Vouched, Doing
  <1>3. CASE ~Verify
    <2>1. work'.pc # "verified"
      BY <1>3, InspectGoes, PullGoes, ApplyGoes, ComposeUpGoes, SettleGoes,
         StopGoes, RemoveGoes,
         CreateGoes, StartGoes DEF AtBox, Onward
    <2>2. past.verified \subseteq past'.verified
      <3>1. CASE past' = past
        BY <3>1
      <3>2. CASE SetStatus(work.r, "pulling") \/ SetStatus(work.r, "recreating")
        BY <1>1, <3>2, SetsStatus, FansOut
      <3> QED
        BY <1>3, <3>1, <3>2, InspectGoes, PullGoes, ApplyGoes, ComposeUpGoes,
           SettleGoes, StopGoes,
           RemoveGoes, CreateGoes, StartGoes DEF AtBox
    <2> QED
      BY <1>1, <2>1, <2>2, VouchedSame
  <1> QED
    BY <1>2, <1>3

LEMMA VouchedKept ==
  ASSUME JobsTypeOK, Serial, Turned, Vouched, [JobsNext]_jobVars
  PROVE  Vouched'
  <1>1. ASSUME NEW r \in Posts, Refuse(r) PROVE Vouched'
    BY <1>1, VouchedSame DEF Refuse, tables
  <1>2. ASSUME NEW r \in Posts, Push(r) PROVE Vouched'
    BY <1>2, VouchedSame DEF Push, tables
  <1>3. ASSUME NEW r \in Posts, EvictExpired(r) PROVE Vouched'
    BY <1>3, VouchedSame DEF EvictExpired, tables
  <1>4. ASSUME NEW r \in Posts, NEW c \in Containers, UpdateContainer(r, c)
        PROVE  Vouched'
    <2>1. work.r # r /\ UNCHANGED <<work, cached, past>>
      BY <1>4 DEF UpdateContainer, Enqueue, tables, Serial
    <2>2. todo'[work.r] = todo[work.r]
      BY <1>4, <2>1 DEF UpdateContainer, Enqueue, JobsTypeOK
    <2> QED
      BY <2>1, <2>2, VouchedSame
  <1>5. ASSUME NEW r \in Posts, NEW s \in Stacks, UpdateStack(r, s)
        PROVE  Vouched'
    <2>1. work.r # r /\ UNCHANGED <<work, cached, past>>
      BY <1>5 DEF UpdateStack, Enqueue, tables, Serial
    <2>2. todo'[work.r] = todo[work.r]
      BY <1>5, <2>1 DEF UpdateStack, Enqueue, JobsTypeOK
    <2> QED
      BY <2>1, <2>2, VouchedSame
  <1>6. CASE TakeJob
    <2>1. work'.pc # "verified"
      BY <1>6 DEF TakeJob, NoWork
    <2>2. cached' = cached /\ past.verified \subseteq past'.verified
      BY <1>6 DEF TakeJob, tables
    <2> QED
      BY <2>1, <2>2, VouchedSame
  <1>7. CASE AtBox
    BY <1>7, VouchedAtBox
  <1>8. CASE RecordOutcome
    <2>1. work.pc = "verified" /\ work'.pc # "verified" /\ past' = past /\
          cached' = cached \ {Cur}
      BY <1>8, OutcomeGoes DEF RecordOutcome, Evicts, Doing
    <2> QED
      BY <2>1 DEF Vouched, Doing
  <1>9. CASE RecordFailure
    <2>1. work.pc = "failed" /\ work'.pc # "verified" /\ past' = past /\ cached' = cached \ {Nil}
      BY <1>9, FailureGoes DEF RecordFailure, Evicts, Doing
    <2>2. cached' = cached
      BY <2>1, JobAssumption DEF JobsTypeOK
    <2> QED
      BY <2>1, <2>2, VouchedSame
  <1>10. CASE ReleaseLock
    <2>1. work'.pc # "verified"
      BY <1>10, JobsRecords, GoesTo DEF ReleaseLock, Stages
    <2>2. cached' = cached /\ past.verified \subseteq past'.verified
      BY <1>10 DEF ReleaseLock, tables
    <2> QED
      BY <2>1, <2>2, VouchedSame
  <1>11. CASE Finish
    <2>1. work'.pc # "verified"
      BY <1>11, FinishGoes
    <2>2. cached' = cached /\ past.verified \subseteq past'.verified
      BY <1>11, FinishGoes, FansOut DEF Finish, tables
    <2> QED
      BY <2>1, <2>2, VouchedSame
  <1>12. CASE CloseChannels
    <2>1. work'.pc # "verified"
      BY <1>12, JobsFirsts DEF CloseChannels
    <2>2. cached' = cached /\ past.verified \subseteq past'.verified
      BY <1>12 DEF CloseChannels, tables
    <2> QED
      BY <2>1, <2>2, VouchedSame
  <1>13. ASSUME NEW c \in Clients, NEW r \in Posts, Subscribe(c, r)
        PROVE  Vouched'
    BY <1>13, VouchedSame DEF Subscribe, Reader, tables
  <1>14. ASSUME NEW c \in Clients, Forward(c) PROVE Vouched'
    BY <1>14, VouchedSame DEF Forward, Reader, tables
  <1>15. ASSUME NEW c \in Clients, SeeClosed(c) PROVE Vouched'
    BY <1>15, VouchedSame DEF SeeClosed, Reader, tables
  <1>16. ASSUME NEW c \in Clients, Disconnect(c) PROVE Vouched'
    BY <1>16, VouchedSame DEF Disconnect, Reader, tables
  <1>17. CASE PruneBegins
    BY <1>17, VouchedSame DEF PruneBegins, Pruner, tables
  <1>18. ASSUME NEW c \in Containers, PruneRemoves(c) PROVE Vouched'
    BY <1>18, VouchedSame DEF PruneRemoves, Pruner, tables
  <1>19. CASE PruneEnds
    BY <1>19, VouchedSame DEF PruneEnds, Pruner, tables
  <1>20. CASE Shutdown
    BY <1>20, VouchedSame DEF Shutdown, tables
  <1>21. CASE StopReturns
    BY <1>21, VouchedSame DEF StopReturns, tables
  <1>22. CASE Restart
    <2>1. work'.pc # "verified"
      BY <1>22, JobsFirsts DEF Restart
    <2>2. cached' = cached /\ past.verified \subseteq past'.verified
      BY <1>22 DEF Restart
    <2> QED
      BY <2>1, <2>2, VouchedSame
  <1>23. CASE UNCHANGED jobVars
    BY <1>23, VouchedSame DEF jobVars, tables
  <1> QED
    BY <1>1, <1>2, <1>3, <1>4, <1>5, <1>6, <1>7, <1>8, <1>9, <1>10, <1>11,
       <1>12, <1>13, <1>14, <1>15, <1>16, <1>17, <1>18, <1>19, <1>20, <1>21,
       <1>22, <1>23 DEF JobsNext, Working, AtBox

(* The rows of update_history.                                             *)
LEMMA NothingToDo ==
  ASSUME JobsTypeOK, Serial, Turned, NEW r \in Posts,
         req[r] \notin {"pushing", "queued", "running"}
  PROVE  \A c \in Containers : ~Has(r, c)
  <1>1. ~Waits(r) /\ ~Works(r)
    BY DEF Waits, Works, Serial
  <1>2. todo[r] = <<>>
    BY <1>1 DEF Turned
  <1>3. Len(<<>>) = 0
    BY EmptySeq
  <1> QED
    BY <1>2, <1>3 DEF Has

LEMMA WrittenSame ==
  ASSUME Written, UNCHANGED <<row, writes, todo, target>>, cached' \subseteq cached,
         \A r \in Posts : req'[r] \notin {"new", "refused", "lost"} =>
                          req[r] \notin {"new", "refused", "lost"}
  PROVE  Written'
  BY DEF Written, Has

LEMMA WrittenAtBox ==
  ASSUME JobsTypeOK, Serial, Turned, Written, AtBox
  PROVE  Written'
  <1>1. Cur \in Containers /\ work.r \in Posts /\ Has(work.r, Cur)
    BY AtBoxGoes, AtContainer
  <1>2. UNCHANGED <<writes, todo, target, cached, req>>
    BY AtBoxGoes DEF Apart
  <1>3. row' = row \/ row' = Inserted(work.r, Cur)
    BY InspectGoes, PullGoes, ApplyGoes, ComposeUpGoes, SettleGoes, StopGoes, RemoveGoes,
       CreateGoes, StartGoes, VerifyGoes DEF AtBox
  <1>4. \A r \in Posts, c \in Containers :
          row'[r][c] = row[r][c] \/ (writes /\ r = work.r /\ c = Cur /\ row'[r][c] = "pending")
    BY <1>1, <1>3 DEF Inserted, JobsTypeOK
  <1>5. \A r \in Posts, c \in Containers : Has(r, c)' <=> Has(r, c)
    BY <1>2 DEF Has
  <1> QED
    BY <1>1, <1>2, <1>4, <1>5 DEF Written

LEMMA WrittenKept ==
  ASSUME JobsTypeOK, Serial, Turned, Written, [JobsNext]_jobVars
  PROVE  Written'
  <1>1. ASSUME NEW r \in Posts, Refuse(r) PROVE Written'
    <2>1. \A q \in Posts : req'[q] \notin {"new", "refused", "lost"} =>
                           req[q] \notin {"new", "refused", "lost"}
      BY <1>1 DEF Refuse, JobsTypeOK
    <2> QED
      BY <1>1, <2>1, WrittenSame DEF Refuse, tables
  <1>2. ASSUME NEW r \in Posts, Push(r) PROVE Written'
    <2>1. \A q \in Posts : req'[q] \notin {"new", "refused", "lost"} =>
                           req[q] \notin {"new", "refused", "lost"}
      BY <1>2 DEF Push, JobsTypeOK
    <2> QED
      BY <1>2, <2>1, WrittenSame DEF Push, tables
  <1>3. ASSUME NEW r \in Posts, EvictExpired(r) PROVE Written'
    BY <1>3, WrittenSame DEF EvictExpired, tables
  <1>4. ASSUME NEW r \in Posts, NEW c \in Containers, UpdateContainer(r, c)
        PROVE  Written'
    <2>1. req[r] = "new" /\ (\A d \in Containers : ~Has(r, d)) /\ UNCHANGED <<writes, cached>>
      BY <1>4, NothingToDo DEF UpdateContainer, Enqueue, tables
    <2>2. /\ \A q \in Posts : q # r =>
                              todo'[q] = todo[q] /\ target'[q] = target[q] /\ req'[q] = req[q]
          /\ todo'[r] = <<c>> /\ target'[r] = c
      BY <1>4 DEF UpdateContainer, Enqueue, JobsTypeOK
    <2>3. \A q \in Posts, d \in Containers : q # r => (Has(q, d)' <=> Has(q, d))
      BY <2>2 DEF Has
    <2>4. Has(r, c)'
      BY <2>2, OneLong DEF Has
    <2>5. \A q \in Posts, d \in Containers :
            row'[q][d] = row[q][d] \/ (writes /\ q = r /\ d = c /\ row'[q][d] = "pending")
      BY <1>4 DEF UpdateContainer, Inserted, JobsTypeOK
    <2>6. \A d \in Containers : StackOf[d] # c
      BY JobAssumption
    <2>7. \A d \in Containers : row[r][d] # "pending"
      BY <2>1 DEF Written
    <2> QED
      BY <2>1, <2>2, <2>3, <2>4, <2>5, <2>6, <2>7 DEF Written
  <1>5. ASSUME NEW r \in Posts, NEW s \in Stacks, UpdateStack(r, s)
        PROVE  Written'
    <2>0. PICK order \in SetToSeqs(Outdated(s)) : todo' = [todo EXCEPT ![r] = order]
      BY <1>5 DEF UpdateStack
    <2>1. req[r] = "new" /\ (\A d \in Containers : ~Has(r, d)) /\ UNCHANGED <<writes, cached>>
      BY <1>5, NothingToDo DEF UpdateStack, Enqueue, tables
    <2>2. /\ \A q \in Posts : q # r =>
                              todo'[q] = todo[q] /\ target'[q] = target[q] /\ req'[q] = req[q]
          /\ todo'[r] = order /\ target'[r] = s
      BY <1>5, <2>0 DEF UpdateStack, Enqueue, JobsTypeOK
    <2>3. \A q \in Posts, d \in Containers : q # r => (Has(q, d)' <=> Has(q, d))
      BY <2>2 DEF Has
    <2>4. \A d \in Containers : d \in Outdated(s) <=> \E k \in 1 .. Len(order) : order[k] = d
      <3>1. Outdated(s) \in SUBSET Containers /\ Outdated(s) # {}
        BY <1>5 DEF UpdateStack, Outdated, JobsTypeOK
      <3> QED
        BY <3>1, OrderHasAll
    <2>5. \A d \in Containers : StackOf[d] = s /\ d \in cached => Has(r, d)'
      BY <2>2, <2>4 DEF Has, Outdated
    <2>6. \A d \in Containers : row[r][d] # "pending"
      BY <2>1 DEF Written
    <2>7. row' = row
      BY <1>5 DEF UpdateStack, tables
    <2> QED
      BY <2>1, <2>2, <2>3, <2>5, <2>6, <2>7 DEF Written
  <1>6. CASE TakeJob
    <2>1. queue \in Seq(Posts) /\ queue # <<>>
      BY <1>6 DEF TakeJob, JobsTypeOK
    <2>2. Head(queue) \in Posts /\ req[Head(queue)] = "queued"
      BY <2>1, JobsHead DEF Serial
    <2>3. \A q \in Posts : req'[q] \notin {"new", "refused", "lost"} =>
                           req[q] \notin {"new", "refused", "lost"}
      BY <1>6, <2>2 DEF TakeJob, JobsTypeOK
    <2> QED
      BY <1>6, <2>3, WrittenSame DEF TakeJob, tables
  <1>7. CASE AtBox
    BY <1>7, WrittenAtBox
  <1>8. CASE RecordOutcome
    <2>1. /\ work.r \in Posts /\ work.pc \in OnBox /\ todo[work.r] \in Seq(Containers)
          /\ todo[work.r] # <<>> /\ Cur \in Containers /\ UNCHANGED <<writes, target, req>>
          /\ cached' \subseteq cached
      BY <1>8, OutcomeGoes, AtContainer DEF RecordOutcome, OnBox
    <2>2. /\ Cur = todo[work.r][1]
          /\ \A k \in 1 .. Len(todo[work.r]) : k # 1 =>
               k - 1 \in 1 .. Len(Tail(todo[work.r])) /\
               todo[work.r][k] = Tail(todo[work.r])[k - 1]
      BY <2>1, JobsHead DEF Cur
    <2>3. \A q \in Posts : q # work.r => todo'[q] = todo[q] /\ row'[q] = row[q]
      BY <1>8 DEF RecordOutcome, JobsTypeOK
    <2>4. \A q \in Posts, d \in Containers : q # work.r => (Has(q, d)' <=> Has(q, d))
      BY <2>3 DEF Has
    <2>5. PICK w \in Posts : w = work.r
      BY <2>1
    <2>6. ASSUME NEW d \in Containers, Has(w, d), d # Cur PROVE Has(w, d)'
      <3>1. PICK k \in 1 .. Len(todo[w]) : todo[w][k] = d
        BY <2>6 DEF Has
      <3>2. todo'[w] = Tail(todo[w]) /\ k # 1
        BY <1>8, <2>2, <2>5, <2>6, <3>1 DEF RecordOutcome, JobsTypeOK
      <3>3. k - 1 \in 1 .. Len(todo'[w]) /\ todo'[w][k - 1] = d
        BY <2>2, <2>5, <3>1, <3>2
      <3> QED
        BY <3>3 DEF Has
    <2>7. \A d \in Containers : row'[w][d] = IF writes /\ d = Cur THEN "success" ELSE row[w][d]
      BY <1>8, <2>1, <2>5 DEF RecordOutcome, JobsTypeOK
    <2>8. \A d \in Containers :
            /\ ~writes => row'[w][d] = "none"
            /\ row'[w][d] = "pending" => Has(w, d)'
            /\ req[w] \notin {"new", "refused", "lost"} /\ target[w] = StackOf[d] /\ d \in cached
                 => ~writes \/ row'[w][d] # "none" \/ Has(w, d)'
      BY <2>1, <2>6, <2>7 DEF Written
    <2> QED
      BY <2>1, <2>3, <2>4, <2>5, <2>8 DEF Written
  <1>9. CASE RecordFailure
    <2>1. /\ work.r \in Posts /\ work.pc \in OnBox /\ todo[work.r] \in Seq(Containers)
          /\ todo[work.r] # <<>> /\ Cur \in Containers /\ UNCHANGED <<writes, target, req>>
          /\ cached' \subseteq cached
      BY <1>9, FailureGoes, AtContainer DEF RecordFailure, OnBox
    <2>2. /\ Cur = todo[work.r][1]
          /\ \A k \in 1 .. Len(todo[work.r]) : k # 1 =>
               k - 1 \in 1 .. Len(Tail(todo[work.r])) /\
               todo[work.r][k] = Tail(todo[work.r])[k - 1]
      BY <2>1, JobsHead DEF Cur
    <2>3. \A q \in Posts : q # work.r => todo'[q] = todo[q] /\ row'[q] = row[q]
      BY <1>9 DEF RecordFailure, JobsTypeOK
    <2>4. \A q \in Posts, d \in Containers : q # work.r => (Has(q, d)' <=> Has(q, d))
      BY <2>3 DEF Has
    <2>5. \A d \in Containers : Has(work.r, d) => d = Cur \/ d \in Skipped
      <3> SUFFICES ASSUME NEW d \in Containers, NEW k \in 1 .. Len(todo[work.r]),
                          todo[work.r][k] = d
                   PROVE  d = Cur \/ d \in Skipped
        BY DEF Has
      <3>1. CASE k = 1
        BY <3>1, <2>2
      <3>2. CASE k # 1
        <4>1. k \in 2 .. Len(todo[work.r])
          BY <2>1, <3>2, JobsHead
        <4> QED
          BY <4>1 DEF Skipped, Rest
      <3> QED
        BY <3>1, <3>2
    <2>6. \A d \in Containers : row'[work.r][d] = IF d = Cur /\ writes THEN "failed"
                                   ELSE IF d \in Skipped /\ writes THEN "skipped"
                                   ELSE row[work.r][d]
      BY <1>9, <2>1 DEF RecordFailure, JobsTypeOK
    <2>7. \A d \in Containers :
            /\ ~writes => row'[work.r][d] = "none"
            /\ row'[work.r][d] # "pending"
            /\ req[work.r] \notin {"new", "refused", "lost"} /\ target[work.r] = StackOf[d] /\
               d \in cached
                 => ~writes \/ row'[work.r][d] # "none"
      BY <2>1, <2>5, <2>6 DEF Written
    <2> QED
      BY <2>1, <2>3, <2>4, <2>7 DEF Written
  <1>10. CASE ReleaseLock
    BY <1>10, WrittenSame DEF ReleaseLock, Goto, tables
  <1>11. CASE Finish
    BY <1>11, WrittenSame DEF Finish, tables
  <1>12. CASE CloseChannels
    <2>1. work.r \in Posts /\ req[work.r] = "running"
      BY <1>12, AtWork DEF CloseChannels, Doing
    <2>2. \A q \in Posts : req'[q] \notin {"new", "refused", "lost"} =>
                           req[q] \notin {"new", "refused", "lost"}
      BY <1>12, <2>1 DEF CloseChannels, JobsTypeOK
    <2> QED
      BY <1>12, <2>2, WrittenSame DEF CloseChannels, tables
  <1>13. ASSUME NEW c \in Clients, NEW r \in Posts, Subscribe(c, r)
        PROVE  Written'
    BY <1>13, WrittenSame DEF Subscribe, Reader, tables
  <1>14. ASSUME NEW c \in Clients, Forward(c) PROVE Written'
    BY <1>14, WrittenSame DEF Forward, Reader, tables
  <1>15. ASSUME NEW c \in Clients, SeeClosed(c) PROVE Written'
    BY <1>15, WrittenSame DEF SeeClosed, Reader, tables
  <1>16. ASSUME NEW c \in Clients, Disconnect(c) PROVE Written'
    BY <1>16, WrittenSame DEF Disconnect, Reader, tables
  <1>17. CASE PruneBegins
    BY <1>17, WrittenSame DEF PruneBegins, Pruner, tables
  <1>18. ASSUME NEW c \in Containers, PruneRemoves(c) PROVE Written'
    BY <1>18, WrittenSame DEF PruneRemoves, Pruner, tables
  <1>19. CASE PruneEnds
    BY <1>19, WrittenSame DEF PruneEnds, Pruner, tables
  <1>20. CASE Shutdown
    BY <1>20, WrittenSame DEF Shutdown, tables
  <1>21. CASE StopReturns
    BY <1>21, WrittenSame DEF StopReturns, tables
  <1>22. CASE Restart
    <2>1. /\ UNCHANGED <<writes, target, cached>>
          /\ \A q \in Posts : req'[q] \notin {"new", "refused", "lost"} =>
               req[q] \notin {"new", "refused", "lost", "pushing", "queued", "running"}
      BY <1>22 DEF Restart, JobsTypeOK
    <2>2. \A q \in Posts, d \in Containers :
            row'[q][d] = IF row[q][d] = "pending" THEN "failed" ELSE row[q][d]
      BY <1>22 DEF Restart, Sweep
    <2>3. \A q \in Posts, d \in Containers : writes \/ row[q][d] # "pending"
      BY DEF Written
    <2>4. \A q \in Posts, d \in Containers : req'[q] \notin {"new", "refused", "lost"} =>
          ~Has(q, d)
      BY <2>1, NothingToDo
    <2> QED
      BY <2>1, <2>2, <2>3, <2>4 DEF Written
  <1>23. CASE UNCHANGED jobVars
    BY <1>23, WrittenSame DEF jobVars, tables
  <1> QED
    BY <1>1, <1>2, <1>3, <1>4, <1>5, <1>6, <1>7, <1>8, <1>9, <1>10, <1>11,
       <1>12, <1>13, <1>14, <1>15, <1>16, <1>17, <1>18, <1>19, <1>20, <1>21,
       <1>22, <1>23 DEF JobsNext, Working, AtBox

(* A row that says failed or skipped is of a job that did not succeed.     *)
LEMMA BlamedSame ==
  ASSUME Blamed,
         \A r \in Posts, c \in Containers : row'[r][c] \in Bad => row[r][c] \in Bad,
         \A r \in Posts : (Ended(r) => Ended(r)')
           /\ (job'[r].status = "success" => job[r].status = "success")
  PROVE  Blamed'
  BY DEF Blamed

LEMMA EndedSame == ASSUME UNCHANGED <<req, work>>, NEW r \in Posts PROVE Ended(r) => Ended(r)'
  BY DEF Ended

LEMMA BlamedAtBox ==
  ASSUME JobsTypeOK, Serial, Turned, Kept, Blamed, AtBox
  PROVE  Blamed'
  <1>1. Cur \in Containers /\ work.r \in Posts /\ work.pc \in OnBox /\ req' = req
    BY AtBoxGoes, AtContainer DEF Apart
  <1>2. row' = row \/ row' = Inserted(work.r, Cur)
    BY InspectGoes, PullGoes, ApplyGoes, ComposeUpGoes, SettleGoes, StopGoes, RemoveGoes,
       CreateGoes, StartGoes, VerifyGoes DEF AtBox
  <1>3. \A r \in Posts, c \in Containers : row'[r][c] \in Bad => row[r][c] \in Bad
    <2>1. \A r \in Posts, c \in Containers :
            row'[r][c] = row[r][c] \/ (writes /\ r = work.r /\ c = Cur /\ row'[r][c] = "pending")
      BY <1>1, <1>2 DEF Inserted, JobsTypeOK
    <2> QED
      BY <2>1 DEF Bad
  <1>4. \A r \in Posts : Ended(r) => Ended(r)'
    BY <1>1 DEF Ended, OnBox
  <1>5. \A r \in Posts : job'[r].status = "success" => job[r].status = "success"
    BY <1>1, AtBoxGoes, SetsStatus DEF Terminal
  <1> QED
    BY <1>3, <1>4, <1>5, BlamedSame

LEMMA BlamedKept ==
  ASSUME JobsTypeOK, Serial, Turned, Kept, Written, Blamed, [JobsNext]_jobVars
  PROVE  Blamed'
  <1>1. ASSUME NEW r \in Posts, Refuse(r) PROVE Blamed'
    <2>1. \A q \in Posts, d \in Containers : row'[q][d] \in Bad => row[q][d] \in Bad
      BY <1>1 DEF Refuse, tables
    <2>2. \A q \in Posts : Ended(q) => Ended(q)'
      BY <1>1 DEF Refuse, Ended, JobsTypeOK
    <2>3. \A q \in Posts : job'[q].status = "success" => job[q].status = "success"
      BY <1>1 DEF Refuse, jobs
    <2> QED
      BY <2>1, <2>2, <2>3, BlamedSame
  <1>2. ASSUME NEW r \in Posts, Push(r) PROVE Blamed'
    <2>1. \A q \in Posts, d \in Containers : row'[q][d] \in Bad => row[q][d] \in Bad
      BY <1>2 DEF Push, tables
    <2>2. \A q \in Posts : Ended(q) => Ended(q)'
      BY <1>2 DEF Push, Ended, JobsTypeOK
    <2>3. \A q \in Posts : job'[q].status = "success" => job[q].status = "success"
      BY <1>2 DEF Push, jobs
    <2> QED
      BY <2>1, <2>2, <2>3, BlamedSame
  <1>3. ASSUME NEW r \in Posts, EvictExpired(r) PROVE Blamed'
    <2>1. \A q \in Posts, d \in Containers : row'[q][d] \in Bad => row[q][d] \in Bad
      BY <1>3 DEF EvictExpired, tables
    <2>2. \A q \in Posts : Ended(q) => Ended(q)'
      BY <1>3 DEF EvictExpired, Ended
    <2>3. \A q \in Posts : job'[q].status = "success" => job[q].status = "success"
      BY <1>3, JobsRecords, JobsFirsts DEF EvictExpired, Terminal
    <2> QED
      BY <2>1, <2>2, <2>3, BlamedSame
  <1>4. ASSUME NEW r \in Posts, NEW c \in Containers, UpdateContainer(r, c)
        PROVE  Blamed'
    <2>1. \A q \in Posts, d \in Containers : row'[q][d] \in Bad => row[q][d] \in Bad
      BY <1>4 DEF UpdateContainer, Enqueue, Inserted, JobsTypeOK, Bad
    <2>2. \A q \in Posts : Ended(q) => Ended(q)'
      BY <1>4 DEF UpdateContainer, Enqueue, Ended, JobsTypeOK
    <2>3. \A q \in Posts : job'[q].status = "success" => job[q].status = "success"
      BY <1>4 DEF UpdateContainer, Enqueue, jobs
    <2> QED
      BY <2>1, <2>2, <2>3, BlamedSame
  <1>5. ASSUME NEW r \in Posts, NEW s \in Stacks, UpdateStack(r, s)
        PROVE  Blamed'
    <2>1. \A q \in Posts, d \in Containers : row'[q][d] \in Bad => row[q][d] \in Bad
      BY <1>5 DEF UpdateStack, Enqueue, tables
    <2>2. \A q \in Posts : Ended(q) => Ended(q)'
      BY <1>5 DEF UpdateStack, Enqueue, Ended, JobsTypeOK
    <2>3. \A q \in Posts : job'[q].status = "success" => job[q].status = "success"
      BY <1>5 DEF UpdateStack, Enqueue, jobs
    <2> QED
      BY <2>1, <2>2, <2>3, BlamedSame
  <1>6. CASE TakeJob
    <2>1. \A q \in Posts, d \in Containers : row'[q][d] \in Bad => row[q][d] \in Bad
      BY <1>6 DEF TakeJob, tables
    <2>2. \A q \in Posts : Ended(q) => Ended(q)'
      <3>1. queue \in Seq(Posts) /\ queue # <<>> /\ work.pc = "idle"
        BY <1>6 DEF TakeJob, Doing, JobsTypeOK
      <3>2. Head(queue) \in Posts /\ req[Head(queue)] = "queued"
        BY <3>1, JobsHead DEF Serial
      <3> QED
        BY <1>6, <3>1, <3>2 DEF TakeJob, Ended, JobsTypeOK
    <2>3. \A q \in Posts : job'[q].status = "success" => job[q].status = "success"
      BY <1>6 DEF TakeJob, jobs
    <2> QED
      BY <2>1, <2>2, <2>3, BlamedSame
  <1>7. CASE AtBox
    BY <1>7, BlamedAtBox
  <1>8. CASE RecordOutcome
    <2>1. \A q \in Posts, d \in Containers : row'[q][d] \in Bad => row[q][d] \in Bad
      <3>1. work.r \in Posts /\ Cur \in Containers
        BY <1>8, AtContainer DEF RecordOutcome, Doing, OnBox
      <3> QED
        BY <1>8, <3>1 DEF RecordOutcome, JobsTypeOK, Bad
    <2>2. \A q \in Posts : Ended(q) => Ended(q)'
      BY <1>8, OutcomeGoes DEF RecordOutcome, Ended
    <2>3. \A q \in Posts : job'[q].status = "success" => job[q].status = "success"
      BY <1>8, OutcomeGoes
    <2> QED
      BY <2>1, <2>2, <2>3, BlamedSame
  <1>9. CASE RecordFailure
    <2>1. /\ work.pc = "failed" /\ work.r \in Posts /\ work'.r = work.r /\
             work'.pc = "returned" /\ work'.err
          /\ req' = req /\ \A q \in Posts : job'[q].status = job[q].status
      BY <1>9, FailureGoes DEF RecordFailure
    <2>2. req[work.r] = "running"
      BY <2>1 DEF Serial
    <2>3. job[work.r].status # "success"
      BY <2>1, <2>2 DEF Kept, Terminal
    <2>4. \A q \in Posts : q # work.r => row'[q] = row[q] /\ (Ended(q) => Ended(q)')
      BY <1>9, <2>1 DEF RecordFailure, JobsTypeOK, Ended
    <2>5. Ended(work.r)'
      BY <2>1 DEF Ended
    <2> QED
      BY <2>1, <2>3, <2>4, <2>5 DEF Blamed
  <1>10. CASE ReleaseLock
    <2>1. \A q \in Posts, d \in Containers : row'[q][d] \in Bad => row[q][d] \in Bad
      BY <1>10 DEF ReleaseLock, Goto, tables
    <2>2. \A q \in Posts : Ended(q) => Ended(q)'
      BY <1>10, JobsRecords, GoesTo DEF ReleaseLock, Doing, Stages, Ended
    <2>3. \A q \in Posts : job'[q].status = "success" => job[q].status = "success"
      BY <1>10 DEF ReleaseLock, Goto, jobs
    <2> QED
      BY <2>1, <2>2, <2>3, BlamedSame
  <1>11. CASE Finish
    <2>1. /\ work.r \in Posts /\ work.pc = "finish" /\ work'.r = work.r /\ work'.pc = "close"
          /\ job'[work.r].status = (IF work.err THEN "error" ELSE "success")
          /\ \A q \in Posts : q # work.r => job'[q] = job[q]
      BY <1>11, FinishGoes
    <2>2. UNCHANGED <<req, row>>
      BY <1>11 DEF Finish, tables
    <2>3. req[work.r] = "running"
      BY <2>1 DEF Serial
    <2>4. Ended(work.r) => work.err
      BY <2>1, <2>3 DEF Ended
    <2>5. \A q \in Posts : Ended(q) => Ended(q)'
      BY <2>1, <2>2 DEF Ended
    <2> QED
      BY <2>1, <2>2, <2>4, <2>5 DEF Blamed
  <1>12. CASE CloseChannels
    <2>1. \A q \in Posts, d \in Containers : row'[q][d] \in Bad => row[q][d] \in Bad
      BY <1>12 DEF CloseChannels, tables
    <2>2. \A q \in Posts : Ended(q) => Ended(q)'
      <3>1. work.pc = "close" /\ work.r \in Posts
        BY <1>12, AtWork DEF CloseChannels, Doing
      <3> QED
        BY <1>12, <3>1 DEF CloseChannels, Ended, JobsTypeOK
    <2>3. \A q \in Posts : job'[q].status = "success" => job[q].status = "success"
      BY <1>12 DEF CloseChannels, jobs
    <2> QED
      BY <2>1, <2>2, <2>3, BlamedSame
  <1>13. ASSUME NEW c \in Clients, NEW r \in Posts, Subscribe(c, r)
        PROVE  Blamed'
    <2>1. \A q \in Posts, d \in Containers : row'[q][d] \in Bad => row[q][d] \in Bad
      BY <1>13 DEF Subscribe, Reader, tables
    <2>2. \A q \in Posts : Ended(q) => Ended(q)'
      BY <1>13, EndedSame DEF Subscribe, Reader
    <2>3. \A q \in Posts : job'[q].status = "success" => job[q].status = "success"
      BY <1>13 DEF Subscribe, Reader, jobs
    <2> QED
      BY <2>1, <2>2, <2>3, BlamedSame
  <1>14. ASSUME NEW c \in Clients, Forward(c) PROVE Blamed'
    <2>1. \A q \in Posts, d \in Containers : row'[q][d] \in Bad => row[q][d] \in Bad
      BY <1>14 DEF Forward, Reader, tables
    <2>2. \A q \in Posts : Ended(q) => Ended(q)'
      BY <1>14, EndedSame DEF Forward, Reader
    <2>3. \A q \in Posts : job'[q].status = "success" => job[q].status = "success"
      BY <1>14 DEF Forward, Reader, jobs
    <2> QED
      BY <2>1, <2>2, <2>3, BlamedSame
  <1>15. ASSUME NEW c \in Clients, SeeClosed(c) PROVE Blamed'
    <2>1. \A q \in Posts, d \in Containers : row'[q][d] \in Bad => row[q][d] \in Bad
      BY <1>15 DEF SeeClosed, Reader, tables
    <2>2. \A q \in Posts : Ended(q) => Ended(q)'
      BY <1>15, EndedSame DEF SeeClosed, Reader
    <2>3. \A q \in Posts : job'[q].status = "success" => job[q].status = "success"
      BY <1>15 DEF SeeClosed, Reader, jobs
    <2> QED
      BY <2>1, <2>2, <2>3, BlamedSame
  <1>16. ASSUME NEW c \in Clients, Disconnect(c) PROVE Blamed'
    <2>1. \A q \in Posts, d \in Containers : row'[q][d] \in Bad => row[q][d] \in Bad
      BY <1>16 DEF Disconnect, Reader, tables
    <2>2. \A q \in Posts : Ended(q) => Ended(q)'
      BY <1>16, EndedSame DEF Disconnect, Reader
    <2>3. \A q \in Posts : job'[q].status = "success" => job[q].status = "success"
      BY <1>16 DEF Disconnect, Reader, jobs
    <2> QED
      BY <2>1, <2>2, <2>3, BlamedSame
  <1>17. CASE PruneBegins
    <2>1. \A q \in Posts, d \in Containers : row'[q][d] \in Bad => row[q][d] \in Bad
      BY <1>17 DEF PruneBegins, Pruner, tables
    <2>2. \A q \in Posts : Ended(q) => Ended(q)'
      BY <1>17, EndedSame DEF PruneBegins, Pruner
    <2>3. \A q \in Posts : job'[q].status = "success" => job[q].status = "success"
      BY <1>17 DEF PruneBegins, Pruner, jobs
    <2> QED
      BY <2>1, <2>2, <2>3, BlamedSame
  <1>18. ASSUME NEW c \in Containers, PruneRemoves(c) PROVE Blamed'
    <2>1. \A q \in Posts, d \in Containers : row'[q][d] \in Bad => row[q][d] \in Bad
      BY <1>18 DEF PruneRemoves, Pruner, tables
    <2>2. \A q \in Posts : Ended(q) => Ended(q)'
      BY <1>18, EndedSame DEF PruneRemoves, Pruner
    <2>3. \A q \in Posts : job'[q].status = "success" => job[q].status = "success"
      BY <1>18 DEF PruneRemoves, Pruner, jobs
    <2> QED
      BY <2>1, <2>2, <2>3, BlamedSame
  <1>19. CASE PruneEnds
    <2>1. \A q \in Posts, d \in Containers : row'[q][d] \in Bad => row[q][d] \in Bad
      BY <1>19 DEF PruneEnds, Pruner, tables
    <2>2. \A q \in Posts : Ended(q) => Ended(q)'
      BY <1>19, EndedSame DEF PruneEnds, Pruner
    <2>3. \A q \in Posts : job'[q].status = "success" => job[q].status = "success"
      BY <1>19 DEF PruneEnds, Pruner, jobs
    <2> QED
      BY <2>1, <2>2, <2>3, BlamedSame
  <1>20. CASE Shutdown
    <2>1. \A q \in Posts, d \in Containers : row'[q][d] \in Bad => row[q][d] \in Bad
      BY <1>20 DEF Shutdown, tables
    <2>2. \A q \in Posts : Ended(q) => Ended(q)'
      BY <1>20, EndedSame DEF Shutdown
    <2>3. \A q \in Posts : job'[q].status = "success" => job[q].status = "success"
      BY <1>20 DEF Shutdown, jobs
    <2> QED
      BY <2>1, <2>2, <2>3, BlamedSame
  <1>21. CASE StopReturns
    <2>1. \A q \in Posts, d \in Containers : row'[q][d] \in Bad => row[q][d] \in Bad
      BY <1>21 DEF StopReturns, tables
    <2>2. \A q \in Posts : Ended(q) => Ended(q)'
      BY <1>21, EndedSame DEF StopReturns
    <2>3. \A q \in Posts : job'[q].status = "success" => job[q].status = "success"
      BY <1>21 DEF StopReturns, jobs
    <2> QED
      BY <2>1, <2>2, <2>3, BlamedSame
  <1>22. CASE Restart
    <2>1. \A q \in Posts, d \in Containers :
            row'[q][d] = IF row[q][d] = "pending" THEN "failed" ELSE row[q][d]
      BY <1>22 DEF Restart, Sweep
    <2>2. \A q \in Posts : job'[q].status # "success"
      BY <1>22, JobsFirsts DEF Restart, Terminal
    <2>3. \A q \in Posts : req[q] \in {"pushing", "queued", "running", "over", "lost"} =>
                           Ended(q)'
      BY <1>22 DEF Restart, Ended, JobsTypeOK
    <2>4. ASSUME NEW q \in Posts, NEW d \in Containers, row'[q][d] \in Bad
          PROVE  req[q] \in {"pushing", "queued", "running", "over", "lost"}
      <3>1. CASE row[q][d] = "pending"
        BY <3>1, NothingToDo DEF Written
      <3>2. CASE row[q][d] \in Bad
        BY <3>2 DEF Blamed, Ended, Serial
      <3> QED
        BY <2>1, <2>4, <3>1, <3>2
    <2> QED
      BY <2>2, <2>3, <2>4 DEF Blamed
  <1>23. CASE UNCHANGED jobVars
    <2>1. \A q \in Posts, d \in Containers : row'[q][d] \in Bad => row[q][d] \in Bad
      BY <1>23 DEF jobVars, tables
    <2>2. \A q \in Posts : Ended(q) => Ended(q)'
      BY <1>23, EndedSame DEF jobVars
    <2>3. \A q \in Posts : job'[q].status = "success" => job[q].status = "success"
      BY <1>23 DEF jobVars, jobs
    <2> QED
      BY <2>1, <2>2, <2>3, BlamedSame
  <1> QED
    BY <1>1, <1>2, <1>3, <1>4, <1>5, <1>6, <1>7, <1>8, <1>9, <1>10, <1>11,
       <1>12, <1>13, <1>14, <1>15, <1>16, <1>17, <1>18, <1>19, <1>20, <1>21,
       <1>22, <1>23 DEF JobsNext, Working, AtBox

-----------------------------------------------------------------------------
(* The channels.                                                           *)
LEMMA ChannelAppend ==
  ASSUME NEW s \in Seq(EventType), NEW last \in Nat, NEW n \in Nat, NEW e \in EventType,
         e.n = n + 1, Ordered(s, last), UpTo(s, last, n)
  PROVE  /\ Ordered(Append(s, e), last)
         /\ ~e.done => UpTo(Append(s, e), last, n + 1)
  <1> DEFINE t == Append(s, e)
             m == Len(s)
  <1>1. /\ t \in Seq(EventType) /\ m \in Nat /\ Len(t) = m + 1
        /\ \A i \in 1 .. m : t[i] = s[i]
        /\ t[m + 1] = e
        /\ \A i \in 1 .. Len(t) : i \in 1 .. m \/ i = m + 1
    BY JobsAppend
  <1>2. \A i \in 1 .. m : s[i] \in EventType /\ s[i].n \in Nat /\ last < s[i].n /\ s[i].n <= n /\
                          ~s[i].done
    <2>1. \A i \in 1 .. m : s[i] \in EventType
      BY ElementOfSeq
    <2> QED
      BY <2>1 DEF Ordered, UpTo, EventType
  <1> HIDE DEF t
  <1>3. \A k \in 1 .. Len(t) : last < t[k].n
    <2>1. last < t[m + 1].n
      BY <1>1 DEF UpTo
    <2>2. \A i \in 1 .. m : last < t[i].n
      BY <1>1, <1>2
    <2> QED
      BY <1>1, <2>1, <2>2
  <1>4. \A j, k \in 1 .. Len(t) : j < k => t[j].n < t[k].n
    <2> SUFFICES ASSUME NEW j \in 1 .. Len(t), NEW k \in 1 .. Len(t), j < k
                 PROVE  t[j].n < t[k].n
      OBVIOUS
    <2>1. j \in 1 .. m
      BY <1>1
    <2>2. CASE k \in 1 .. m
      BY <1>1, <2>1, <2>2 DEF Ordered
    <2>3. CASE k = m + 1
      <3>1. t[k].n = n + 1
        BY <1>1, <2>3
      <3>2. t[j].n \in Nat /\ t[j].n <= n
        BY <1>1, <1>2, <2>1
      <3> QED
        BY <3>1, <3>2
    <2> QED
      BY <1>1, <2>2, <2>3
  <1>5. \A k \in 1 .. Len(t) : t[k].done => k = Len(t)
    BY <1>1, <1>2
  <1>6. ~e.done => UpTo(t, last, n + 1)
    <2>1. last <= n + 1
      BY DEF UpTo
    <2>2. \A i \in 1 .. m : t[i].n <= n + 1 /\ ~t[i].done
      BY <1>1, <1>2
    <2> QED
      BY <1>1, <2>1, <2>2 DEF UpTo
  <1> QED
    BY <1>3, <1>4, <1>5, <1>6 DEF Ordered, t

LEMMA ChannelTail ==
  ASSUME NEW s \in Seq(EventType), NEW last \in Nat, Ordered(s, last), s # <<>>
  PROVE  /\ Ordered(Tail(s), s[1].n)
         /\ \A n \in Nat : UpTo(s, last, n) => UpTo(Tail(s), s[1].n, n)
  <1> DEFINE t == Tail(s)
             m == Len(s)
  <1>1. /\ m \in Nat \ {0} /\ 1 \in 1 .. m /\ t \in Seq(EventType) /\ Len(t) = m - 1
        /\ \A i \in 1 .. Len(t) : t[i] = s[i + 1] /\ i + 1 \in 1 .. m
    BY JobsHead
  <1> HIDE DEF t
  <1>2. \A k \in 1 .. Len(t) : s[1].n < t[k].n
    BY <1>1 DEF Ordered
  <1>3. \A j, k \in 1 .. Len(t) : j < k => t[j].n < t[k].n
    <2> SUFFICES ASSUME NEW j \in 1 .. Len(t), NEW k \in 1 .. Len(t), j < k
                 PROVE  t[j].n < t[k].n
      OBVIOUS
    <2>1. j + 1 < k + 1
      OBVIOUS
    <2> QED
      BY <1>1, <2>1 DEF Ordered
  <1>4. \A k \in 1 .. Len(t) : t[k].done => k = Len(t)
    <2> SUFFICES ASSUME NEW k \in 1 .. Len(t), t[k].done
                 PROVE  k = Len(t)
      OBVIOUS
    <2>1. k + 1 = m
      BY <1>1 DEF Ordered
    <2> QED
      BY <1>1, <2>1
  <1>5. \A n \in Nat : UpTo(s, last, n) => UpTo(t, s[1].n, n)
    BY <1>1 DEF UpTo
  <1> QED
    BY <1>2, <1>3, <1>4, <1>5 DEF Ordered, t

LEMMA ChannelEmpty ==
  ASSUME NEW n \in Nat
  PROVE  Ordered(<<>>, n) /\ UpTo(<<>>, n, n) /\ Dense(<<>>, n) /\ Len(<<>>) = 0
  <1>1. Len(<<>>) = 0
    BY EmptySeq
  <1> QED
    BY <1>1 DEF Ordered, UpTo, Dense

LEMMA DenseAppend ==
  ASSUME NEW s \in Seq(EventType), NEW last \in Nat, NEW e \in EventType, Dense(s, last),
         e.n = last + Len(s) + 1
  PROVE  Dense(Append(s, e), last) /\ Len(Append(s, e)) = Len(s) + 1 /\
         (e.done => Told(Append(s, e)))
  <1> DEFINE t == Append(s, e)
             m == Len(s)
  <1>1. /\ t \in Seq(EventType) /\ t # <<>> /\ m \in Nat /\ Len(t) = m + 1
        /\ \A i \in 1 .. m : t[i] = s[i]
        /\ t[m + 1] = e
        /\ \A i \in 1 .. Len(t) : i \in 1 .. m \/ i = m + 1
    BY JobsAppend
  <1> HIDE DEF t
  <1>2. \A i \in 1 .. m : t[i].n = last + i
    BY <1>1 DEF Dense
  <1>3. t[m + 1].n = last + (m + 1)
    BY <1>1
  <1>4. Dense(t, last)
    BY <1>1, <1>2, <1>3 DEF Dense
  <1> QED
    BY <1>1, <1>4 DEF Told, t

LEMMA DenseTail ==
  ASSUME NEW s \in Seq(EventType), NEW last \in Nat, Dense(s, last), s # <<>>, ~s[1].done
  PROVE  /\ Dense(Tail(s), s[1].n) /\ s[1].n + Len(Tail(s)) = last + Len(s)
         /\ Told(s) => Told(Tail(s))
  <1> DEFINE t == Tail(s)
             m == Len(s)
  <1>1. /\ m \in Nat \ {0} /\ 1 \in 1 .. m /\ t \in Seq(EventType) /\ Len(t) = m - 1
        /\ \A i \in 1 .. Len(t) : t[i] = s[i + 1] /\ i + 1 \in 1 .. m
    BY JobsHead
  <1> HIDE DEF t
  <1>2. s[1].n = last + 1
    BY <1>1 DEF Dense
  <1>3. \A k \in 1 .. Len(t) : t[k].n = s[1].n + k
    <2> SUFFICES ASSUME NEW k \in 1 .. Len(t) PROVE t[k].n = s[1].n + k
      OBVIOUS
    <2>1. t[k].n = last + (k + 1)
      BY <1>1 DEF Dense
    <2> QED
      BY <1>2, <2>1
  <1>4. s[1].n + Len(t) = last + m
    BY <1>1, <1>2
  <1>5. Told(s) => Told(t)
    <2> SUFFICES ASSUME Told(s) PROVE Told(t)
      OBVIOUS
    <2>1. m # 1
      BY DEF Told
    <2>2. Len(t) \in 1 .. Len(t) /\ t[Len(t)] = s[m]
      BY <1>1, <2>1
    <2>3. t # <<>>
      <3>1. Len(<<>>) = 0
        BY EmptySeq
      <3> QED
        BY <2>2, <3>1
    <2> QED
      BY <2>2, <2>3 DEF Told
  <1> QED
    BY <1>3, <1>4, <1>5 DEF Dense, t

-----------------------------------------------------------------------------
(* The subscribers of a job and the WebSockets that follow it.             *)
LEMMA SubscribedSame ==
  ASSUME JobsTypeOK, Subscribed, subs' = subs, work'.subs = work.subs,
         work.pc = "close" => work'.pc = "close" /\ work'.r = work.r,
         \A c \in Clients :
           /\ client'[c].at = client[c].at /\ client'[c].r = client[c].r
           /\ client'[c].closed = client[c].closed
           /\ client[c].at = "new" => client'[c] = client[c],
         \A r \in known : job[r].status \notin Terminal =>
           r \in known' /\ job'[r].status \notin Terminal,
         \A r \in Posts : /\ req[r] \notin {"new", "refused"} => req'[r] \notin {"new", "refused"}
                          /\ req[r] = "over" => req'[r] = "over"
  PROVE  Subscribed'
  <1>1. \A c \in Clients, r \in Posts : c \in subs'[r] =>
          /\ Follows(c)' /\ client'[c].r = r /\ ~client'[c].closed
          /\ r \in known' /\ job'[r].status \notin Terminal
    BY DEF Subscribed, Follows
  <1>2. \A c \in Clients : Follows(c)' =>
          /\ client'[c].r \in Posts /\ req'[client'[c].r] \notin {"new", "refused"}
          /\ \/ c \in subs'[client'[c].r]
             \/ client'[c].closed /\ req'[client'[c].r] = "over"
             \/ Doing("close")' /\ c \in work'.subs
    BY DEF Subscribed, Follows, Doing
  <1>3. \A c \in Clients : client'[c].at = "new" => client'[c] = NoClient
    BY DEF Subscribed
  <1>4. \A c \in work'.subs : Doing("close")' /\ client'[c].at # "new"
                              /\ (Follows(c)' => client'[c].r = work'.r)
    <2>1. work.subs \subseteq Clients
      BY JobsRecords DEF WorkType
    <2> QED
      BY <2>1 DEF Subscribed, Follows, Doing
  <1> QED
    BY <1>1, <1>2, <1>3, <1>4 DEF Subscribed

LEMMA SubscribedStill ==
  ASSUME JobsTypeOK, Subscribed, UNCHANGED <<client, subs, job>>, known \subseteq known',
         work'.subs = work.subs,
         work.pc = "close" => work'.pc = "close" /\ work'.r = work.r,
         \A r \in Posts : /\ req[r] \notin {"new", "refused"} => req'[r] \notin {"new", "refused"}
                          /\ req[r] = "over" => req'[r] = "over"
  PROVE  Subscribed'
  BY SubscribedSame, Zenon

LEMMA NoSubscriber ==
  ASSUME JobsTypeOK, Subscribed, work.pc # "close"
  PROVE  work.subs = {}
  BY JobsRecords DEF Subscribed, Doing, WorkType

LEMMA SubscribedAtBox ==
  ASSUME JobsTypeOK, Serial, Turned, Subscribed, AtBox
  PROVE  Subscribed'
  <1>1. /\ work.r \in Posts /\ work.pc \in OnBox /\ work'.subs = work.subs
        /\ UNCHANGED <<req, known, subs>>
    BY AtBoxGoes, AtContainer DEF Apart
  <1>2. work.pc # "close"
    BY <1>1 DEF OnBox
  <1>3. CASE SetStatus(work.r, "pulling") \/ SetStatus(work.r, "recreating")
    <2>1. /\ FanOut(work.r, FALSE)
          /\ \A r \in Posts : job'[r].status = job[r].status \/ job'[r].status \notin Terminal
      BY <1>1, <1>3, SetsStatus
    <2>2. \A c \in Clients :
            /\ client'[c].at = client[c].at /\ client'[c].r = client[c].r
            /\ client'[c].closed = client[c].closed
            /\ client'[c] = client[c] \/ c \in subs[work.r]
      BY <1>1, <2>1, FansOut
    <2>3. \A c \in Clients : client[c].at = "new" => client'[c] = client[c]
      BY <1>1, <2>2 DEF Subscribed, Follows
    <2>4. known \subseteq Posts
      BY DEF JobsTypeOK
    <2> QED
      BY <1>1, <1>2, <2>1, <2>2, <2>3, <2>4, SubscribedSame
  <1>4. CASE ~(SetStatus(work.r, "pulling") \/ SetStatus(work.r, "recreating"))
    <2>1. UNCHANGED <<client, job>>
      BY <1>4, InspectGoes, PullGoes, ApplyGoes, ComposeUpGoes, SettleGoes,
         StopGoes, RemoveGoes,
         CreateGoes, StartGoes, VerifyGoes DEF AtBox
    <2> QED
      BY <1>1, <1>2, <2>1, SubscribedStill
  <1> QED
    BY <1>3, <1>4

LEMMA SubscribedLeave ==
  ASSUME JobsTypeOK, Subscribed, UNCHANGED <<req, known, job, work>>,
         NEW c \in Clients, NEW how \in {"told", "cut", "gone"}, Leave(c, how)
  PROVE  Subscribed'
  <1>1. /\ client'[c].at = how
        /\ \A d \in Clients : d # c => client'[d] = client[d]
        /\ \A r \in Posts : subs'[r] = subs[r] \ {c}
    BY LeaveGoes
  <1>2. \A r \in Posts : subs[r] \subseteq Clients
    BY DEF JobsTypeOK
  <1>3. work.subs \subseteq Clients
    BY JobsRecords DEF WorkType
  <1>4. \A d \in Clients, r \in Posts : d \in subs'[r] => d # c /\ d \in subs[r]
    BY <1>1
  <1>5. \A d \in Clients : client'[d].at \in {"open", "new"} => d # c /\ client'[d] = client[d]
    BY <1>1
  <1>6. \A d \in Clients, r \in Posts : d # c /\ d \in subs[r] => d \in subs'[r]
    BY <1>1
  <1>7. \A d \in work'.subs : Doing("close")' /\ client'[d].at # "new"
                              /\ (client'[d].at = "open" => client'[d].r = work'.r)
    BY <1>1, <1>3 DEF Subscribed, Follows, Doing
  <1> QED
    BY <1>1, <1>4, <1>5, <1>6, <1>7 DEF Subscribed, Follows, Doing

LEMMA SubscribedKept ==
  ASSUME JobsTypeOK, Serial, Kept, Turned, Subscribed, [JobsNext]_jobVars
  PROVE  Subscribed'
  <1>1. ASSUME NEW r \in Posts, Refuse(r) PROVE Subscribed'
    <2>1. \A q \in Posts : /\ req[q] \notin {"new", "refused"} =>
                              req'[q] \notin {"new", "refused"}
                           /\ req[q] = "over" => req'[q] = "over"
      BY <1>1 DEF Refuse, JobsTypeOK
    <2> QED
      BY <1>1, <2>1, SubscribedStill DEF Refuse, jobs, sockets
  <1>2. ASSUME NEW r \in Posts, Push(r) PROVE Subscribed'
    <2>1. \A q \in Posts : /\ req[q] \notin {"new", "refused"} =>
                              req'[q] \notin {"new", "refused"}
                           /\ req[q] = "over" => req'[q] = "over"
      BY <1>2 DEF Push, JobsTypeOK
    <2> QED
      BY <1>2, <2>1, SubscribedStill DEF Push, jobs, sockets
  <1>3. ASSUME NEW r \in Posts, EvictExpired(r) PROVE Subscribed'
    <2>1. \A q \in known : job[q].status \notin Terminal =>
                           q \in known' /\ job'[q].status \notin Terminal
      BY <1>3, JobsRecords, JobsFirsts DEF EvictExpired, JobsTypeOK
    <2>2. UNCHANGED <<work, req, client, subs>>
      BY <1>3 DEF EvictExpired, sockets
    <2> QED
      BY <2>1, <2>2, SubscribedSame
  <1>4. ASSUME NEW r \in Posts, NEW c \in Containers, UpdateContainer(r, c)
        PROVE  Subscribed'
    <2>1. \A q \in Posts : /\ req[q] \notin {"new", "refused"} =>
                              req'[q] \notin {"new", "refused"}
                           /\ req[q] = "over" => req'[q] = "over"
      BY <1>4 DEF UpdateContainer, Enqueue, JobsTypeOK
    <2>2. known \subseteq known' /\ UNCHANGED <<work, job, client, subs>>
      BY <1>4 DEF UpdateContainer, Enqueue, sockets
    <2> QED
      BY <2>1, <2>2, SubscribedStill
  <1>5. ASSUME NEW r \in Posts, NEW s \in Stacks, UpdateStack(r, s)
        PROVE  Subscribed'
    <2>1. \A q \in Posts : /\ req[q] \notin {"new", "refused"} =>
                              req'[q] \notin {"new", "refused"}
                           /\ req[q] = "over" => req'[q] = "over"
      BY <1>5 DEF UpdateStack, Enqueue, JobsTypeOK
    <2>2. known \subseteq known' /\ UNCHANGED <<work, job, client, subs>>
      BY <1>5 DEF UpdateStack, Enqueue, sockets
    <2> QED
      BY <2>1, <2>2, SubscribedStill
  <1>6. CASE TakeJob
    <2>1. queue \in Seq(Posts) /\ queue # <<>> /\ work.pc = "idle"
      BY <1>6 DEF TakeJob, Doing, JobsTypeOK
    <2>2. Head(queue) \in Posts /\ req[Head(queue)] = "queued"
      BY <2>1, JobsHead DEF Serial
    <2>3. \A q \in Posts : /\ req[q] \notin {"new", "refused"} =>
                              req'[q] \notin {"new", "refused"}
                           /\ req[q] = "over" => req'[q] = "over"
      BY <1>6, <2>2 DEF TakeJob, JobsTypeOK
    <2>4. work.subs = {} /\ work'.subs = {}
      BY <1>6, <2>1, NoSubscriber DEF TakeJob, NoWork
    <2> QED
      BY <1>6, <2>1, <2>3, <2>4, SubscribedStill DEF TakeJob, sockets
  <1>7. CASE AtBox
    BY <1>7, SubscribedAtBox
  <1>8. CASE RecordOutcome
    <2>1. /\ work.pc # "close" /\ work'.subs = work.subs /\ UNCHANGED <<client, subs, known, req>>
          /\ \A q \in Posts : job'[q].status = job[q].status
      BY <1>8, OutcomeGoes DEF RecordOutcome, sockets
    <2>2. known \subseteq Posts
      BY DEF JobsTypeOK
    <2> QED
      BY <2>1, <2>2, SubscribedSame
  <1>9. CASE RecordFailure
    <2>1. /\ work.pc # "close" /\ work'.subs = work.subs /\ UNCHANGED <<client, subs, known, req>>
          /\ \A q \in Posts : job'[q].status = job[q].status
      BY <1>9, FailureGoes DEF RecordFailure, sockets
    <2>2. known \subseteq Posts
      BY DEF JobsTypeOK
    <2> QED
      BY <2>1, <2>2, SubscribedSame
  <1>10. CASE ReleaseLock
    <2>1. work.pc # "close" /\ work'.subs = work.subs
      BY <1>10, JobsRecords, GoesTo DEF ReleaseLock, Doing, Stages
    <2> QED
      BY <1>10, <2>1, SubscribedStill DEF ReleaseLock, jobs, sockets
  <1>11. CASE Finish
    <2>1. /\ work.r \in Posts /\ work.pc = "finish" /\ FanOut(work.r, TRUE)
          /\ work'.r = work.r /\ work'.pc = "close" /\ work'.subs = subs[work.r]
          /\ (\A q \in Posts : q # work.r => job'[q] = job[q])
          /\ subs' = [subs EXCEPT ![work.r] = {}]
      BY <1>11, FinishGoes
    <2>2. \A d \in Clients :
            /\ client'[d].at = client[d].at /\ client'[d].r = client[d].r
            /\ client'[d].closed = client[d].closed
            /\ client'[d] = client[d] \/ d \in subs[work.r]
      BY <2>1, FansOut
    <2>3. /\ subs'[work.r] = {} /\ subs[work.r] \subseteq Clients
          /\ \A q \in Posts : q # work.r => subs'[q] = subs[q]
      BY <2>1 DEF JobsTypeOK
    <2>4. UNCHANGED <<req, known>>
      BY <1>11 DEF Finish
    <2>5. \A d \in Clients, q \in Posts : d \in subs'[q] =>
            /\ Follows(d)' /\ client'[d].r = q /\ ~client'[d].closed
            /\ q \in known' /\ job'[q].status \notin Terminal
      BY <2>1, <2>2, <2>3, <2>4 DEF Subscribed, Follows
    <2>6. \A d \in Clients : Follows(d)' =>
            /\ client'[d].r \in Posts /\ req'[client'[d].r] \notin {"new", "refused"}
            /\ \/ d \in subs'[client'[d].r]
               \/ client'[d].closed /\ req'[client'[d].r] = "over"
               \/ Doing("close")' /\ d \in work'.subs
      BY <2>1, <2>2, <2>3, <2>4 DEF Subscribed, Follows, Doing
    <2>7. \A d \in Clients : client'[d].at = "new" => client'[d] = NoClient
      BY <2>1, <2>2 DEF Subscribed, Follows
    <2>8. \A d \in work'.subs :
            Doing("close")' /\ client'[d].at # "new" /\ (Follows(d)' => client'[d].r = work'.r)
      BY <2>1, <2>2, <2>3 DEF Subscribed, Follows, Doing
    <2> QED
      BY <2>5, <2>6, <2>7, <2>8 DEF Subscribed, Follows, Doing
  <1>12. CASE CloseChannels
    <2>1. /\ work.pc = "close" /\ work.r \in Posts /\ client' \in [Clients -> ClientType]
          /\ work'.subs = {} /\ UNCHANGED <<job, known, subs>>
          /\ \A d \in Clients :
               /\ client'[d].at = client[d].at /\ client'[d].r = client[d].r
               /\ client'[d].last = client[d].last /\ client'[d].ch = client[d].ch
               /\ client'[d].closed = (client[d].closed \/ d \in work.subs)
               /\ d \notin work.subs => client'[d] = client[d]
      BY <1>12, AtWork, ClosesGoes, JobsFirsts DEF CloseChannels, Doing, jobs
    <2>2. \A q \in Posts : /\ req[q] \notin {"new", "refused"} =>
                              req'[q] \notin {"new", "refused"}
                           /\ req[q] = "over" \/ q = work.r => req'[q] = "over"
      BY <1>12, <2>1 DEF CloseChannels, JobsTypeOK
    <2>3. \A d \in Clients, q \in Posts : d \in subs[q] => d \notin work.subs
      BY <2>1 DEF Kept, Subscribed
    <2>4. \A d \in Clients : client[d].at = "new" => client'[d] = client[d]
      BY <2>1 DEF Subscribed
    <2>6. \A d \in Clients, q \in Posts : d \in subs'[q] =>
            /\ Follows(d)' /\ client'[d].r = q /\ ~client'[d].closed
            /\ q \in known' /\ job'[q].status \notin Terminal
      BY <2>1, <2>3 DEF Subscribed, Follows
    <2>7. ASSUME NEW d \in Clients, Follows(d)'
          PROVE  /\ client'[d].r \in Posts /\ req'[client'[d].r] \notin {"new", "refused"}
                 /\ d \in subs'[client'[d].r] \/
                    (client'[d].closed /\ req'[client'[d].r] = "over")
      <3>1. /\ Follows(d) /\ client[d].r \in Posts /\ req[client[d].r] \notin {"new", "refused"}
            /\ \/ d \in subs[client[d].r]
               \/ client[d].closed /\ req[client[d].r] = "over"
               \/ d \in work.subs /\ client[d].r = work.r
        BY <2>1, <2>7 DEF Subscribed, Follows
      <3>2. client'[d].closed = (client[d].closed \/ d \in work.subs) /\
            client'[d].r = client[d].r
        BY <2>1
      <3>3. /\ req'[client[d].r] \notin {"new", "refused"}
            /\ req[client[d].r] = "over" \/ client[d].r = work.r => req'[client[d].r] = "over"
        BY <2>2, <3>1
      <3> QED
        BY <2>1, <3>1, <3>2, <3>3
    <2>8. \A d \in Clients : client'[d].at = "new" => client'[d] = NoClient
      BY <2>1, <2>4 DEF Subscribed
    <2> QED
      BY <2>1, <2>6, <2>7, <2>8 DEF Subscribed
  <1>13. ASSUME NEW c \in Clients, NEW r \in Posts, Subscribe(c, r)
        PROVE  Subscribed'
    <2>1. /\ client[c].at = "new" /\ req[r] \notin {"new", "refused"}
          /\ (\A d \in Clients : d # c => client'[d] = client[d])
          /\ \/ client'[c].at \in {"unknown", "told"} /\ subs' = subs
             \/ /\ r \in known /\ job[r].status \notin Terminal
                /\ client'[c].at = "open" /\ client'[c].r = r
                /\ client'[c].closed = client[c].closed
                /\ subs' = [subs EXCEPT ![r] = @ \cup {c}]
      BY <1>13, SubscribeGoes
    <2>2. UNCHANGED <<req, work, job, known>>
      BY <1>13 DEF Subscribe, Reader, jobs
    <2>3. c \notin work.subs /\ ~client[c].closed /\ \A q \in Posts : c \notin subs[q]
      BY <2>1, JobsFirsts DEF Subscribed, Follows
    <2>4. work.subs \subseteq Clients
      BY JobsRecords DEF WorkType
    <2>5. CASE client'[c].at \in {"unknown", "told"} /\ subs' = subs
      BY <2>1, <2>2, <2>3, <2>4, <2>5 DEF Subscribed, Follows, Doing
    <2>6. CASE /\ r \in known /\ job[r].status \notin Terminal
               /\ client'[c].at = "open" /\ client'[c].r = r /\ ~client'[c].closed
               /\ subs' = [subs EXCEPT ![r] = @ \cup {c}]
      <3>1. \A q \in Posts : subs'[q] = IF q = r THEN subs[r] \cup {c} ELSE subs[q]
        BY <2>6 DEF JobsTypeOK
      <3> QED
        BY <2>1, <2>2, <2>3, <2>4, <2>6, <3>1 DEF Subscribed, Follows, Doing
    <2> QED
      BY <2>1, <2>3, <2>5, <2>6
  <1>14. ASSUME NEW c \in Clients, Forward(c) PROVE Subscribed'
    <2>1. UNCHANGED <<req, known, job, work>>
      BY <1>14 DEF Forward, Reader, jobs
    <2>2. CASE Leave(c, "told")
      BY <2>1, <2>2, SubscribedLeave
    <2>3. CASE ~Leave(c, "told")
      <3>1. /\ Follows(c) /\ (\A d \in Clients : d # c => client'[d] = client[d])
            /\ subs' = subs /\ client'[c].at = "open" /\ client'[c].r = client[c].r
            /\ client'[c].closed = client[c].closed
        BY <1>14, <2>3, ForwardGoes
      <3> QED
        BY <2>1, <3>1, SubscribedSame DEF Follows
    <2> QED
      BY <2>2, <2>3
  <1>15. ASSUME NEW c \in Clients, SeeClosed(c) PROVE Subscribed'
    <2>1. UNCHANGED <<req, known, job, work>> /\ Leave(c, "cut")
      BY <1>15 DEF SeeClosed, Reader, jobs
    <2> QED
      BY <2>1, SubscribedLeave
  <1>16. ASSUME NEW c \in Clients, Disconnect(c) PROVE Subscribed'
    <2>1. UNCHANGED <<req, known, job, work>> /\ Leave(c, "gone")
      BY <1>16 DEF Disconnect, Reader, jobs
    <2> QED
      BY <2>1, SubscribedLeave
  <1>17. CASE PruneBegins
    BY <1>17, SubscribedStill DEF PruneBegins, Pruner, jobs, sockets
  <1>18. ASSUME NEW c \in Containers, PruneRemoves(c) PROVE Subscribed'
    BY <1>18, SubscribedStill DEF PruneRemoves, Pruner, jobs, sockets
  <1>19. CASE PruneEnds
    BY <1>19, SubscribedStill DEF PruneEnds, Pruner, jobs, sockets
  <1>20. CASE Shutdown
    BY <1>20, SubscribedStill DEF Shutdown, jobs, sockets
  <1>21. CASE StopReturns
    BY <1>21, SubscribedStill DEF StopReturns, jobs, sockets
  <1>22. CASE Restart
    <2>1. (\A q \in Posts : subs'[q] = {}) /\ work'.subs = {}
      BY <1>22, JobsFirsts DEF Restart
    <2>2. \A d \in Clients : (client'[d] = client[d] /\ ~Follows(d)) \/ client'[d].at = "gone"
      BY <1>22, RestartClients
    <2> QED
      BY <2>1, <2>2 DEF Subscribed, Follows
  <1>23. CASE UNCHANGED jobVars
    BY <1>23, SubscribedStill DEF jobVars, jobs, sockets
  <1> QED
    BY <1>1, <1>2, <1>3, <1>4, <1>5, <1>6, <1>7, <1>8, <1>9, <1>10, <1>11,
       <1>12, <1>13, <1>14, <1>15, <1>16, <1>17, <1>18, <1>19, <1>20, <1>21,
       <1>22, <1>23 DEF JobsNext, Working, AtBox

-----------------------------------------------------------------------------
(* The numbers of the events in a channel.                                 *)
LEMMA AtBoxFans ==
  ASSUME JobsTypeOK, Serial, Turned, AtBox
  PROVE  /\ UNCHANGED <<req, known, subs>> /\ work.r \in Posts /\ work.pc \in OnBox
         /\ \/ UNCHANGED <<client, job>> /\ past'.full = past.full
            \/ /\ FanOut(work.r, FALSE) /\ job'[work.r].n = job[work.r].n + 1
               /\ \A q \in Posts : q # work.r => job'[q] = job[q]
  <1>1. UNCHANGED <<req, known, subs>> /\ work.r \in Posts /\ work.pc \in OnBox
    BY AtBoxGoes, AtContainer DEF Apart
  <1>2. CASE SetStatus(work.r, "pulling") \/ SetStatus(work.r, "recreating")
    BY <1>1, <1>2, SetsStatus
  <1>3. CASE ~(SetStatus(work.r, "pulling") \/ SetStatus(work.r, "recreating"))
    <2>1. UNCHANGED <<client, job>>
          /\ (past' = past \/ past' = [past EXCEPT !.verified = @ \cup {Cur}])
      BY <1>3, InspectGoes, PullGoes, ApplyGoes, ComposeUpGoes, SettleGoes,
         StopGoes, RemoveGoes,
         CreateGoes, StartGoes, VerifyGoes DEF AtBox
    <2>2. past'.full = past.full
      BY <2>1, JobsRecords DEF PastType
    <2> QED
      BY <1>1, <2>1, <2>2
  <1> QED
    BY <1>2, <1>3

LEMMA FollowerTypes ==
  ASSUME JobsTypeOK
  PROVE  /\ \A c \in Clients : client[c].ch \in Seq(EventType) /\ client[c].last \in Nat
         /\ \A r \in Posts : job[r].n \in Nat /\ subs[r] \subseteq Clients
  BY JobsRecords DEF JobsTypeOK, ClientType, StateType

LEMMA NumberedSame ==
  ASSUME Numbered,
         \A c \in Clients : Follows(c)' =>
           /\ Follows(c) /\ client'[c].r = client[c].r
           /\ client'[c].ch = client[c].ch /\ client'[c].last = client[c].last
           /\ c \in subs'[client[c].r] =>
                c \in subs[client[c].r] /\ job'[client[c].r].n = job[client[c].r].n
  PROVE  Numbered'
  BY DEF Numbered, InOrder

LEMMA NumberedFan ==
  ASSUME JobsTypeOK, Subscribed, Numbered, NEW r \in Posts, NEW done \in BOOLEAN, FanOut(r, done),
         job'[r].n = job[r].n + 1, \A q \in Posts : q # r => job'[q] = job[q],
         IF done THEN subs' = [subs EXCEPT ![r] = {}] ELSE subs' = subs
  PROVE  Numbered'
  <1> SUFFICES ASSUME NEW c \in Clients, Follows(c)'
               PROVE  /\ Ordered(client'[c].ch, client'[c].last)
                      /\ c \in subs'[client'[c].r] =>
                           UpTo(client'[c].ch, client'[c].last, job'[client'[c].r].n)
    BY DEF Numbered, InOrder
  <1> DEFINE e == [n |-> job[r].n + 1, done |-> done]
  <1>1. /\ e \in EventType /\ e.n = job[r].n + 1 /\ e.done = done
        /\ client'[c].at = client[c].at /\ client'[c].r = client[c].r
        /\ client'[c].last = client[c].last
        /\ client'[c] = client[c] \/ c \in subs[r]
        /\ c \in subs[r] => client'[c] = client[c] \/ client'[c].ch = Append(client[c].ch, e)
    BY FansOut
  <1> HIDE DEF e
  <1>2. Follows(c) /\ client[c].r \in Posts
    BY <1>1 DEF Follows, Subscribed
  <1>3. client[c].ch \in Seq(EventType) /\ client[c].last \in Nat /\ job[r].n \in Nat
    BY FollowerTypes
  <1>4. Ordered(client[c].ch, client[c].last)
    BY <1>2 DEF Numbered, InOrder
  <1>5. c \in subs'[client[c].r] => c \in subs[client[c].r] /\ (client[c].r = r => ~done)
    BY <1>2 DEF JobsTypeOK
  <1>6. CASE c \notin subs[r]
    <2>1. client'[c] = client[c] /\ (c \in subs'[client[c].r] => client[c].r # r)
      BY <1>1, <1>5, <1>6
    <2> QED
      BY <1>2, <1>4, <1>5, <2>1 DEF Numbered, InOrder
  <1>7. CASE c \in subs[r]
    <2>1. client[c].r = r
      BY <1>7 DEF Subscribed
    <2>2. UpTo(client[c].ch, client[c].last, job[r].n)
      BY <1>2, <1>7, <2>1 DEF Numbered, InOrder
    <2>3. CASE client'[c] = client[c]
      <3>1. \A k \in 1 .. Len(client[c].ch) : client[c].ch[k].n \in Nat
        <4>1. \A k \in 1 .. Len(client[c].ch) : client[c].ch[k] \in EventType
          BY <1>3, ElementOfSeq
        <4> QED
          BY <4>1 DEF EventType
      <3>2. UpTo(client[c].ch, client[c].last, job[r].n + 1)
        BY <1>3, <2>2, <3>1 DEF UpTo
      <3> QED
        BY <1>4, <2>1, <2>3, <3>2
    <2>4. CASE client'[c].ch = Append(client[c].ch, e)
      <3>1. /\ Ordered(client'[c].ch, client[c].last)
            /\ ~done => UpTo(client'[c].ch, client[c].last, job[r].n + 1)
        BY <1>1, <1>3, <1>4, <2>2, <2>4, ChannelAppend
      <3> QED
        BY <1>1, <1>5, <2>1, <3>1
    <2> QED
      BY <1>1, <1>7, <2>3, <2>4
  <1> QED
    BY <1>6, <1>7

LEMMA NumberedLeave ==
  ASSUME JobsTypeOK, Subscribed, Numbered, job' = job, NEW c \in Clients,
         NEW how \in {"told", "cut", "gone"},
         Leave(c, how)
  PROVE  Numbered'
  <1>1. /\ client'[c].at = how
        /\ \A d \in Clients : d # c => client'[d] = client[d]
    BY LeaveGoes
  <1>2. subs' = [r \in Posts |-> subs[r] \ {c}]
    BY DEF Leave
  <1>3. \A r \in Posts : subs'[r] \subseteq subs[r]
    BY <1>2
  <1>4. \A d \in Clients : Follows(d)' =>
                           Follows(d) /\ client'[d] = client[d] /\ client[d].r \in Posts
    BY <1>1 DEF Follows, Subscribed
  <1> QED
    BY <1>3, <1>4, NumberedSame

LEMMA NumberedKept ==
  ASSUME JobsTypeOK, Serial, Turned, Subscribed, Numbered, [JobsNext]_jobVars
  PROVE  Numbered'
  <1>1. ASSUME NEW r \in Posts, Refuse(r) PROVE Numbered'
    <2>1. UNCHANGED <<client, subs, job>>
      BY <1>1 DEF Refuse, jobs, sockets
    <2> QED
      BY <2>1, NumberedSame DEF Follows
  <1>2. ASSUME NEW r \in Posts, Push(r) PROVE Numbered'
    <2>1. UNCHANGED <<client, subs, job>>
      BY <1>2 DEF Push, jobs, sockets
    <2> QED
      BY <2>1, NumberedSame DEF Follows
  <1>3. ASSUME NEW r \in Posts, EvictExpired(r) PROVE Numbered'
    <2>1. \A d \in Clients : Follows(d) /\ d \in subs[client[d].r] =>
                             job'[client[d].r] = job[client[d].r]
      BY <1>3 DEF EvictExpired, Subscribed, JobsTypeOK
    <2> QED
      BY <1>3, <2>1, NumberedSame DEF EvictExpired, sockets, Follows
  <1>4. ASSUME NEW r \in Posts, NEW c \in Containers, UpdateContainer(r, c)
        PROVE  Numbered'
    <2>1. UNCHANGED <<client, subs, job>>
      BY <1>4 DEF UpdateContainer, Enqueue, jobs, sockets
    <2> QED
      BY <2>1, NumberedSame DEF Follows
  <1>5. ASSUME NEW r \in Posts, NEW s \in Stacks, UpdateStack(r, s)
        PROVE  Numbered'
    <2>1. UNCHANGED <<client, subs, job>>
      BY <1>5 DEF UpdateStack, Enqueue, jobs, sockets
    <2> QED
      BY <2>1, NumberedSame DEF Follows
  <1>6. CASE TakeJob
    <2>1. UNCHANGED <<client, subs, job>>
      BY <1>6 DEF TakeJob, jobs, sockets
    <2> QED
      BY <2>1, NumberedSame DEF Follows
  <1>7. CASE AtBox
    <2>1. /\ UNCHANGED <<req, known, subs>> /\ work.r \in Posts
          /\ \/ UNCHANGED <<client, job>>
             \/ /\ FanOut(work.r, FALSE) /\ job'[work.r].n = job[work.r].n + 1
                /\ \A q \in Posts : q # work.r => job'[q] = job[q]
      BY <1>7, AtBoxFans
    <2>2. CASE UNCHANGED <<client, job>>
      BY <2>1, <2>2, NumberedSame DEF Follows
    <2>3. CASE ~UNCHANGED <<client, job>>
      BY <2>1, <2>3, NumberedFan
    <2> QED
      BY <2>2, <2>3
  <1>8. CASE RecordOutcome
    <2>1. UNCHANGED <<client, subs>> /\ \A q \in Posts : job'[q].n = job[q].n
      BY <1>8, OutcomeGoes DEF RecordOutcome, sockets
    <2>2. \A d \in Clients : Follows(d) => client[d].r \in Posts
      BY DEF Subscribed
    <2> QED
      BY <2>1, <2>2, NumberedSame DEF Follows
  <1>9. CASE RecordFailure
    <2>1. UNCHANGED <<client, subs>> /\ \A q \in Posts : job'[q].n = job[q].n
      BY <1>9, FailureGoes DEF RecordFailure, sockets
    <2>2. \A d \in Clients : Follows(d) => client[d].r \in Posts
      BY DEF Subscribed
    <2> QED
      BY <2>1, <2>2, NumberedSame DEF Follows
  <1>10. CASE ReleaseLock
    <2>1. UNCHANGED <<client, subs, job>>
      BY <1>10 DEF ReleaseLock, Goto, jobs, sockets
    <2> QED
      BY <2>1, NumberedSame DEF Follows
  <1>11. CASE Finish
    <2> QED
      BY <1>11, FinishGoes, NumberedFan
  <1>12. CASE CloseChannels
    <2>1. /\ UNCHANGED <<job, subs>>
          /\ \A d \in Clients :
               /\ client'[d].at = client[d].at /\ client'[d].r = client[d].r
               /\ client'[d].last = client[d].last /\ client'[d].ch = client[d].ch
      BY <1>12, ClosesGoes DEF CloseChannels, jobs
    <2> QED
      BY <2>1, NumberedSame DEF Follows
  <1>13. ASSUME NEW c \in Clients, NEW r \in Posts, Subscribe(c, r)
        PROVE  Numbered'
    <2>1. /\ (\A d \in Clients : d # c => client'[d] = client[d])
          /\ client[c].at = "new" /\ job' = job /\ job[r].n \in Nat
      BY <1>13, SubscribeGoes, FollowerTypes DEF Subscribe, Reader, jobs
    <2>2. client[c].ch = <<>>
      BY <2>1, JobsFirsts DEF Subscribed
    <2>3. ASSUME NEW d \in Clients, d # c, Follows(d)'
          PROVE  /\ Follows(d) /\ client'[d] = client[d]
                 /\ d \in subs'[client[d].r] => d \in subs[client[d].r]
      <3>1. Follows(d) /\ client'[d] = client[d] /\ client[d].r \in Posts
        BY <2>1, <2>3 DEF Follows, Subscribed
      <3>2. subs' = subs \/ subs' = [subs EXCEPT ![r] = @ \cup {c}]
        BY <1>13, SubscribeGoes
      <3>3. subs \in [Posts -> SUBSET Clients]
        BY DEF JobsTypeOK
      <3>4. \A q \in Posts : subs'[q] = subs[q] \/ subs'[q] = subs[q] \cup {c}
        BY <3>2, <3>3
      <3>5. subs'[client[d].r] \in {subs[client[d].r], subs[client[d].r] \cup {c}}
        BY <3>1, <3>4
      <3> QED
        BY <2>3, <3>1, <3>5
    <2>4. Follows(c)' => Ordered(client'[c].ch, client'[c].last)
                         /\ UpTo(client'[c].ch, client'[c].last, job'[client'[c].r].n)
      <3>1. Follows(c)' => client'[c].r = r /\ client'[c].last = job[r].n /\ client'[c].ch = <<>>
        BY <1>13, <2>2, SubscribeGoes DEF Follows
      <3> QED
        BY <2>1, <3>1, ChannelEmpty
    <2>5. ASSUME NEW d \in Clients, d # c PROVE InOrder(d)'
      BY <2>1, <2>3, <2>5 DEF Numbered, InOrder
    <2>6. InOrder(c)'
      BY <2>4 DEF InOrder
    <2> QED
      BY <2>5, <2>6, Zenon DEF Numbered
  <1>14. ASSUME NEW c \in Clients, Forward(c) PROVE Numbered'
    <2>1. job' = job
      BY <1>14 DEF Forward, Reader, jobs
    <2>2. CASE Leave(c, "told")
      BY <2>1, <2>2, NumberedLeave
    <2>3. CASE ~Leave(c, "told")
      <3>1. /\ Follows(c) /\ client[c].ch # <<>> /\
               (\A d \in Clients : d # c => client'[d] = client[d])
            /\ subs' = subs /\ client'[c].r = client[c].r
            /\ client'[c].last = client[c].ch[1].n /\ client'[c].ch = Tail(client[c].ch)
        BY <1>14, <2>3, ForwardGoes
      <3>2. client[c].ch \in Seq(EventType) /\ client[c].last \in Nat /\ client[c].r \in Posts
            /\ job[client[c].r].n \in Nat
        BY <3>1, FollowerTypes DEF Subscribed
      <3>3. Ordered(client[c].ch, client[c].last)
        BY <3>1 DEF Numbered, InOrder
      <3>4. Ordered(client'[c].ch, client'[c].last)
            /\ (UpTo(client[c].ch, client[c].last, job[client[c].r].n) =>
                  UpTo(client'[c].ch, client'[c].last, job[client[c].r].n))
        BY <3>1, <3>2, <3>3, ChannelTail
      <3> QED
        BY <2>1, <3>1, <3>4 DEF Numbered, InOrder, Follows
    <2> QED
      BY <2>2, <2>3
  <1>15. ASSUME NEW c \in Clients, SeeClosed(c) PROVE Numbered'
    <2>1. job' = job /\ Leave(c, "cut")
      BY <1>15 DEF SeeClosed, Reader, jobs
    <2> QED
      BY <2>1, NumberedLeave
  <1>16. ASSUME NEW c \in Clients, Disconnect(c) PROVE Numbered'
    <2>1. job' = job /\ Leave(c, "gone")
      BY <1>16 DEF Disconnect, Reader, jobs
    <2> QED
      BY <2>1, NumberedLeave
  <1>17. CASE PruneBegins
    <2>1. UNCHANGED <<client, subs, job>>
      BY <1>17 DEF PruneBegins, Pruner, jobs, sockets
    <2> QED
      BY <2>1, NumberedSame DEF Follows
  <1>18. ASSUME NEW c \in Containers, PruneRemoves(c) PROVE Numbered'
    <2>1. UNCHANGED <<client, subs, job>>
      BY <1>18 DEF PruneRemoves, Pruner, jobs, sockets
    <2> QED
      BY <2>1, NumberedSame DEF Follows
  <1>19. CASE PruneEnds
    <2>1. UNCHANGED <<client, subs, job>>
      BY <1>19 DEF PruneEnds, Pruner, jobs, sockets
    <2> QED
      BY <2>1, NumberedSame DEF Follows
  <1>20. CASE Shutdown
    <2>1. UNCHANGED <<client, subs, job>>
      BY <1>20 DEF Shutdown, jobs, sockets
    <2> QED
      BY <2>1, NumberedSame DEF Follows
  <1>21. CASE StopReturns
    <2>1. UNCHANGED <<client, subs, job>>
      BY <1>21 DEF StopReturns, jobs, sockets
    <2> QED
      BY <2>1, NumberedSame DEF Follows
  <1>22. CASE Restart
    <2>1. \A d \in Clients : ~Follows(d)'
      BY <1>22, RestartClients DEF Follows
    <2> QED
      BY <2>1 DEF Numbered, InOrder
  <1>23. CASE UNCHANGED jobVars
    <2>1. UNCHANGED <<client, subs, job>>
      BY <1>23 DEF jobVars, jobs, sockets
    <2> QED
      BY <2>1, NumberedSame DEF Follows
  <1> QED
    BY <1>1, <1>2, <1>3, <1>4, <1>5, <1>6, <1>7, <1>8, <1>9, <1>10, <1>11,
       <1>12, <1>13, <1>14, <1>15, <1>16, <1>17, <1>18, <1>19, <1>20, <1>21,
       <1>22, <1>23 DEF JobsNext, Working, AtBox

(* A channel that has never been full has every event since the last one.  *)
LEMMA GaplessSame ==
  ASSUME Gapless, past.full \subseteq past'.full,
         \A c \in Clients :
           /\ client'[c].at = "cut" => client[c].at = "cut"
           /\ Follows(c)' =>
                /\ Follows(c) /\ client'[c].r = client[c].r
                /\ client'[c].ch = client[c].ch /\ client'[c].last = client[c].last
                /\ c \in subs[client[c].r] => c \in subs'[client[c].r]
                /\ client[c].r \in known' =>
                     client[c].r \in known /\ job'[client[c].r].n = job[client[c].r].n
  PROVE  Gapless'
  BY DEF Gapless, Complete

LEMMA GaplessFan ==
  ASSUME JobsTypeOK, Subscribed, Gapless, NEW r \in Posts, NEW done \in BOOLEAN, FanOut(r, done),
         req[r] = "running", work.pc # "close", known' = known,
         job'[r].n = job[r].n + 1, \A q \in Posts : q # r => job'[q] = job[q],
         IF done THEN subs' = [subs EXCEPT ![r] = {}] ELSE subs' = subs
  PROVE  Gapless'
  <1> SUFFICES ASSUME NEW c \in Clients, c \notin past'.full
               PROVE  /\ client'[c].at # "cut"
                      /\ Follows(c)' =>
                           /\ Dense(client'[c].ch, client'[c].last)
                           /\ client'[c].r \in known' =>
                                job'[client'[c].r].n = client'[c].last + Len(client'[c].ch)
                           /\ c \in subs'[client'[c].r] \/ Told(client'[c].ch)
    BY DEF Gapless, Complete
  <1> DEFINE e == [n |-> job[r].n + 1, done |-> done]
  <1>1. /\ e \in EventType /\ e.n = job[r].n + 1 /\ e.done = done
        /\ past.full \subseteq past'.full
        /\ client'[c].at = client[c].at /\ client'[c].r = client[c].r
        /\ client'[c].last = client[c].last
        /\ client'[c] = client[c] \/ c \in subs[r]
        /\ c \in subs[r] => client'[c].ch = Append(client[c].ch, e)
    BY FansOut
  <1> HIDE DEF e
  <1>2. c \notin past.full /\ client[c].at # "cut"
    BY <1>1 DEF Gapless, Complete
  <1> SUFFICES ASSUME Follows(c)'
               PROVE  /\ Dense(client'[c].ch, client'[c].last)
                      /\ client'[c].r \in known' =>
                           job'[client'[c].r].n = client'[c].last + Len(client'[c].ch)
                      /\ c \in subs'[client'[c].r] \/ Told(client'[c].ch)
    BY <1>1, <1>2
  <1>3. Follows(c) /\ client[c].r \in Posts
    BY <1>1 DEF Follows, Subscribed
  <1>4. /\ Dense(client[c].ch, client[c].last)
        /\ client[c].r \in known => job[client[c].r].n = client[c].last + Len(client[c].ch)
        /\ c \in subs[client[c].r] \/ Told(client[c].ch)
    BY <1>2, <1>3 DEF Gapless, Complete
  <1>5. CASE c \notin subs[r]
    <2>1. client'[c] = client[c]
      BY <1>1, <1>5
    <2>2. client[c].r # r
      BY <1>3, <1>5 DEF Subscribed, Doing
    <2>3. subs'[client[c].r] = subs[client[c].r] /\ job'[client[c].r] = job[client[c].r]
      BY <1>3, <2>2 DEF JobsTypeOK
    <2> QED
      BY <1>4, <2>1, <2>3
  <1>6. CASE c \in subs[r]
    <2>1. client[c].r = r /\ r \in known
      BY <1>6 DEF Subscribed
    <2>2. client[c].ch \in Seq(EventType) /\ client[c].last \in Nat /\ Len(client[c].ch) \in Nat
      BY FollowerTypes, LenProperties
    <2>3. /\ Dense(client'[c].ch, client[c].last)
          /\ Len(client'[c].ch) = Len(client[c].ch) + 1
          /\ done => Told(client'[c].ch)
      BY <1>1, <1>4, <1>6, <2>1, <2>2, DenseAppend
    <2>4. ~done => c \in subs'[r]
      BY <1>6
    <2>5. job[r].n = client[c].last + Len(client[c].ch)
      BY <1>4, <2>1
    <2>6. job'[r].n = client[c].last + Len(client'[c].ch)
      BY <2>2, <2>3, <2>5
    <2>7. c \in subs'[r] \/ Told(client'[c].ch)
      BY <2>3, <2>4
    <2> QED
      BY <1>1, <2>1, <2>3, <2>6, <2>7
  <1> QED
    BY <1>5, <1>6

LEMMA GaplessLeave ==
  ASSUME JobsTypeOK, Subscribed, Gapless, UNCHANGED <<job, known, past>>, NEW c \in Clients,
         NEW how \in {"told", "cut", "gone"}, how = "cut" => c \in past.full, Leave(c, how)
  PROVE  Gapless'
  <1>1. /\ client'[c].at = how
        /\ \A d \in Clients : d # c => client'[d] = client[d]
        /\ \A r \in Posts : subs'[r] = subs[r] \ {c}
    BY LeaveGoes
  <1>2. \A d \in Clients : Follows(d) => client[d].r \in Posts
    BY DEF Subscribed
  <1>3. \A d \in Clients : d # c /\ Follows(d) =>
          (d \in subs[client[d].r] => d \in subs'[client[d].r])
    BY <1>1, <1>2
  <1> QED
    BY <1>1, <1>3 DEF Gapless, Complete, Follows

LEMMA GaplessKept ==
  ASSUME JobsTypeOK, Serial, Turned, Subscribed, Gapless, [JobsNext]_jobVars
  PROVE  Gapless'
  <1>1. ASSUME NEW r \in Posts, Refuse(r) PROVE Gapless'
    <2>1. UNCHANGED <<client, subs, job, known, past>>
      BY <1>1 DEF Refuse, jobs, sockets
    <2> QED
      BY <2>1, GaplessSame DEF Follows
  <1>2. ASSUME NEW r \in Posts, Push(r) PROVE Gapless'
    <2>1. UNCHANGED <<client, subs, job, known, past>>
      BY <1>2 DEF Push, jobs, sockets
    <2> QED
      BY <2>1, GaplessSame DEF Follows
  <1>3. ASSUME NEW r \in Posts, EvictExpired(r) PROVE Gapless'
    <2>1. \A q \in known' : q \in known /\ q # r /\ job'[q] = job[q]
      BY <1>3 DEF EvictExpired, JobsTypeOK
    <2> QED
      BY <1>3, <2>1, GaplessSame DEF EvictExpired, sockets, Follows
  <1>4. ASSUME NEW r \in Posts, NEW c \in Containers, UpdateContainer(r, c)
        PROVE  Gapless'
    <2>1. UNCHANGED <<client, subs, job, past>> /\ known' = known \cup {r} /\ req[r] = "new"
      BY <1>4 DEF UpdateContainer, Enqueue, sockets
    <2>2. \A d \in Clients : Follows(d) => client[d].r # r
      BY <2>1 DEF Subscribed
    <2> QED
      BY <2>1, <2>2, GaplessSame DEF Follows
  <1>5. ASSUME NEW r \in Posts, NEW s \in Stacks, UpdateStack(r, s)
        PROVE  Gapless'
    <2>1. UNCHANGED <<client, subs, job, past>> /\ known' = known \cup {r} /\ req[r] = "new"
      BY <1>5 DEF UpdateStack, Enqueue, sockets
    <2>2. \A d \in Clients : Follows(d) => client[d].r # r
      BY <2>1 DEF Subscribed
    <2> QED
      BY <2>1, <2>2, GaplessSame DEF Follows
  <1>6. CASE TakeJob
    <2>1. UNCHANGED <<client, subs, job, known, past>>
      BY <1>6 DEF TakeJob, jobs, sockets
    <2> QED
      BY <2>1, GaplessSame DEF Follows
  <1>7. CASE AtBox
    <2>1. /\ UNCHANGED <<req, known, subs>> /\ work.r \in Posts /\ work.pc \in OnBox
          /\ \/ UNCHANGED <<client, job>> /\ past'.full = past.full
             \/ /\ FanOut(work.r, FALSE) /\ job'[work.r].n = job[work.r].n + 1
                /\ \A q \in Posts : q # work.r => job'[q] = job[q]
      BY <1>7, AtBoxFans
    <2>2. work.pc # "close" /\ req[work.r] = "running"
      BY <2>1 DEF OnBox, Serial
    <2>3. CASE UNCHANGED <<client, job>> /\ past'.full = past.full
      BY <2>1, <2>3, GaplessSame DEF Follows
    <2>4. CASE ~(UNCHANGED <<client, job>> /\ past'.full = past.full)
      BY <2>1, <2>2, <2>4, GaplessFan
    <2> QED
      BY <2>3, <2>4
  <1>8. CASE RecordOutcome
    <2>1. UNCHANGED <<client, subs, known, past>> /\ \A q \in Posts : job'[q].n = job[q].n
      BY <1>8, OutcomeGoes DEF RecordOutcome, sockets
    <2>2. \A d \in Clients : Follows(d) => client[d].r \in Posts
      BY DEF Subscribed
    <2> QED
      BY <2>1, <2>2, GaplessSame DEF Follows
  <1>9. CASE RecordFailure
    <2>1. UNCHANGED <<client, subs, known, past>> /\ \A q \in Posts : job'[q].n = job[q].n
      BY <1>9, FailureGoes DEF RecordFailure, sockets
    <2>2. \A d \in Clients : Follows(d) => client[d].r \in Posts
      BY DEF Subscribed
    <2> QED
      BY <2>1, <2>2, GaplessSame DEF Follows
  <1>10. CASE ReleaseLock
    <2>1. UNCHANGED <<client, subs, job, known, past>>
      BY <1>10 DEF ReleaseLock, Goto, jobs, sockets
    <2> QED
      BY <2>1, GaplessSame DEF Follows
  <1>11. CASE Finish
    <2>1. /\ work.r \in Posts /\ work.pc = "finish" /\ FanOut(work.r, TRUE)
          /\ job'[work.r].n = job[work.r].n + 1
          /\ (\A q \in Posts : q # work.r => job'[q] = job[q])
          /\ subs' = [subs EXCEPT ![work.r] = {}]
      BY <1>11, FinishGoes
    <2>2. known' = known /\ req[work.r] = "running"
      BY <1>11, <2>1 DEF Finish, Serial
    <2> QED
      BY <2>1, <2>2, GaplessFan
  <1>12. CASE CloseChannels
    <2>1. /\ UNCHANGED <<job, known, subs, past>>
          /\ \A d \in Clients :
               /\ client'[d].at = client[d].at /\ client'[d].r = client[d].r
               /\ client'[d].last = client[d].last /\ client'[d].ch = client[d].ch
      BY <1>12, ClosesGoes DEF CloseChannels, jobs
    <2> QED
      BY <2>1, GaplessSame DEF Follows
  <1>13. ASSUME NEW c \in Clients, NEW r \in Posts, Subscribe(c, r)
        PROVE  Gapless'
    <2>1. /\ (\A d \in Clients : d # c => client'[d] = client[d])
          /\ client[c].at = "new" /\ UNCHANGED <<job, known, past>> /\ job[r].n \in Nat
      BY <1>13, SubscribeGoes, FollowerTypes DEF Subscribe, Reader, jobs
    <2>2. client[c].ch = <<>>
      BY <2>1, JobsFirsts DEF Subscribed
    <2>3. \A d \in Clients : d # c /\ Follows(d) =>
            client[d].r \in Posts /\ (d \in subs[client[d].r] => d \in subs'[client[d].r])
      <3>1. subs' = subs \/ subs' = [subs EXCEPT ![r] = @ \cup {c}]
        BY <1>13, SubscribeGoes
      <3>2. subs \in [Posts -> SUBSET Clients]
        BY DEF JobsTypeOK
      <3>3. \A q \in Posts : subs[q] \subseteq subs'[q]
        BY <3>1, <3>2
      <3> QED
        BY <3>3 DEF Subscribed
    <2>4. /\ client'[c].at # "cut"
          /\ Follows(c)' => /\ Dense(client'[c].ch, client'[c].last)
                            /\ job'[client'[c].r].n = client'[c].last + Len(client'[c].ch)
                            /\ c \in subs'[client'[c].r]
      <3>1. /\ client'[c].at # "cut"
            /\ Follows(c)' => /\ client'[c].r = r /\ client'[c].last = job[r].n
                              /\ client'[c].ch = <<>>
                              /\ subs' = [subs EXCEPT ![r] = @ \cup {c}]
        BY <1>13, <2>2, SubscribeGoes DEF Follows
      <3>2. Follows(c)' => c \in subs'[r]
        BY <3>1 DEF JobsTypeOK
      <3> QED
        BY <2>1, <3>1, <3>2, ChannelEmpty
    <2>5. ASSUME NEW d \in Clients, d # c, d \notin past.full PROVE Complete(d)'
      <3>1. client'[d] = client[d]
        BY <2>1, <2>5
      <3> QED
        BY <2>1, <2>3, <2>5, <3>1 DEF Gapless, Complete, Follows
    <2>6. Complete(c)'
      BY <2>4 DEF Complete
    <2>7. past'.full = past.full
      BY <2>1
    <2> QED
      BY <2>5, <2>6, <2>7, Zenon DEF Gapless
  <1>14. ASSUME NEW c \in Clients, Forward(c) PROVE Gapless'
    <2>1. UNCHANGED <<job, known, past>>
      BY <1>14 DEF Forward, Reader, jobs
    <2>2. CASE Leave(c, "told")
      BY <2>1, <2>2, GaplessLeave
    <2>3. CASE ~Leave(c, "told")
      <3>1. /\ Follows(c) /\ client[c].ch # <<>> /\
               (\A d \in Clients : d # c => client'[d] = client[d])
            /\ subs' = subs /\ client'[c].at = "open" /\ client'[c].r = client[c].r
            /\ ~client[c].ch[1].done
            /\ client'[c].last = client[c].ch[1].n /\ client'[c].ch = Tail(client[c].ch)
        BY <1>14, <2>3, ForwardGoes
      <3>2. client[c].ch \in Seq(EventType) /\ client[c].last \in Nat
        BY FollowerTypes
      <3>3. Dense(client[c].ch, client[c].last) =>
              /\ Dense(client'[c].ch, client'[c].last)
              /\ client'[c].last + Len(client'[c].ch) = client[c].last + Len(client[c].ch)
              /\ Told(client[c].ch) => Told(client'[c].ch)
        BY <3>1, <3>2, DenseTail
      <3>4. c \notin past.full =>
              /\ Dense(client'[c].ch, client'[c].last)
              /\ client[c].r \in known =>
                 job[client[c].r].n = client'[c].last + Len(client'[c].ch)
              /\ c \in subs[client[c].r] \/ Told(client'[c].ch)
        BY <3>1, <3>3 DEF Gapless, Complete
      <3>5. client'[c].r = client[c].r
        BY <1>14, <2>3, ForwardGoes
      <3>6. c \notin past.full => Complete(c)'
        BY <2>1, <3>1, <3>4, <3>5 DEF Complete
      <3>7. ASSUME NEW d \in Clients, d # c, d \notin past.full PROVE Complete(d)'
        <4>1. client'[d] = client[d]
          BY <3>1, <3>7
        <4> QED
          BY <2>1, <3>1, <3>7, <4>1 DEF Gapless, Complete, Follows
      <3>8. past'.full = past.full
        BY <2>1
      <3> QED
        BY <3>6, <3>7, <3>8, Zenon DEF Gapless
    <2> QED
      BY <2>2, <2>3
  <1>15. ASSUME NEW c \in Clients, SeeClosed(c) PROVE Gapless'
    <2>1. UNCHANGED <<job, known, past>> /\ Leave(c, "cut")
      BY <1>15 DEF SeeClosed, Reader, jobs
    <2>2. Follows(c) /\ client[c].ch = <<>> /\ client[c].closed
      BY <1>15 DEF SeeClosed, Follows
    <2>3. \A q \in Posts : c \notin subs[q]
      BY <2>2 DEF Subscribed
    <2>4. client[c].r \in Posts
      BY <2>2 DEF Subscribed
    <2>5. c \in past.full
      BY <2>2, <2>3, <2>4 DEF Gapless, Complete, Told
    <2> QED
      BY <2>1, <2>5, GaplessLeave
  <1>16. ASSUME NEW c \in Clients, Disconnect(c) PROVE Gapless'
    <2>1. UNCHANGED <<job, known, past>> /\ Leave(c, "gone")
      BY <1>16 DEF Disconnect, Reader, jobs
    <2> QED
      BY <2>1, GaplessLeave
  <1>17. CASE PruneBegins
    <2>1. UNCHANGED <<client, subs, job, known, past>>
      BY <1>17 DEF PruneBegins, Pruner, jobs, sockets
    <2> QED
      BY <2>1, GaplessSame DEF Follows
  <1>18. ASSUME NEW c \in Containers, PruneRemoves(c) PROVE Gapless'
    <2>1. UNCHANGED <<client, subs, job, known, past>>
      BY <1>18 DEF PruneRemoves, Pruner, jobs, sockets
    <2> QED
      BY <2>1, GaplessSame DEF Follows
  <1>19. CASE PruneEnds
    <2>1. UNCHANGED <<client, subs, job, known, past>>
      BY <1>19 DEF PruneEnds, Pruner, jobs, sockets
    <2> QED
      BY <2>1, GaplessSame DEF Follows
  <1>20. CASE Shutdown
    <2>1. UNCHANGED <<client, subs, job, known, past>>
      BY <1>20 DEF Shutdown, jobs, sockets
    <2> QED
      BY <2>1, GaplessSame DEF Follows
  <1>21. CASE StopReturns
    <2>1. UNCHANGED <<client, subs, job, known, past>>
      BY <1>21 DEF StopReturns, jobs, sockets
    <2> QED
      BY <2>1, GaplessSame DEF Follows
  <1>22. CASE Restart
    <2>1. (\A d \in Clients : (client'[d] = client[d] /\ ~Follows(d)) \/ client'[d].at = "gone")
          /\ past' = past
      BY <1>22, RestartClients DEF Restart
    <2> QED
      BY <2>1 DEF Gapless, Complete, Follows
  <1>23. CASE UNCHANGED jobVars
    <2>1. UNCHANGED <<client, subs, job, known, past>>
      BY <1>23 DEF jobVars, jobs, sockets
    <2> QED
      BY <2>1, GaplessSame DEF Follows
  <1> QED
    BY <1>1, <1>2, <1>3, <1>4, <1>5, <1>6, <1>7, <1>8, <1>9, <1>10, <1>11,
       <1>12, <1>13, <1>14, <1>15, <1>16, <1>17, <1>18, <1>19, <1>20, <1>21,
       <1>22, <1>23 DEF JobsNext, Working, AtBox

-----------------------------------------------------------------------------
(* The inductive invariant, and what follows from it.                      *)
LEMMA JobsStart == JobsInit => JobsIInv
  <1> SUFFICES ASSUME JobsInit PROVE JobsIInv
    OBVIOUS
  <1>1. /\ work = NoWork /\ queue = <<>> /\ known = {} /\ pruning = FALSE /\ cached = Containers
        /\ \A r \in Posts : /\ req[r] = "new" /\ todo[r] = <<>> /\ target[r] = Nil
                            /\ job[r] = NoJob /\ subs[r] = {}
                            /\ \A c \in Containers : row[r][c] = "none"
        /\ \A c \in Clients : client[c] = NoClient
    BY DEF JobsInit
  <1>2. Len(<<>>) = 0 /\ Nil \notin Posts
    BY EmptySeq, JobAssumption
  <1>3. JobsTypeOK
    <2>1. RecordTypes
      BY JobsFirsts DEF JobsInit, RecordTypes, PastType
    <2>2. PlainTypes
      <3>1. <<>> \in Seq(Containers) /\ <<>> \in Seq(Posts)
        BY EmptySeq
      <3>2. 0 \in 0 .. MaxBoots
        BY JobAssumption
      <3> QED
        BY <3>1, <3>2 DEF JobsInit, PlainTypes, Boxes
    <2> QED
      BY <2>1, <2>2, TwoTypes
  <1>4. Serial
    BY <1>1, <1>2, JobsFirsts DEF Serial
  <1>5. Kept
    BY <1>1, <1>2, JobsFirsts DEF Kept, Waits
  <1>6. Turned
    BY <1>1, JobsFirsts DEF Turned, Waits, Works, OnBox
  <1>7. Spared /\ Vouched
    BY <1>1, JobsFirsts DEF Spared, PruneSparesUpdates, Vouched, Doing
  <1>8. Written /\ Blamed
    BY <1>1 DEF Written, Blamed, Bad
  <1>9. Subscribed
    BY <1>1, JobsFirsts DEF Subscribed, Follows
  <1>10. Numbered /\ Gapless
    BY <1>1, JobsFirsts DEF Numbered, InOrder, Gapless, Complete, Follows
  <1> QED
    BY <1>3, <1>4, <1>5, <1>6, <1>7, <1>8, <1>9, <1>10 DEF JobsIInv

LEMMA JobsStepKeeps == JobsIInv /\ [JobsNext]_jobVars => JobsIInv'
  <1> SUFFICES ASSUME JobsIInv, [JobsNext]_jobVars PROVE JobsIInv'
    OBVIOUS
  <1>1. /\ JobsTypeOK /\ Serial /\ Kept /\ Turned /\ Spared /\ Vouched /\ Written /\ Blamed
        /\ Subscribed /\ Numbered /\ Gapless
    BY DEF JobsIInv
  <1>2. JobsTypeOK'
    BY <1>1, JobTypesKept
  <1>3. Serial'
    BY <1>1, SerialKept
  <1>4. Kept'
    BY <1>1, KeptKept
  <1>5. Turned'
    BY <1>1, TurnedKept
  <1>6. Spared'
    BY <1>1, SparedKept
  <1>7. Vouched'
    BY <1>1, VouchedKept
  <1>8. Written'
    BY <1>1, WrittenKept
  <1>9. Blamed'
    BY <1>1, BlamedKept
  <1>10. Subscribed'
    BY <1>1, SubscribedKept
  <1>11. Numbered'
    BY <1>1, NumberedKept
  <1>12. Gapless'
    BY <1>1, GaplessKept
  <1> QED
    BY <1>2, <1>3, <1>4, <1>5, <1>6, <1>7, <1>8, <1>9, <1>10, <1>11, <1>12 DEF JobsIInv

LEMMA JobsAlways == JobsSpec => []JobsIInv
  BY JobsStart, JobsStepKeeps, PTL DEF JobsSpec

(* While an update is between two docker calls on a container, nothing     *)
(* else takes that container away: the turn that the job holds keeps every *)
(* prune out until the job is done with it.                                *)
THEOREM JobsCorrect == JobsSpec => []JobsInv
  <1>1. JobsIInv => JobsInv
    BY DEF JobsIInv, JobsInv, Spared
  <1> QED
    BY <1>1, JobsAlways, PTL

(* The tables tell the truth about updates that are over: only a verified  *)
(* container has left the list, no row stays pending, every service of the *)
(* stack that is still listed has a row, and no job that reports success   *)
(* has a failed or skipped one.                                            *)
THEOREM TablesTrue == JobsSpec => []TablesAreTrue
  <1>1. ASSUME JobsIInv PROVE TablesAreTrue
    <2>1. JobsTypeOK /\ Serial /\ Turned /\ Vouched /\ Written /\ Blamed
      BY <1>1 DEF JobsIInv
    <2>2. ASSUME NEW r \in Posts, req[r] \in {"over", "lost"},
                 NEW c \in Containers PROVE ~Has(r, c)
      BY <2>1, <2>2, NothingToDo
    <2>3. ASSUME NEW r \in Posts, req[r] \in {"over", "lost"}, writes, NEW c \in Containers
          PROVE  /\ row[r][c] # "pending"
                 /\ req[r] = "over" /\ target[r] = StackOf[c] /\ c \in cached =>
                    row[r][c] # "none"
                 /\ r \in known /\ job[r].status = "success" =>
                    row[r][c] \notin {"failed", "skipped"}
      BY <2>1, <2>2, <2>3 DEF Written, Blamed, Bad
    <2> QED
      BY <2>1, <2>3 DEF TablesAreTrue, Vouched
  <1> QED
    BY <1>1, JobsAlways, PTL

(* The last event sent and those in the channel, as one sequence.          *)
LEMMA EventNumbers ==
  ASSUME NEW s \in Seq(EventType), NEW last \in Nat
  PROVE  LET events == <<last>> \o [k \in 1 .. Len(s) |-> s[k].n]
         IN  /\ events[1] = last /\ \A k \in 1 .. Len(s) : events[k + 1] = s[k].n
             /\ Last(events) = IF Len(s) = 0 THEN last ELSE s[Len(s)].n
  <1> DEFINE t == [k \in 1 .. Len(s) |-> s[k].n]
             events == <<last>> \o t
  <1>1. Len(s) \in Nat /\ \A k \in 1 .. Len(s) : s[k].n \in Nat
    <2>1. \A k \in 1 .. Len(s) : s[k] \in EventType
      BY ElementOfSeq
    <2> QED
      BY <2>1, LenProperties DEF EventType
  <1>2. t \in Seq(Nat) /\ Len(t) = Len(s) /\ \A k \in 1 .. Len(s) : t[k] = s[k].n
    BY <1>1
  <1>3. <<last>> \in Seq(Nat) /\ Len(<<last>>) = 1 /\ <<last>>[1] = last
    OBVIOUS
  <1> HIDE DEF t
  <1>4. /\ Len(events) = Len(<<last>>) + Len(t)
        /\ \A i \in 1 .. (Len(<<last>>) + Len(t)) :
             events[i] = IF i <= Len(<<last>>) THEN <<last>>[i] ELSE t[i - Len(<<last>>)]
    BY <1>2, <1>3, ConcatProperties
  <1> HIDE DEF events
  <1>5. Len(events) = Len(s) + 1 /\ events[1] = last
    BY <1>1, <1>2, <1>3, <1>4
  <1>6. \A k \in 1 .. Len(s) : events[k + 1] = s[k].n
    <2> SUFFICES ASSUME NEW k \in 1 .. Len(s) PROVE events[k + 1] = s[k].n
      OBVIOUS
    <2>1. k + 1 \in 1 .. (Len(<<last>>) + Len(t)) /\ ~(k + 1 <= Len(<<last>>)) /\
          (k + 1) - Len(<<last>>) = k
      BY <1>1, <1>2, <1>3
    <2> QED
      BY <1>2, <1>4, <2>1
  <1>7. Last(events) = IF Len(s) = 0 THEN last ELSE s[Len(s)].n
    BY <1>1, <1>5, <1>6 DEF Last
  <1> QED
    BY <1>5, <1>6, <1>7 DEF events, t

(* A WebSocket is sent every event of its job once and in order, from the  *)
(* snapshot to done; it ends without done only when its channel has been   *)
(* full, and it is never left waiting for an event that cannot come.       *)
THEOREM StreamExact == JobsSpec => []StreamIsExact
  <1>1. ASSUME JobsIInv PROVE StreamIsExact
    <2>1. JobsTypeOK /\ Subscribed /\ Numbered /\ Gapless
      BY <1>1 DEF JobsIInv
    <2>2. \A c \in Clients : client[c].at = "cut" => c \in past.full
      BY <2>1 DEF Gapless, Complete
    <2>3. ASSUME NEW c \in Clients, client[c].at = "open"
          PROVE  LET ch == client[c].ch
                     events == <<client[c].last>> \o [k \in 1 .. Len(ch) |-> ch[k].n]
                 IN  /\ \A k \in 1 .. Len(ch) : events[k] < events[k + 1]
                     /\ c \notin past.full /\ client[c].r \in known =>
                          /\ Last(events) = job[client[c].r].n
                          /\ Len(ch) = job[client[c].r].n - client[c].last
                     /\ \A k \in 1 .. Len(ch) : ch[k].done => k = Len(ch)
                     /\ \/ c \in subs[client[c].r] /\ job[client[c].r].status \notin Terminal
                        \/ client[c].closed
                        \/ Doing("close") /\ c \in work.subs
      <3> DEFINE ch == client[c].ch
                 last == client[c].last
                 events == <<last>> \o [k \in 1 .. Len(ch) |-> ch[k].n]
      <3>1. Follows(c) /\ ch \in Seq(EventType) /\ last \in Nat /\ Len(ch) \in Nat
        BY <2>1, <2>3, FollowerTypes, LenProperties DEF Follows
      <3>2. /\ events[1] = last /\ \A k \in 1 .. Len(ch) : events[k + 1] = ch[k].n
            /\ Last(events) = IF Len(ch) = 0 THEN last ELSE ch[Len(ch)].n
        BY <3>1, EventNumbers
      <3>3. Ordered(ch, last)
        BY <2>1, <3>1 DEF Numbered, InOrder
      <3>4. \/ c \in subs[client[c].r] /\ job[client[c].r].status \notin Terminal
            \/ client[c].closed
            \/ Doing("close") /\ c \in work.subs
        BY <2>1, <3>1 DEF Subscribed
      <3>5. c \notin past.full => Dense(ch, last)
              /\ (client[c].r \in known => job[client[c].r].n = last + Len(ch))
        BY <2>1, <3>1 DEF Gapless, Complete
      <3>6. client[c].r \in Posts /\ job[client[c].r].n \in Nat
        BY <2>1, <3>1, FollowerTypes DEF Subscribed
      <3> HIDE DEF events, ch, last
      <3>7. ASSUME NEW k \in 1 .. Len(ch) PROVE events[k] < events[k + 1]
        <4>1. CASE k = 1
          BY <3>2, <3>3, <4>1 DEF Ordered
        <4>2. CASE k # 1
          <5>1. k - 1 \in 1 .. Len(ch) /\ k - 1 < k /\ (k - 1) + 1 = k
            BY <3>1, <4>2
          <5>2. events[k] = ch[k - 1].n
            BY <3>2, <5>1
          <5> QED
            BY <3>2, <3>3, <5>1, <5>2 DEF Ordered
        <4> QED
          BY <4>1, <4>2
      <3>8. c \notin past.full /\ client[c].r \in known =>
              /\ Last(events) = job[client[c].r].n
              /\ Len(ch) = job[client[c].r].n - last
        <4> SUFFICES ASSUME c \notin past.full, client[c].r \in known
                     PROVE  Last(events) = job[client[c].r].n /\
                            Len(ch) = job[client[c].r].n - last
          OBVIOUS
        <4>1. job[client[c].r].n = last + Len(ch) /\ Dense(ch, last)
          BY <3>5
        <4>2. Len(ch) # 0 => ch[Len(ch)].n = last + Len(ch)
          BY <3>1, <4>1 DEF Dense
        <4> QED
          BY <3>1, <3>2, <4>1, <4>2
      <3> QED
        BY <3>3, <3>4, <3>7, <3>8 DEF Ordered, events, ch, last
    <2> QED
      BY <2>2, <2>3 DEF StreamIsExact
  <1> QED
    BY <1>1, JobsAlways, PTL
=============================================================================
