---------------------------- MODULE SessionProofs -----------------------------
(***************************************************************************)
(* Theorems about Session, for any number of connections and failures: who *)
(* tells the user of an interruption, the default connection, and the      *)
(* references to a session and its connections.  Each reference is given   *)
(* back once, and what is freed is used by no callback.                    *)
(***************************************************************************)
EXTENDS Session, FiniteSetTheorems, TLAPS

EventThreads == {Event(c) : c \in Conn}

(* The places of a thread, by its kind: only the thread of the user, the      *)
(* accept queue and those that set connections up release the session.        *)
EventPlaces == {"idle", "stream", "enter", "sweep", "drop", "join", "tell"}
SetUpPlaces == {"connect", "initialise", "add", "callbacks", "setDefault", "announce"}

Shape ==
  /\ DOMAIN pc = Thread /\ DOMAIN saved = Conn
  /\ lock \in Thread \cup {None} /\ victim \in Conn \cup {None}
  /\ listed \subseteq Conn
  /\ \A c \in Conn : pc[Event(c)] \in EventPlaces
  /\ \A t \in Thread : pc[t] \in SetUpPlaces => t \in SettersUp
  /\ freer \notin EventThreads

(* The holder of the lock is the only thread in the critical section that     *)
(* spans several steps, and it is there to interrupt or to stop the session.  *)
Excluded ==
  /\ \A t \in Thread : pc[t] = "sweep" => lock = t
  /\ lock # None => Interrupted \/ op # "none"

(* The callback that interrupts the session has told nobody yet.              *)
Telling ==
  /\ told \in {0, 1}
  /\ ~Interrupted => told = 0
  /\ \A c \in Conn :
       lock = Event(c) \/ pc[Event(c)] = "tell" => interrupter = Event(c) /\ told = 0

(* A connection that is about to become the default is listed, and one that   *)
(* is about to be announced has left a default connection.                    *)
Defaults ==
  /\ DefaultIsListed
  /\ \A c \in Conn :
       /\ pc[Init_(c)] \in {"callbacks", "setDefault"} /\ ~Interrupted /\ op = "none"
            => c \in listed
       /\ pc[Init_(c)] = "announce" /\ ~Interrupted => default # None

SessionInv == Shape /\ Excluded /\ Telling /\ Defaults

-----------------------------------------------------------------------------
(* Threads of different kinds, and those of different connections, differ.    *)
LEMMA ThreadsDiffer ==
  /\ User \in Thread /\ Acceptor \in Thread
  /\ User \notin EventThreads /\ Acceptor \notin EventThreads
  /\ User \notin SettersUp /\ Acceptor \notin SettersUp /\ User # Acceptor
  /\ \A c \in Conn : /\ Event(c) \in Thread /\ Event(c) \notin SettersUp /\ Event(c)[2] = c
                     /\ Init_(c) \in Thread /\ Init_(c) \notin EventThreads /\ Init_(c)[2] = c
                     /\ Init_(c) # User /\ Event(c) # User
  /\ \A c, d \in Conn : /\ Event(c) = Event(d) => c = d
                        /\ Init_(c) = Init_(d) => c = d
                        /\ Init_(c) # Event(d)
BY DEF Thread, User, Acceptor, Event, Init_, EventThreads, SettersUp

LEMMA NobodyIsNoThread == None \notin Thread /\ Releaser \notin Thread /\ None # Releaser /\ None \notin Conn
BY SessionAssumption DEF SessionAssumption, Thread, Releaser, User, Acceptor, Event, Init_

LEMMA SessionInit == Init => SessionInv
BY ThreadsDiffer, NobodyIsNoThread
   DEF Init, SessionInv, Shape, Excluded, Telling, Defaults, DefaultIsListed, EventPlaces,
       SetUpPlaces, Interrupted, EventThreads, SettersUp

LEMMA SessionStep == SessionInv /\ [Next]_vars => SessionInv'
<1> SUFFICES ASSUME SessionInv, [Next]_vars PROVE SessionInv'
  OBVIOUS
<1> USE ThreadsDiffer, NobodyIsNoThread
    DEF SessionInv, Shape, Excluded, Telling, Defaults, DefaultIsListed, EventPlaces,
        SetUpPlaces, Interrupted, EventThreads, SettersUp, session, connection, At, Go
<1>1. ASSUME StopAdvertising PROVE SessionInv'
  BY <1>1 DEF StopAdvertising, UserReady
<1>2. ASSUME ReleaseByUser PROVE SessionInv'
  BY <1>2 DEF ReleaseByUser, UserReady, GiveBackSession, AfterSession
<1>3. ASSUME AcceptFails PROVE SessionInv'
  BY <1>3 DEF AcceptFails
<1>4. ASSUME NEW how \in UserOps, Close(how) PROVE SessionInv'
  BY <1>4 DEF Close, UserReady
<1>5. ASSUME NEW c \in Conn, ConnectToPeer(c) PROVE SessionInv'
  BY <1>5 DEF ConnectToPeer, UserReady
<1>6. ASSUME NEW c \in Conn, Accept(c) PROVE SessionInv'
  BY <1>6 DEF Accept
<1>7. ASSUME NEW c \in Conn, FailLink(c) PROVE SessionInv'
  BY <1>7 DEF FailLink
<1>8. ASSUME NEW c \in Conn, HearStream(c) PROVE SessionInv'
  BY <1>8 DEF HearStream
<1>9. ASSUME NEW c \in Conn, Connect(c) PROVE SessionInv'
  BY <1>9 DEF Connect, Leave
<1>10. ASSUME NEW c \in Conn, Initialise(c) PROVE SessionInv'
  BY <1>10 DEF Initialise, Leave
<1>11. ASSUME NEW c \in Conn, AddConnection(c) PROVE SessionInv'
  BY <1>11 DEF AddConnection
<1>12. ASSUME NEW c \in Conn, SetCallbacks(c) PROVE SessionInv'
  BY <1>12 DEF SetCallbacks
<1>13. ASSUME NEW c \in Conn, SetDefault(c) PROVE SessionInv'
  BY <1>13 DEF SetDefault
<1>14. ASSUME NEW c \in Conn, Announce(c) PROVE SessionInv'
  BY <1>14 DEF Announce, Leave
<1>15. ASSUME NEW c \in Conn, StreamHeard(c) PROVE SessionInv'
  BY <1>15 DEF StreamHeard
<1>16. ASSUME NEW c \in Conn, HearInterrupted(c) PROVE SessionInv'
  BY <1>16 DEF HearInterrupted
<1>17. ASSUME NEW c \in Conn, Tell(c) PROVE SessionInv'
  BY <1>17 DEF Tell
<1>18. ASSUME NEW t \in Thread, Enter(t) PROVE SessionInv'
  BY <1>18 DEF Enter, Stopping
<1>19. ASSUME NEW t \in Thread, Sweep(t) PROVE SessionInv'
  BY <1>19 DEF Sweep, Stopping, Floats
<1>20. ASSUME NEW t \in Thread, Swept(t) PROVE SessionInv'
  BY <1>20 DEF Swept, AfterSweep
<1>21. ASSUME NEW t \in Thread, Drop(t) PROVE SessionInv'
  BY <1>21 DEF Drop, Destroy, AfterDrop
<1>22. ASSUME NEW t \in Thread, CloseSwept(t) PROVE SessionInv'
  BY <1>22 DEF CloseSwept, Destroy
<1>23. ASSUME NEW t \in Thread, JoinEvents(t) PROVE SessionInv'
  BY <1>23 DEF JoinEvents, AfterDrop
<1>24. ASSUME NEW t \in Thread, ReleaseSession(t) PROVE SessionInv'
  BY <1>24 DEF ReleaseSession, GiveBackSession, AfterSession
<1>25. ASSUME NEW t \in Thread, FreeSession(t) PROVE SessionInv'
  BY <1>25 DEF FreeSession, AfterSession
<1>26. CASE UNCHANGED vars
  BY <1>26 DEF vars
<1> QED
  BY <1>1, <1>2, <1>3, <1>4, <1>5, <1>6, <1>7, <1>8, <1>9, <1>10, <1>11, <1>12, <1>13, <1>14, <1>15, <1>16, <1>17, <1>18, <1>19, <1>20, <1>21, <1>22, <1>23, <1>24, <1>25, <1>26 DEF Next, Environment, SetUp, Hear, Release

LEMMA SessionInvariant == Spec => []SessionInv
BY SessionInit, SessionStep, PTL DEF Spec

(* The user hears of an interruption once (__ym_session_connection_           *)
(* interrupted_proc, YMSession.c l.824), however many connections fail.       *)
THEOREM InterruptionCorrect == Spec => []InterruptedOnce
<1>1. SessionInv => InterruptedOnce
  BY DEF SessionInv, Telling, InterruptedOnce
<1> QED
  BY <1>1, SessionInvariant, PTL

(* The default connection is a listed one, and the assertions about it        *)
(* (l.681, 760) fail only in the course of an interruption.                   *)
THEOREM DefaultCorrect == Spec => []DefaultIsListed
<1>1. SessionInv => DefaultIsListed
  BY DEF SessionInv, Defaults
<1> QED
  BY <1>1, SessionInvariant, PTL

-----------------------------------------------------------------------------

(* The places of a thread that sets a connection up before it is listed.      *)
PreAdd == {"idle", "connect", "initialise", "add"}

Counts ==
  /\ refs \in [Conn -> Int] /\ srefs \in Int /\ freer \in Thread \cup {None}
  /\ plexer \in [Conn -> Plexers]
  /\ hears \in [Conn -> BOOLEAN] /\ posted \in [Conn -> BOOLEAN]
  /\ \A c \in Conn : pc[Init_(c)] \in SetUpPlaces \cup {"idle", "enter", "sweep", "drop", "join",
                                                         "releaseSession", "joinAccept", "done"}

(* Nothing knows of a connection before it is listed, and nobody is called    *)
(* back for one before its callbacks are set or after its plexer is gone.     *)
Fresh ==
  \A c \in Conn :
    /\ pc[Init_(c)] \in PreAdd => c \notin listed /\ victim # c
    /\ pc[Init_(c)] \in PreAdd \cup {"callbacks"} => ~hears[c] /\ pc[Event(c)] = "idle"
    /\ pc[Init_(c)] \in PreAdd \ {"add"} => plexer[c] = "none"
    /\ pc[Init_(c)] = "connect" => c \notin Incoming
    /\ plexer[c] = "none" => ~posted[c] /\ pc[Event(c)] = "idle"

(* Where the holder of the lock is, and who releases a connection without it. *)
Locked ==
  /\ \A t \in Thread :
       /\ lock = t => \/ pc[t] = "sweep"
                      \/ /\ pc[t] \in {"close", "drop", "join"}
                         /\ victim \in Conn /\ victim \notin listed
       /\ pc[t] = "close" => t = User /\ op = "stop"
       /\ pc[t] = "joinAccept" => freer = t
       /\ pc[t] = "releaseSession" => t # User
       /\ t \in {User, Acceptor} /\ pc[t] \in {"close", "drop", "join"} => lock = t
  /\ lock # None => Interrupted \/ (lock = User /\ op = "stop")
  /\ \A c \in Conn :
       lock = Init_(c) \/ pc[Init_(c)] \in {"enter", "sweep"} => freer = Init_(c)

(* A callback that took over the dictionary's reference is the one that       *)
(* interrupted the session.                                                   *)
TookOver(c) ==
  pc[Event(c)] = "tell" \/ (pc[Event(c)] \in {"drop", "join"} /\ lock # Event(c))
    => c \notin listed /\ interrupter = Event(c)

(* Before an interruption a connection whose plexer runs is listed, and so is *)
(* one whose callback is about to interrupt, unless YMSessionStop closes it.  *)
Running(c) ==
  plexer[c] \in {"up", "cut"} /\ pc[Init_(c)] \notin PreAdd /\ ~Interrupted
    => c \in listed \/ (victim = c /\ lock = User /\ pc[User] = "close")
Entering(c) ==
  pc[Event(c)] = "enter" /\ ~Interrupted
    => c \in listed \/ (victim = c /\ lock = User /\ pc[User] \in {"close", "join"})

(* Whoever stopped a plexer is joining its events.                            *)
Joined(c) ==
  plexer[c] = "stopped" =>
    \/ lock # None /\ victim = c /\ pc[lock] = "join"
    \/ pc[Init_(c)] = "join" /\ lock # Init_(c)
    \/ pc[Event(c)] = "join" /\ lock # Event(c)

Callback == \A c \in Conn : TookOver(c) /\ Running(c) /\ Entering(c) /\ Joined(c)

(* The reference count of a connection is the number of its holders.          *)
One(holds) == IF holds THEN 1 ELSE 0
Counted ==
  \A c \in Conn :
    /\ refs[c] = One(SweptOut(c)) + One(Kept(c)) + One(SettingUp(c))
    /\ pc[Init_(c)] = "join" /\ lock # Init_(c) => refs[c] = 0
    /\ pc[Event(c)] = "join" /\ lock # Event(c) => refs[c] = 0

(* Who will still give back a reference to the session.                       *)
HoldsSession(t) ==
  \/ t = User /\ op # "release"
  \/ t = Acceptor /\ pc[t] \in {"accepting", "releaseSession"}
  \/ /\ t \in SettersUp
     /\ \/ pc[t] \in SetUpPlaces \cup {"releaseSession"}
        \/ t[2] \in Incoming /\ pc[t] \in {"drop", "join"} /\ lock # t
SessionHolders == {t \in Thread : HoldsSession(t)}

SessionCounted ==
  /\ IsFiniteSet(SessionHolders) /\ srefs = Cardinality(SessionHolders)
  /\ freer # None => srefs = 0
  /\ freer = None => ~freed /\ interrupter # Releaser

(* The thread that freed the session is done with it.                         *)
Freed ==
  freed => lock # freer /\ pc[freer] \notin {"enter", "sweep", "joinAccept"}

(* Once the thread that frees the session has been the first to interrupt it, *)
(* nobody else takes the lock, and each connection is gone or on its way.     *)
Leaving(c) ==
  c \notin Incoming /\ (pc[Init_(c)] \in {"drop", "join"} \/ (freer = Init_(c) /\ ~freed))
OnItsWay(c) ==
  \/ plexer[c] = "none"
  \/ c \in listed
  \/ lock = freer /\ victim = c /\ pc[freer] \in {"drop", "join"}
  \/ Leaving(c)

Releasing ==
  interrupter = Releaser =>
    /\ lock # None => lock = freer
    /\ pc[freer] # "enter"
    /\ freed \/ pc[freer] = "joinAccept" => listed = {} /\ lock = None
    /\ \A c \in Conn : OnItsWay(c)

(* The variables that count for nothing but their types.                      *)
Places == EventPlaces \cup SetUpPlaces \cup {"accepting", "close", "releaseSession", "joinAccept", "done"}
Typed ==
  /\ interrupter \in Thread \cup {Releaser, None}
  /\ default \in Conn \cup {None} /\ failed \subseteq Conn
  /\ acceptExit \in BOOLEAN /\ freed \in BOOLEAN /\ aborted \in BOOLEAN
  /\ saved \in [Conn -> BOOLEAN] /\ pc \in [Thread -> Places]
  /\ op \in {"none", "closeAll", "stop", "release"}

ReleaseInv ==
  /\ SessionInv
  /\ Counts /\ Fresh /\ Locked /\ Callback /\ Counted /\ SessionCounted /\ Freed /\ Typed
  /\ Releasing

-----------------------------------------------------------------------------
(* What a thread gives back is a connection.                                  *)
LEMMA VictimKnown ==
  ReleaseInv => \A t \in Thread : pc[t] \in {"close", "drop", "join"} => Victim(t) \in Conn
<1> SUFFICES ASSUME ReleaseInv, NEW t \in Thread, pc[t] \in {"close", "drop", "join"}
             PROVE  Victim(t) \in Conn
  OBVIOUS
<1>1. CASE lock = t
  BY <1>1, ThreadsDiffer DEF ReleaseInv, Locked, Victim
<1>2. CASE lock # t
  <2>1. t \notin {User, Acceptor}
    BY <1>2 DEF ReleaseInv, Locked
  <2>2. PICK c \in Conn : t = Init_(c) \/ t = Event(c)
    BY <2>1 DEF Thread
  <2> QED
    BY <1>2, <2>2, ThreadsDiffer DEF Victim
<1> QED
  BY <1>1, <1>2

(* When the session is being freed nobody holds a reference to it.            *)
LEMMA NobodyHolds == ReleaseInv /\ freer # None => SessionHolders = {}
BY FS_EmptySet DEF ReleaseInv, SessionCounted

(* Nor is anyone setting a connection up.                                     *)
LEMMA NobodySetsUp ==
  ReleaseInv /\ freer # None =>
    /\ op = "release" /\ pc[Acceptor] # "accepting"
    /\ \A t \in Thread : pc[t] \notin SetUpPlaces \cup {"releaseSession"}
    /\ \A c \in Incoming : pc[Init_(c)] \in {"drop", "join"} => lock = Init_(c)
<1> SUFFICES ASSUME ReleaseInv, freer # None
             PROVE  /\ op = "release" /\ pc[Acceptor] # "accepting"
                    /\ \A t \in Thread : pc[t] \notin SetUpPlaces \cup {"releaseSession"}
                    /\ \A c \in Incoming : pc[Init_(c)] \in {"drop", "join"} => lock = Init_(c)
  OBVIOUS
<1>1. \A t \in Thread : ~HoldsSession(t)
  BY NobodyHolds DEF SessionHolders
<1>2. \A c \in Conn : pc[Event(c)] \notin SetUpPlaces \cup {"releaseSession"}
  BY DEF ReleaseInv, SessionInv, Shape, EventPlaces, SetUpPlaces
<1>3. pc[User] \notin SetUpPlaces \cup {"releaseSession"} /\ pc[Acceptor] \notin SetUpPlaces
  BY ThreadsDiffer DEF ReleaseInv, Locked, SessionInv, Shape
<1>4. \A c \in Conn : pc[Init_(c)] \notin SetUpPlaces \cup {"releaseSession"}
  BY <1>1, ThreadsDiffer DEF HoldsSession, SettersUp
<1>5. op = "release" /\ pc[Acceptor] \notin {"accepting", "releaseSession"}
  BY <1>1, ThreadsDiffer DEF HoldsSession
<1>6. \A c \in Incoming : pc[Init_(c)] \in {"drop", "join"} => lock = Init_(c)
  BY <1>1, ThreadsDiffer, SessionAssumption DEF HoldsSession, SettersUp, SessionAssumption
<1> QED
  BY <1>2, <1>3, <1>4, <1>5, <1>6 DEF Thread

(* A connection the freeing thread or a connecting one gives back without     *)
(* being the last is still on its way.                                        *)
LEMMA StillOnItsWay ==
  ASSUME ReleaseInv, interrupter = Releaser, NEW c \in Conn
  PROVE  /\ Kept(c) => c \in listed
         /\ SettingUp(c) => Leaving(c)
         /\ SweptOut(c) => lock = freer /\ victim = c /\ pc[freer] \in {"drop", "join"}
<1>1. freer # None
  BY DEF ReleaseInv, SessionCounted
<1>2. interrupter # Event(c)
  BY ThreadsDiffer, NobodyIsNoThread
<1>3. Kept(c) => c \in listed
  BY <1>2, ThreadsDiffer DEF ReleaseInv, SessionInv, Excluded, Telling, Callback, TookOver, Kept, Calling
<1>4. SettingUp(c) => Leaving(c)
  <2> USE DEF Leaving
  <2>1. /\ pc[Init_(c)] \notin SetUpPlaces \cup {"releaseSession"}
        /\ c \in Incoming /\ pc[Init_(c)] \in {"drop", "join"} => lock = Init_(c)
    BY <1>1, NobodySetsUp, ThreadsDiffer
  <2>2. Init_(c) \in Thread /\ Init_(c) # User
    BY ThreadsDiffer
  <2>3. CASE c \in Incoming
    BY <2>1, <2>3 DEF SettingUp, SetUpPlaces
  <2>4. CASE c \notin Incoming /\ pc[Init_(c)] \notin {"drop", "join"} /\ SettingUp(c)
    <3>1. pc[Init_(c)] \in {"enter", "sweep", "joinAccept"} \/ lock = Init_(c)
      BY <2>1, <2>4 DEF SettingUp, ReleaseInv, Counts
    <3>2. freer = Init_(c)
      BY <2>2, <3>1 DEF ReleaseInv, Locked
    <3> QED
      BY <2>4, <3>1, <3>2 DEF ReleaseInv, Freed
  <2> QED
    BY <2>3, <2>4
<1>5. SweptOut(c) => lock = freer /\ victim = c /\ pc[freer] \in {"drop", "join"}
  <2>1. op = "release"
    BY <1>1, NobodySetsUp
  <2>2. lock # None => lock = freer /\ lock \in Thread
    BY DEF ReleaseInv, Releasing, SessionInv, Shape
  <2>3. lock # None => pc[lock] # "close"
    BY <2>1, <2>2 DEF ReleaseInv, Locked
  <2> QED
    BY <2>2, <2>3 DEF SweptOut
<1> QED
  BY <1>3, <1>4, <1>5

(* Counts: the counts, the plexers and the places of the threads that set connections up. *)
LEMMA CountsStep == ReleaseInv /\ [Next]_vars => Counts'
<1> SUFFICES ASSUME ReleaseInv, [Next]_vars PROVE Counts'
  OBVIOUS
<1> USE ThreadsDiffer, NobodyIsNoThread, VictimKnown
    DEF ReleaseInv, SessionInv, Shape, EventPlaces, SetUpPlaces, Interrupted, EventThreads,
        SettersUp, session, connection, At, Go,
        Counts, Plexers
<1>1. ASSUME StopAdvertising PROVE Counts'
  BY <1>1 DEF StopAdvertising, UserReady
<1>2. ASSUME ReleaseByUser PROVE Counts'
  BY <1>2 DEF ReleaseByUser, UserReady, GiveBackSession, AfterSession
<1>3. ASSUME AcceptFails PROVE Counts'
  BY <1>3 DEF AcceptFails
<1>4. ASSUME NEW how \in UserOps, Close(how) PROVE Counts'
  BY <1>4 DEF Close, UserReady
<1>5. ASSUME NEW d \in Conn, ConnectToPeer(d) PROVE Counts'
  BY <1>5 DEF ConnectToPeer, UserReady
<1>6. ASSUME NEW d \in Conn, Accept(d) PROVE Counts'
  BY <1>6 DEF Accept
<1>7. ASSUME NEW d \in Conn, FailLink(d) PROVE Counts'
  BY <1>7 DEF FailLink
<1>8. ASSUME NEW d \in Conn, HearStream(d) PROVE Counts'
  BY <1>8 DEF HearStream
<1>9. ASSUME NEW d \in Conn, Connect(d) PROVE Counts'
  BY <1>9 DEF Connect, Leave
<1>10. ASSUME NEW d \in Conn, Initialise(d) PROVE Counts'
  BY <1>10 DEF Initialise, Leave
<1>11. ASSUME NEW d \in Conn, AddConnection(d) PROVE Counts'
  BY <1>11 DEF AddConnection
<1>12. ASSUME NEW d \in Conn, SetCallbacks(d) PROVE Counts'
  BY <1>12 DEF SetCallbacks
<1>13. ASSUME NEW d \in Conn, SetDefault(d) PROVE Counts'
  BY <1>13 DEF SetDefault
<1>14. ASSUME NEW d \in Conn, Announce(d) PROVE Counts'
  BY <1>14 DEF Announce, Leave
<1>15. ASSUME NEW d \in Conn, StreamHeard(d) PROVE Counts'
  BY <1>15 DEF StreamHeard
<1>16. ASSUME NEW d \in Conn, HearInterrupted(d) PROVE Counts'
  BY <1>16 DEF HearInterrupted
<1>17. ASSUME NEW d \in Conn, Tell(d) PROVE Counts'
  BY <1>17 DEF Tell
<1>18. ASSUME NEW t \in Thread, Enter(t) PROVE Counts'
  BY <1>18 DEF Enter, Stopping
<1>19. ASSUME NEW t \in Thread, Sweep(t) PROVE Counts'
  BY <1>19 DEF Sweep, Stopping, Floats
<1>20. ASSUME NEW t \in Thread, Swept(t) PROVE Counts'
  BY <1>20 DEF Swept, AfterSweep
<1>21. ASSUME NEW t \in Thread, Drop(t) PROVE Counts'
  <2>1. pc[t] = "drop" /\ Victim(t) \in Conn
    BY <1>21 DEF Drop
  <2>2. /\ refs' = [refs EXCEPT ![Victim(t)] = @ - 1]
        /\ srefs' = srefs /\ posted' = posted /\ freer' = freer
    BY <1>21 DEF Drop
  <2>3. plexer' = plexer \/ plexer' = [plexer EXCEPT ![Victim(t)] = "stopped"]
    BY <1>21 DEF Drop, Destroy
  <2>4. hears' = hears \/ hears' = [hears EXCEPT ![Victim(t)] = FALSE]
    BY <1>21 DEF Drop
  <2>5. refs' \in [Conn -> Int] /\ srefs' \in Int /\ posted' \in [Conn -> BOOLEAN]
    BY <2>1, <2>2
  <2>6. plexer' \in [Conn -> Plexers]
    BY <2>3
  <2>7. hears' \in [Conn -> BOOLEAN]
    BY <2>4
  <2>8. \/ pc' = [pc EXCEPT ![t] = "join"]
        \/ \E p \in {"sweep", "idle", "releaseSession", "done"} : pc' = [pc EXCEPT ![t] = p]
    BY <1>21 DEF Drop, Destroy, AfterDrop
  <2>9. \A c \in Conn :
          pc'[Init_(c)] = pc[Init_(c)] \/ pc'[Init_(c)] \in {"idle", "sweep", "join", "releaseSession", "done"}
    BY <2>8
  <2> QED
    BY <2>2, <2>5, <2>6, <2>7, <2>9
<1>22. ASSUME NEW t \in Thread, CloseSwept(t) PROVE Counts'
  BY <1>22 DEF CloseSwept, Destroy, Stopping
<1>23. ASSUME NEW t \in Thread, JoinEvents(t) PROVE Counts'
  BY <1>23 DEF JoinEvents, AfterDrop
<1>24. ASSUME NEW t \in Thread, ReleaseSession(t) PROVE Counts'
  BY <1>24 DEF ReleaseSession, GiveBackSession, AfterSession
<1>25. ASSUME NEW t \in Thread, FreeSession(t) PROVE Counts'
  BY <1>25 DEF FreeSession, AfterSession
<1>26. CASE UNCHANGED vars
  BY <1>26 DEF vars
<1> QED
  BY <1>1, <1>2, <1>3, <1>4, <1>5, <1>6, <1>7, <1>8, <1>9, <1>10, <1>11, <1>12, <1>13,
     <1>14, <1>15, <1>16, <1>17, <1>18, <1>19, <1>20, <1>21, <1>22, <1>23, <1>24, <1>25, <1>26
  DEF Next, Environment, SetUp, Hear, Release

(* Locked: no step moves the holder of the lock but its own.                *)
LEMMA LockedStep == ReleaseInv /\ [Next]_vars => Locked'
<1> SUFFICES ASSUME ReleaseInv, [Next]_vars PROVE Locked'
  OBVIOUS
<1> USE ThreadsDiffer, NobodyIsNoThread, VictimKnown
    DEF ReleaseInv, SessionInv, Shape, EventPlaces, SetUpPlaces, Interrupted, EventThreads,
        SettersUp, session, connection, At, Go,
        Excluded, Locked, Fresh, PreAdd, SessionCounted, SessionHolders, HoldsSession
<1>1. ASSUME StopAdvertising PROVE Locked'
  BY <1>1 DEF StopAdvertising, UserReady
<1>2. ASSUME ReleaseByUser PROVE Locked'
  BY <1>2 DEF ReleaseByUser, UserReady, GiveBackSession, AfterSession
<1>3. ASSUME AcceptFails PROVE Locked'
  BY <1>3 DEF AcceptFails
<1>4. ASSUME NEW how \in UserOps, Close(how) PROVE Locked'
  BY <1>4 DEF Close, UserReady
<1>5. ASSUME NEW d \in Conn, ConnectToPeer(d) PROVE Locked'
  BY <1>5 DEF ConnectToPeer, UserReady
<1>6. ASSUME NEW d \in Conn, Accept(d) PROVE Locked'
  BY <1>6 DEF Accept
<1>7. ASSUME NEW d \in Conn, FailLink(d) PROVE Locked'
  BY <1>7 DEF FailLink
<1>8. ASSUME NEW d \in Conn, HearStream(d) PROVE Locked'
  BY <1>8 DEF HearStream
<1>9. ASSUME NEW d \in Conn, Connect(d) PROVE Locked'
  BY <1>9 DEF Connect, Leave
<1>10. ASSUME NEW d \in Conn, Initialise(d) PROVE Locked'
  BY <1>10 DEF Initialise, Leave
<1>11. ASSUME NEW d \in Conn, AddConnection(d) PROVE Locked'
  BY <1>11 DEF AddConnection
<1>12. ASSUME NEW d \in Conn, SetCallbacks(d) PROVE Locked'
  BY <1>12 DEF SetCallbacks
<1>13. ASSUME NEW d \in Conn, SetDefault(d) PROVE Locked'
  BY <1>13 DEF SetDefault
<1>14. ASSUME NEW d \in Conn, Announce(d) PROVE Locked'
  BY <1>14 DEF Announce, Leave
<1>15. ASSUME NEW d \in Conn, StreamHeard(d) PROVE Locked'
  BY <1>15 DEF StreamHeard
<1>16. ASSUME NEW d \in Conn, HearInterrupted(d) PROVE Locked'
  BY <1>16 DEF HearInterrupted
<1>17. ASSUME NEW d \in Conn, Tell(d) PROVE Locked'
  BY <1>17 DEF Tell
<1>18. ASSUME NEW t \in Thread, Enter(t) PROVE Locked'
  BY <1>18 DEF Enter, Stopping
<1>19. ASSUME NEW t \in Thread, Sweep(t) PROVE Locked'
  BY <1>19 DEF Sweep, Stopping, Floats
<1>20. ASSUME NEW t \in Thread, Swept(t) PROVE Locked'
  BY <1>20 DEF Swept, AfterSweep
<1>21. ASSUME NEW t \in Thread, Drop(t) PROVE Locked'
  BY <1>21 DEF Drop, Destroy, AfterDrop
<1>22. ASSUME NEW t \in Thread, CloseSwept(t) PROVE Locked'
  BY <1>22 DEF CloseSwept, Destroy, Stopping
<1>23. ASSUME NEW t \in Thread, JoinEvents(t) PROVE Locked'
  BY <1>23 DEF JoinEvents, AfterDrop
<1>24. ASSUME NEW t \in Thread, ReleaseSession(t) PROVE Locked'
  BY <1>24 DEF ReleaseSession, GiveBackSession, AfterSession
<1>25. ASSUME NEW t \in Thread, FreeSession(t) PROVE Locked'
  BY <1>25 DEF FreeSession, AfterSession
<1>26. CASE UNCHANGED vars
  BY <1>26 DEF vars
<1> QED
  BY <1>1, <1>2, <1>3, <1>4, <1>5, <1>6, <1>7, <1>8, <1>9, <1>10, <1>11, <1>12, <1>13,
     <1>14, <1>15, <1>16, <1>17, <1>18, <1>19, <1>20, <1>21, <1>22, <1>23, <1>24, <1>25, <1>26
  DEF Next, Environment, SetUp, Hear, Release

(* Fresh: a connection is listed and called back only once it has been set up. *)
LEMMA FreshStep == ReleaseInv /\ [Next]_vars => Fresh'
<1> SUFFICES ASSUME ReleaseInv, [Next]_vars PROVE Fresh'
  OBVIOUS
<1> USE ThreadsDiffer, NobodyIsNoThread, VictimKnown
    DEF ReleaseInv, SessionInv, Shape, EventPlaces, SetUpPlaces, Interrupted, EventThreads,
        SettersUp, session, connection, At, Go,
        Counts, Fresh, Locked, PreAdd, Plexers
<1>1. ASSUME StopAdvertising PROVE Fresh'
  BY <1>1 DEF StopAdvertising, UserReady
<1>2. ASSUME ReleaseByUser PROVE Fresh'
  BY <1>2 DEF ReleaseByUser, UserReady, GiveBackSession, AfterSession
<1>3. ASSUME AcceptFails PROVE Fresh'
  BY <1>3 DEF AcceptFails
<1>4. ASSUME NEW how \in UserOps, Close(how) PROVE Fresh'
  BY <1>4 DEF Close, UserReady
<1>5. ASSUME NEW d \in Conn, ConnectToPeer(d) PROVE Fresh'
  BY <1>5 DEF ConnectToPeer, UserReady
<1>6. ASSUME NEW d \in Conn, Accept(d) PROVE Fresh'
  BY <1>6 DEF Accept
<1>7. ASSUME NEW d \in Conn, FailLink(d) PROVE Fresh'
  BY <1>7 DEF FailLink
<1>8. ASSUME NEW d \in Conn, HearStream(d) PROVE Fresh'
  BY <1>8 DEF HearStream
<1>9. ASSUME NEW d \in Conn, Connect(d) PROVE Fresh'
  BY <1>9 DEF Connect, Leave
<1>10. ASSUME NEW d \in Conn, Initialise(d) PROVE Fresh'
  BY <1>10 DEF Initialise, Leave
<1>11. ASSUME NEW d \in Conn, AddConnection(d) PROVE Fresh'
  BY <1>11 DEF AddConnection
<1>12. ASSUME NEW d \in Conn, SetCallbacks(d) PROVE Fresh'
  BY <1>12 DEF SetCallbacks
<1>13. ASSUME NEW d \in Conn, SetDefault(d) PROVE Fresh'
  BY <1>13 DEF SetDefault
<1>14. ASSUME NEW d \in Conn, Announce(d) PROVE Fresh'
  BY <1>14 DEF Announce, Leave
<1>15. ASSUME NEW d \in Conn, StreamHeard(d) PROVE Fresh'
  BY <1>15 DEF StreamHeard
<1>16. ASSUME NEW d \in Conn, HearInterrupted(d) PROVE Fresh'
  BY <1>16 DEF HearInterrupted
<1>17. ASSUME NEW d \in Conn, Tell(d) PROVE Fresh'
  BY <1>17 DEF Tell
<1>18. ASSUME NEW t \in Thread, Enter(t) PROVE Fresh'
  BY <1>18 DEF Enter, Stopping
<1>19. ASSUME NEW t \in Thread, Sweep(t) PROVE Fresh'
  BY <1>19 DEF Sweep, Stopping, Floats
<1>20. ASSUME NEW t \in Thread, Swept(t) PROVE Fresh'
  BY <1>20 DEF Swept, AfterSweep
<1>21. ASSUME NEW t \in Thread, Drop(t) PROVE Fresh'
  BY <1>21 DEF Drop, Destroy, AfterDrop
<1>22. ASSUME NEW t \in Thread, CloseSwept(t) PROVE Fresh'
  BY <1>22 DEF CloseSwept, Destroy, Stopping
<1>23. ASSUME NEW t \in Thread, JoinEvents(t) PROVE Fresh'
  BY <1>23 DEF JoinEvents, AfterDrop
<1>24. ASSUME NEW t \in Thread, ReleaseSession(t) PROVE Fresh'
  BY <1>24 DEF ReleaseSession, GiveBackSession, AfterSession
<1>25. ASSUME NEW t \in Thread, FreeSession(t) PROVE Fresh'
  BY <1>25 DEF FreeSession, AfterSession
<1>26. CASE UNCHANGED vars
  BY <1>26 DEF vars
<1> QED
  BY <1>1, <1>2, <1>3, <1>4, <1>5, <1>6, <1>7, <1>8, <1>9, <1>10, <1>11, <1>12, <1>13,
     <1>14, <1>15, <1>16, <1>17, <1>18, <1>19, <1>20, <1>21, <1>22, <1>23, <1>24, <1>25, <1>26
  DEF Next, Environment, SetUp, Hear, Release

(* Callback: at most one thread takes over what the dictionary held.        *)
LEMMA CallbackStep == ReleaseInv /\ [Next]_vars => Callback'
<1> SUFFICES ASSUME ReleaseInv, [Next]_vars PROVE Callback'
  OBVIOUS
<1> USE ThreadsDiffer, NobodyIsNoThread, VictimKnown
    DEF ReleaseInv, SessionInv, Shape, EventPlaces, SetUpPlaces, Interrupted, EventThreads,
        SettersUp, session, connection, At, Go,
        Counts, Excluded, Telling, Fresh, Locked, Callback, TookOver, Running, Entering, Joined,
        PreAdd, Plexers
<1>1. ASSUME StopAdvertising PROVE Callback'
  BY <1>1 DEF StopAdvertising, UserReady
<1>2. ASSUME ReleaseByUser PROVE Callback'
  BY <1>2 DEF ReleaseByUser, UserReady, GiveBackSession, AfterSession
<1>3. ASSUME AcceptFails PROVE Callback'
  BY <1>3 DEF AcceptFails
<1>4. ASSUME NEW how \in UserOps, Close(how) PROVE Callback'
  BY <1>4 DEF Close, UserReady
<1>5. ASSUME NEW d \in Conn, ConnectToPeer(d) PROVE Callback'
  BY <1>5 DEF ConnectToPeer, UserReady
<1>6. ASSUME NEW d \in Conn, Accept(d) PROVE Callback'
  BY <1>6 DEF Accept
<1>7. ASSUME NEW d \in Conn, FailLink(d) PROVE Callback'
  BY <1>7 DEF FailLink
<1>8. ASSUME NEW d \in Conn, HearStream(d) PROVE Callback'
  BY <1>8 DEF HearStream
<1>9. ASSUME NEW d \in Conn, Connect(d) PROVE Callback'
  BY <1>9 DEF Connect, Leave
<1>10. ASSUME NEW d \in Conn, Initialise(d) PROVE Callback'
  BY <1>10 DEF Initialise, Leave
<1>11. ASSUME NEW d \in Conn, AddConnection(d) PROVE Callback'
  BY <1>11 DEF AddConnection
<1>12. ASSUME NEW d \in Conn, SetCallbacks(d) PROVE Callback'
  BY <1>12 DEF SetCallbacks
<1>13. ASSUME NEW d \in Conn, SetDefault(d) PROVE Callback'
  BY <1>13 DEF SetDefault
<1>14. ASSUME NEW d \in Conn, Announce(d) PROVE Callback'
  BY <1>14 DEF Announce, Leave
<1>15. ASSUME NEW d \in Conn, StreamHeard(d) PROVE Callback'
  BY <1>15 DEF StreamHeard
<1>16. ASSUME NEW d \in Conn, HearInterrupted(d) PROVE Callback'
  BY <1>16 DEF HearInterrupted
<1>17. ASSUME NEW d \in Conn, Tell(d) PROVE Callback'
  BY <1>17 DEF Tell
<1>18. ASSUME NEW t \in Thread, Enter(t) PROVE Callback'
  BY <1>18 DEF Enter, Stopping
<1>19. ASSUME NEW t \in Thread, Sweep(t) PROVE Callback'
  BY <1>19 DEF Sweep, Stopping, Floats
<1>20. ASSUME NEW t \in Thread, Swept(t) PROVE Callback'
  BY <1>20 DEF Swept, AfterSweep
<1>21. ASSUME NEW t \in Thread, Drop(t) PROVE Callback'
  <2>1. pc[t] = "drop" /\ Victim(t) \in Conn
    BY <1>21 DEF Drop, Destroy
  <2>2. UNCHANGED <<lock, listed, interrupter, victim>>
    BY <1>21 DEF Drop, Destroy
  <2>3. /\ \/ pc' = [pc EXCEPT ![t] = "join"] /\ plexer' = [plexer EXCEPT ![Victim(t)] = "stopped"]
           \/ plexer' = plexer /\ \E p \in {"sweep", "idle", "releaseSession", "done", "drop"} :
                                      pc' = [pc EXCEPT ![t] = p]
    BY <1>21 DEF Drop, Destroy, AfterDrop
  <2>4. ASSUME NEW c \in Conn PROVE TookOver(c)'
    BY <2>1, <2>2, <2>3 DEF Victim
  <2>5. ASSUME NEW c \in Conn PROVE Running(c)' /\ Entering(c)'
    <3>1. Running(c)'
      BY <2>1, <2>2, <2>3 DEF Victim
    <3>2. Entering(c)'
      BY <2>1, <2>2, <2>3 DEF Victim
    <3> QED
      BY <3>1, <3>2
  <2>6. ASSUME NEW c \in Conn PROVE Joined(c)'
    <3>1. CASE plexer[c] = "stopped"
      BY <2>1, <2>2, <2>3, <3>1
    <3>2. CASE plexer[c] # "stopped" /\ c = Victim(t)
      <4>1. lock = t \/ \E d \in Conn : lock # t /\ (t = Init_(d) \/ t = Event(d))
        BY <2>1 DEF Thread
      <4> QED
        BY <2>1, <2>2, <2>3, <3>2, <4>1 DEF Victim
    <3>3. CASE plexer[c] # "stopped" /\ c # Victim(t)
      BY <2>2, <2>3, <3>3
    <3> QED
      BY <3>1, <3>2, <3>3
  <2> QED
    BY <2>4, <2>5, <2>6
<1>22. ASSUME NEW t \in Thread, CloseSwept(t) PROVE Callback'
  <2>1. pc[t] = "close" /\ Victim(t) \in Conn
    BY <1>22 DEF CloseSwept, Destroy
  <2>2. UNCHANGED <<lock, listed, interrupter, victim>>
    BY <1>22 DEF CloseSwept, Destroy
  <2>3. /\ \/ pc' = [pc EXCEPT ![t] = "join"] /\ plexer' = [plexer EXCEPT ![Victim(t)] = "stopped"]
           \/ plexer' = plexer /\ plexer[Victim(t)] = "none" /\
              \E p \in {"sweep", "idle", "releaseSession", "done", "drop"} :
                                      pc' = [pc EXCEPT ![t] = p]
    BY <1>22 DEF CloseSwept, Destroy, AfterDrop
  <2>4. ASSUME NEW c \in Conn PROVE TookOver(c)'
    BY <2>1, <2>2, <2>3 DEF Victim
  <2>5. ASSUME NEW c \in Conn PROVE Running(c)' /\ Entering(c)'
    <3>1. Running(c)'
      BY <2>1, <2>2, <2>3 DEF Victim
    <3>2. Entering(c)'
      BY <2>1, <2>2, <2>3 DEF Victim
    <3> QED
      BY <3>1, <3>2
  <2>6. ASSUME NEW c \in Conn PROVE Joined(c)'
    <3>1. CASE plexer[c] = "stopped"
      BY <2>1, <2>2, <2>3, <3>1
    <3>2. CASE plexer[c] # "stopped" /\ c = Victim(t)
      <4>1. lock = t \/ \E d \in Conn : lock # t /\ (t = Init_(d) \/ t = Event(d))
        BY <2>1 DEF Thread
      <4> QED
        BY <2>1, <2>2, <2>3, <3>2, <4>1 DEF Victim
    <3>3. CASE plexer[c] # "stopped" /\ c # Victim(t)
      BY <2>2, <2>3, <3>3
    <3> QED
      BY <3>1, <3>2, <3>3
  <2> QED
    BY <2>4, <2>5, <2>6
<1>23. ASSUME NEW t \in Thread, JoinEvents(t) PROVE Callback'
  <2>1. pc[t] = "join" /\ Victim(t) \in Conn
    BY <1>23 DEF JoinEvents
  <2>2. UNCHANGED <<lock, listed, interrupter, victim>> /\ pc[Event(Victim(t))] = "idle"
    BY <1>23 DEF JoinEvents
  <2>3. /\ plexer' = [plexer EXCEPT ![Victim(t)] = "none"]
        /\ \E p \in {"sweep", "idle", "releaseSession", "done", "drop"} : pc' = [pc EXCEPT ![t] = p]
    BY <1>23 DEF JoinEvents, AfterDrop
  <2>4. ASSUME NEW c \in Conn PROVE TookOver(c)'
    BY <2>1, <2>2, <2>3 DEF Victim
  <2>5. ASSUME NEW c \in Conn PROVE Running(c)' /\ Entering(c)'
    BY <2>1, <2>2, <2>3 DEF Victim
  <2>6. ASSUME NEW c \in Conn PROVE Joined(c)'
    BY <2>1, <2>2, <2>3 DEF Victim
  <2> QED
    BY <2>4, <2>5, <2>6
<1>24. ASSUME NEW t \in Thread, ReleaseSession(t) PROVE Callback'
  BY <1>24 DEF ReleaseSession, GiveBackSession, AfterSession
<1>25. ASSUME NEW t \in Thread, FreeSession(t) PROVE Callback'
  BY <1>25 DEF FreeSession, AfterSession
<1>26. CASE UNCHANGED vars
  BY <1>26 DEF vars
<1> QED
  BY <1>1, <1>2, <1>3, <1>4, <1>5, <1>6, <1>7, <1>8, <1>9, <1>10, <1>11, <1>12, <1>13,
     <1>14, <1>15, <1>16, <1>17, <1>18, <1>19, <1>20, <1>21, <1>22, <1>23, <1>24, <1>25, <1>26
  DEF Next, Environment, SetUp, Hear, Release

(* Counted: a step that changes a count changes the holders with it.        *)
LEMMA CountedStep == ReleaseInv /\ [Next]_vars => Counted'
<1> SUFFICES ASSUME ReleaseInv, [Next]_vars PROVE Counted'
  OBVIOUS
<1> USE ThreadsDiffer, NobodyIsNoThread, VictimKnown
    DEF ReleaseInv, SessionInv, Shape, EventPlaces, SetUpPlaces, Interrupted, EventThreads,
        SettersUp, session, connection, At, Go,
        Counts, Excluded, Telling, Fresh, Locked, Callback, TookOver, Running, Entering, Joined,
        Counted, One, SweptOut, Kept, Calling, SettingUp, PreAdd, Plexers
<1>1. ASSUME StopAdvertising PROVE Counted'
  BY <1>1 DEF StopAdvertising, UserReady
<1>2. ASSUME ReleaseByUser PROVE Counted'
  BY <1>2 DEF ReleaseByUser, UserReady, GiveBackSession, AfterSession
<1>3. ASSUME AcceptFails PROVE Counted'
  BY <1>3 DEF AcceptFails
<1>4. ASSUME NEW how \in UserOps, Close(how) PROVE Counted'
  BY <1>4 DEF Close, UserReady
<1>5. ASSUME NEW d \in Conn, ConnectToPeer(d) PROVE Counted'
  BY <1>5 DEF ConnectToPeer, UserReady
<1>6. ASSUME NEW d \in Conn, Accept(d) PROVE Counted'
  BY <1>6 DEF Accept
<1>7. ASSUME NEW d \in Conn, FailLink(d) PROVE Counted'
  BY <1>7 DEF FailLink
<1>8. ASSUME NEW d \in Conn, HearStream(d) PROVE Counted'
  BY <1>8 DEF HearStream
<1>9. ASSUME NEW d \in Conn, Connect(d) PROVE Counted'
  BY <1>9 DEF Connect, Leave
<1>10. ASSUME NEW d \in Conn, Initialise(d) PROVE Counted'
  BY <1>10 DEF Initialise, Leave
<1>11. ASSUME NEW d \in Conn, AddConnection(d) PROVE Counted'
  BY <1>11 DEF AddConnection
<1>12. ASSUME NEW d \in Conn, SetCallbacks(d) PROVE Counted'
  BY <1>12 DEF SetCallbacks
<1>13. ASSUME NEW d \in Conn, SetDefault(d) PROVE Counted'
  BY <1>13 DEF SetDefault
<1>14. ASSUME NEW d \in Conn, Announce(d) PROVE Counted'
  BY <1>14 DEF Announce, Leave
<1>15. ASSUME NEW d \in Conn, StreamHeard(d) PROVE Counted'
  BY <1>15 DEF StreamHeard
<1>16. ASSUME NEW d \in Conn, HearInterrupted(d) PROVE Counted'
  BY <1>16 DEF HearInterrupted
<1>17. ASSUME NEW d \in Conn, Tell(d) PROVE Counted'
  BY <1>17 DEF Tell
<1>18. ASSUME NEW t \in Thread, Enter(t) PROVE Counted'
  BY <1>18 DEF Enter, Stopping
<1>19. ASSUME NEW t \in Thread, Sweep(t) PROVE Counted'
  BY <1>19 DEF Sweep, Stopping, Floats
<1>20. ASSUME NEW t \in Thread, Swept(t) PROVE Counted'
  BY <1>20 DEF Swept, AfterSweep
<1>21. ASSUME NEW t \in Thread, Drop(t) PROVE Counted'
  <2>1. pc[t] = "drop" /\ Victim(t) \in Conn
    BY <1>21 DEF Drop
  <2>2. /\ UNCHANGED <<lock, listed, interrupter, victim>>
        /\ refs' = [refs EXCEPT ![Victim(t)] = @ - 1]
    BY <1>21 DEF Drop
  <2>3. \/ pc' = [pc EXCEPT ![t] = "join"] /\ refs[Victim(t)] = 1
        \/ pc' = [pc EXCEPT ![t] = AfterDrop(t)]
    BY <1>21 DEF Drop, Destroy
  <2>4. lock = t \/ \E d \in Conn : lock # t /\ (t = Init_(d) \/ t = Event(d))
    BY <2>1 DEF Thread
  <2>5. ASSUME NEW c \in Conn, c # Victim(t)
        PROVE  /\ refs'[c] = refs[c]
               /\ (SweptOut(c) <=> SweptOut(c)') /\ (Kept(c) <=> Kept(c)')
               /\ (SettingUp(c) <=> SettingUp(c)')
    BY <2>1, <2>2, <2>3, <2>4, <2>5 DEF Victim, AfterDrop
  <2>6. ASSUME NEW c \in Conn, c = Victim(t), lock = t
        PROVE  /\ SweptOut(c) /\ ~SweptOut(c)'
               /\ (Kept(c) <=> Kept(c)') /\ (SettingUp(c) <=> SettingUp(c)')
    BY <2>1, <2>2, <2>3, <2>6 DEF Victim, AfterDrop
  <2>7. ASSUME NEW c \in Conn, t = Event(c), lock # t
        PROVE  /\ Kept(c) /\ ~Kept(c)' /\ (SettingUp(c) <=> SettingUp(c)')
               /\ (SweptOut(c) <=> SweptOut(c)')
    BY <2>1, <2>2, <2>3, <2>7 DEF Victim, AfterDrop
  <2>8. ASSUME NEW c \in Conn, t = Init_(c), lock # t
        PROVE  /\ SettingUp(c) /\ ~SettingUp(c)' /\ (Kept(c) <=> Kept(c)')
               /\ (SweptOut(c) <=> SweptOut(c)')
    BY <2>1, <2>2, <2>3, <2>8 DEF Victim, AfterDrop
  <2>9. ASSUME NEW c \in Conn
        PROVE  refs'[c] = One(SweptOut(c)') + One(Kept(c)') + One(SettingUp(c)')
    <3>1. refs[c] = One(SweptOut(c)) + One(Kept(c)) + One(SettingUp(c))
      OBVIOUS
    <3>2. CASE c # Victim(t)
      BY <2>5, <3>1, <3>2 DEF One
    <3>3. CASE c = Victim(t) /\ lock = t
      BY <2>2, <2>6, <3>1, <3>3 DEF One
    <3>4. CASE c = Victim(t) /\ lock # t
      <4>1. t = Event(c) \/ t = Init_(c)
        BY <2>4, <3>4 DEF Victim
      <4> QED
        BY <2>2, <2>7, <2>8, <3>1, <3>4, <4>1 DEF One
    <3> QED
      BY <3>2, <3>3, <3>4
  <2>10. ASSUME NEW c \in Conn
         PROVE  /\ pc'[Init_(c)] = "join" /\ lock' # Init_(c) => refs'[c] = 0
                /\ pc'[Event(c)] = "join" /\ lock' # Event(c) => refs'[c] = 0
    BY <2>1, <2>2, <2>3, <2>4, <2>5, <2>6, <2>7, <2>8 DEF Victim, AfterDrop
  <2> QED
    BY <2>9, <2>10
<1>22. ASSUME NEW t \in Thread, CloseSwept(t) PROVE Counted'
  BY <1>22 DEF CloseSwept, Destroy, Stopping
<1>23. ASSUME NEW t \in Thread, JoinEvents(t) PROVE Counted'
  <2>1. pc[t] = "join" /\ Victim(t) \in Conn
    BY <1>23 DEF JoinEvents
  <2>2. /\ UNCHANGED <<lock, listed, interrupter, victim, refs>>
        /\ pc' = [pc EXCEPT ![t] = IF refs[Victim(t)] = 0 THEN AfterDrop(t) ELSE "drop"]
    BY <1>23 DEF JoinEvents
  <2>3. lock = t \/ \E d \in Conn : lock # t /\ (t = Init_(d) \/ t = Event(d))
    BY <2>1 DEF Thread
  <2>4. lock # t => refs[Victim(t)] = 0
    BY <2>1, <2>3 DEF Victim
  <2>5. ASSUME NEW c \in Conn PROVE SweptOut(c) <=> SweptOut(c)'
    BY <2>1, <2>2, <2>4 DEF Victim, AfterDrop
  <2>6. ASSUME NEW c \in Conn PROVE Kept(c) <=> Kept(c)'
    BY <2>1, <2>2, <2>3, <2>4 DEF Victim, AfterDrop
  <2>7. ASSUME NEW c \in Conn PROVE SettingUp(c) <=> SettingUp(c)'
    BY <2>1, <2>2, <2>3, <2>4 DEF Victim, AfterDrop
  <2>8. ASSUME NEW c \in Conn
        PROVE  /\ pc'[Init_(c)] = "join" => pc[Init_(c)] = "join"
               /\ pc'[Event(c)] = "join" => pc[Event(c)] = "join"
    BY <2>1, <2>2 DEF AfterDrop
  <2> QED
    BY <2>2, <2>5, <2>6, <2>7, <2>8
<1>24. ASSUME NEW t \in Thread, ReleaseSession(t) PROVE Counted'
  BY <1>24 DEF ReleaseSession, GiveBackSession, AfterSession
<1>25. ASSUME NEW t \in Thread, FreeSession(t) PROVE Counted'
  BY <1>25 DEF FreeSession, AfterSession
<1>26. CASE UNCHANGED vars
  BY <1>26 DEF vars
<1> QED
  BY <1>1, <1>2, <1>3, <1>4, <1>5, <1>6, <1>7, <1>8, <1>9, <1>10, <1>11, <1>12, <1>13,
     <1>14, <1>15, <1>16, <1>17, <1>18, <1>19, <1>20, <1>21, <1>22, <1>23, <1>24, <1>25, <1>26
  DEF Next, Environment, SetUp, Hear, Release

(* SessionCounted: likewise for the references to the session.              *)
LEMMA SessionCountedStep == ReleaseInv /\ [Next]_vars => SessionCounted'
<1> SUFFICES ASSUME ReleaseInv, [Next]_vars PROVE SessionCounted'
  OBVIOUS
<1> USE ThreadsDiffer, NobodyIsNoThread, VictimKnown
    DEF ReleaseInv, SessionInv, Shape, EventPlaces, SetUpPlaces, Interrupted, EventThreads,
        SettersUp, session, connection, At, Go,
        Counts, Excluded, Fresh, Locked, SessionCounted, PreAdd
<1>1. ASSUME StopAdvertising PROVE SessionCounted'
  <2>1. SessionHolders' = SessionHolders
    BY <1>1 DEF StopAdvertising, UserReady, SessionHolders, HoldsSession
  <2>2. srefs' = srefs /\ freer' = freer
    BY <1>1 DEF StopAdvertising, UserReady
  <2>3. freer = None => ~freed' /\ interrupter' # Releaser
    BY <1>1 DEF StopAdvertising, UserReady
  <2> QED
    BY <2>1, <2>2, <2>3
<1>2. ASSUME ReleaseByUser PROVE SessionCounted'
  <2>1. SessionHolders' = SessionHolders \ {User} /\ User \in SessionHolders
    BY <1>2 DEF ReleaseByUser, UserReady, GiveBackSession, AfterSession, SessionHolders, HoldsSession
  <2>2. /\ srefs' = srefs - 1 /\ UNCHANGED <<freed, interrupter>>
        /\ freer' = IF srefs = 1 THEN User ELSE freer
    BY <1>2 DEF ReleaseByUser, UserReady, GiveBackSession, AfterSession
  <2>3. freer = None
    BY <2>1, NobodyHolds
  <2>4. IsFiniteSet(SessionHolders) /\ srefs = Cardinality(SessionHolders)
    OBVIOUS
  <2>5. ~freed /\ interrupter # Releaser
    BY <2>3
  <2> HIDE DEF ReleaseInv, SessionCounted
  <2>6. IsFiniteSet(SessionHolders') /\ srefs' = Cardinality(SessionHolders')
    BY <2>1, <2>2, <2>4, FS_RemoveElement, FS_CardinalityType
  <2> QED
    BY <2>2, <2>3, <2>5, <2>6 DEF SessionCounted
<1>3. ASSUME AcceptFails PROVE SessionCounted'
  <2>1. SessionHolders' = SessionHolders
    BY <1>3 DEF AcceptFails, SessionHolders, HoldsSession
  <2>2. srefs' = srefs /\ freer' = freer
    BY <1>3 DEF AcceptFails
  <2>3. freer = None => ~freed' /\ interrupter' # Releaser
    BY <1>3 DEF AcceptFails
  <2> QED
    BY <2>1, <2>2, <2>3
<1>4. ASSUME NEW how \in UserOps, Close(how) PROVE SessionCounted'
  <2>1. SessionHolders' = SessionHolders
    BY <1>4 DEF Close, UserReady, SessionHolders, HoldsSession
  <2>2. srefs' = srefs /\ freer' = freer
    BY <1>4 DEF Close, UserReady
  <2>3. freer = None => ~freed' /\ interrupter' # Releaser
    BY <1>4 DEF Close, UserReady
  <2> QED
    BY <2>1, <2>2, <2>3
<1>5. ASSUME NEW d \in Conn, ConnectToPeer(d) PROVE SessionCounted'
  <2>1. SessionHolders' = SessionHolders \cup {Init_(d)} /\ Init_(d) \notin SessionHolders
    BY <1>5 DEF ConnectToPeer, UserReady, SessionHolders, HoldsSession
  <2>2. srefs' = srefs + 1 /\ UNCHANGED <<freer, freed, interrupter>>
    BY <1>5 DEF ConnectToPeer
  <2>3. freer = None
    BY <1>5, NobodyHolds DEF ConnectToPeer, UserReady, SessionHolders, HoldsSession
  <2>4. IsFiniteSet(SessionHolders) /\ srefs = Cardinality(SessionHolders)
    OBVIOUS
  <2>5. ~freed /\ interrupter # Releaser
    BY <2>3
  <2> HIDE DEF ReleaseInv, SessionCounted
  <2>6. IsFiniteSet(SessionHolders') /\ srefs' = Cardinality(SessionHolders')
    BY <2>1, <2>2, <2>4, FS_AddElement
  <2> QED
    BY <2>2, <2>3, <2>5, <2>6 DEF SessionCounted
<1>6. ASSUME NEW d \in Conn, Accept(d) PROVE SessionCounted'
  <2>1. SessionHolders' = SessionHolders \cup {Init_(d)} /\ Init_(d) \notin SessionHolders
    BY <1>6 DEF Accept, SessionHolders, HoldsSession
  <2>2. srefs' = srefs + 1 /\ UNCHANGED <<freer, freed, interrupter>>
    BY <1>6 DEF Accept
  <2>3. freer = None
    BY <1>6, NobodyHolds DEF Accept, SessionHolders, HoldsSession
  <2>4. IsFiniteSet(SessionHolders) /\ srefs = Cardinality(SessionHolders)
    OBVIOUS
  <2>5. ~freed /\ interrupter # Releaser
    BY <2>3
  <2> HIDE DEF ReleaseInv, SessionCounted
  <2>6. IsFiniteSet(SessionHolders') /\ srefs' = Cardinality(SessionHolders')
    BY <2>1, <2>2, <2>4, FS_AddElement
  <2> QED
    BY <2>2, <2>3, <2>5, <2>6 DEF SessionCounted
<1>7. ASSUME NEW d \in Conn, FailLink(d) PROVE SessionCounted'
  <2>1. SessionHolders' = SessionHolders
    BY <1>7 DEF FailLink, SessionHolders, HoldsSession
  <2>2. srefs' = srefs /\ freer' = freer
    BY <1>7 DEF FailLink
  <2>3. freer = None => ~freed' /\ interrupter' # Releaser
    BY <1>7 DEF FailLink
  <2> QED
    BY <2>1, <2>2, <2>3
<1>8. ASSUME NEW d \in Conn, HearStream(d) PROVE SessionCounted'
  <2>1. SessionHolders' = SessionHolders
    BY <1>8 DEF HearStream, SessionHolders, HoldsSession
  <2>2. srefs' = srefs /\ freer' = freer
    BY <1>8 DEF HearStream
  <2>3. freer = None => ~freed' /\ interrupter' # Releaser
    BY <1>8 DEF HearStream
  <2> QED
    BY <2>1, <2>2, <2>3
<1>9. ASSUME NEW d \in Conn, Connect(d) PROVE SessionCounted'
  <2>1. SessionHolders' = SessionHolders
    BY <1>9 DEF Connect, Leave, SessionHolders, HoldsSession
  <2>2. srefs' = srefs /\ freer' = freer
    BY <1>9 DEF Connect, Leave
  <2>3. freer = None => ~freed' /\ interrupter' # Releaser
    BY <1>9 DEF Connect, Leave
  <2> QED
    BY <2>1, <2>2, <2>3
<1>10. ASSUME NEW d \in Conn, Initialise(d) PROVE SessionCounted'
  <2>1. SessionHolders' = SessionHolders
    BY <1>10 DEF Initialise, Leave, SessionHolders, HoldsSession
  <2>2. srefs' = srefs /\ freer' = freer
    BY <1>10 DEF Initialise, Leave
  <2>3. freer = None => ~freed' /\ interrupter' # Releaser
    BY <1>10 DEF Initialise, Leave
  <2> QED
    BY <2>1, <2>2, <2>3
<1>11. ASSUME NEW d \in Conn, AddConnection(d) PROVE SessionCounted'
  <2>1. SessionHolders' = SessionHolders
    BY <1>11 DEF AddConnection, SessionHolders, HoldsSession
  <2>2. srefs' = srefs /\ freer' = freer
    BY <1>11 DEF AddConnection
  <2>3. freer = None => ~freed' /\ interrupter' # Releaser
    BY <1>11 DEF AddConnection
  <2> QED
    BY <2>1, <2>2, <2>3
<1>12. ASSUME NEW d \in Conn, SetCallbacks(d) PROVE SessionCounted'
  <2>1. SessionHolders' = SessionHolders
    BY <1>12 DEF SetCallbacks, SessionHolders, HoldsSession
  <2>2. srefs' = srefs /\ freer' = freer
    BY <1>12 DEF SetCallbacks
  <2>3. freer = None => ~freed' /\ interrupter' # Releaser
    BY <1>12 DEF SetCallbacks
  <2> QED
    BY <2>1, <2>2, <2>3
<1>13. ASSUME NEW d \in Conn, SetDefault(d) PROVE SessionCounted'
  <2>1. SessionHolders' = SessionHolders
    BY <1>13 DEF SetDefault, SessionHolders, HoldsSession
  <2>2. srefs' = srefs /\ freer' = freer
    BY <1>13 DEF SetDefault
  <2>3. freer = None => ~freed' /\ interrupter' # Releaser
    BY <1>13 DEF SetDefault
  <2> QED
    BY <2>1, <2>2, <2>3
<1>14. ASSUME NEW d \in Conn, Announce(d) PROVE SessionCounted'
  <2>1. SessionHolders' = SessionHolders
    BY <1>14 DEF Announce, Leave, SessionHolders, HoldsSession
  <2>2. srefs' = srefs /\ freer' = freer
    BY <1>14 DEF Announce, Leave
  <2>3. freer = None => ~freed' /\ interrupter' # Releaser
    BY <1>14 DEF Announce, Leave
  <2> QED
    BY <2>1, <2>2, <2>3
<1>15. ASSUME NEW d \in Conn, StreamHeard(d) PROVE SessionCounted'
  <2>1. SessionHolders' = SessionHolders
    BY <1>15 DEF StreamHeard, SessionHolders, HoldsSession
  <2>2. srefs' = srefs /\ freer' = freer
    BY <1>15 DEF StreamHeard
  <2>3. freer = None => ~freed' /\ interrupter' # Releaser
    BY <1>15 DEF StreamHeard
  <2> QED
    BY <2>1, <2>2, <2>3
<1>16. ASSUME NEW d \in Conn, HearInterrupted(d) PROVE SessionCounted'
  <2>1. SessionHolders' = SessionHolders
    BY <1>16 DEF HearInterrupted, SessionHolders, HoldsSession
  <2>2. srefs' = srefs /\ freer' = freer
    BY <1>16 DEF HearInterrupted
  <2>3. freer = None => ~freed' /\ interrupter' # Releaser
    BY <1>16 DEF HearInterrupted
  <2> QED
    BY <2>1, <2>2, <2>3
<1>17. ASSUME NEW d \in Conn, Tell(d) PROVE SessionCounted'
  <2>1. SessionHolders' = SessionHolders
    BY <1>17 DEF Tell, SessionHolders, HoldsSession
  <2>2. srefs' = srefs /\ freer' = freer
    BY <1>17 DEF Tell
  <2>3. freer = None => ~freed' /\ interrupter' # Releaser
    BY <1>17 DEF Tell
  <2> QED
    BY <2>1, <2>2, <2>3
<1>18. ASSUME NEW t \in Thread, Enter(t) PROVE SessionCounted'
  <2>1. SessionHolders' = SessionHolders
    BY <1>18 DEF Enter, Stopping, SessionHolders, HoldsSession
  <2>2. srefs' = srefs /\ freer' = freer
    BY <1>18 DEF Enter, Stopping
  <2>3. freer = None => ~freed' /\ interrupter' # Releaser
    BY <1>18 DEF Enter, Stopping
  <2> QED
    BY <2>1, <2>2, <2>3
<1>19. ASSUME NEW t \in Thread, Sweep(t) PROVE SessionCounted'
  <2>1. SessionHolders' = SessionHolders
    BY <1>19 DEF Sweep, Stopping, Floats, SessionHolders, HoldsSession
  <2>2. srefs' = srefs /\ freer' = freer
    BY <1>19 DEF Sweep, Stopping, Floats
  <2>3. freer = None => ~freed' /\ interrupter' # Releaser
    BY <1>19 DEF Sweep, Stopping, Floats
  <2> QED
    BY <2>1, <2>2, <2>3
<1>20. ASSUME NEW t \in Thread, Swept(t) PROVE SessionCounted'
  <2>1. SessionHolders' = SessionHolders
    BY <1>20 DEF Swept, AfterSweep, SessionHolders, HoldsSession
  <2>2. srefs' = srefs /\ freer' = freer
    BY <1>20 DEF Swept, AfterSweep
  <2>3. freer = None => ~freed' /\ interrupter' # Releaser
    BY <1>20 DEF Swept, AfterSweep
  <2> QED
    BY <2>1, <2>2, <2>3
<1>21. ASSUME NEW t \in Thread, Drop(t) PROVE SessionCounted'
  <2>1. SessionHolders' = SessionHolders
    BY <1>21 DEF Drop, Destroy, AfterDrop, SessionHolders, HoldsSession
  <2>2. srefs' = srefs /\ freer' = freer
    BY <1>21 DEF Drop, Destroy, AfterDrop
  <2>3. freer = None => ~freed' /\ interrupter' # Releaser
    BY <1>21 DEF Drop, Destroy, AfterDrop
  <2> QED
    BY <2>1, <2>2, <2>3
<1>22. ASSUME NEW t \in Thread, CloseSwept(t) PROVE SessionCounted'
  <2>1. SessionHolders' = SessionHolders
    BY <1>22 DEF CloseSwept, Destroy, Stopping, SessionHolders, HoldsSession
  <2>2. srefs' = srefs /\ freer' = freer
    BY <1>22 DEF CloseSwept, Destroy, Stopping
  <2>3. freer = None => ~freed' /\ interrupter' # Releaser
    BY <1>22 DEF CloseSwept, Destroy, Stopping
  <2> QED
    BY <2>1, <2>2, <2>3
<1>23. ASSUME NEW t \in Thread, JoinEvents(t) PROVE SessionCounted'
  <2>1. SessionHolders' = SessionHolders
    BY <1>23 DEF JoinEvents, AfterDrop, SessionHolders, HoldsSession
  <2>2. srefs' = srefs /\ freer' = freer
    BY <1>23 DEF JoinEvents, AfterDrop
  <2>3. freer = None => ~freed' /\ interrupter' # Releaser
    BY <1>23 DEF JoinEvents, AfterDrop
  <2> QED
    BY <2>1, <2>2, <2>3
<1>24. ASSUME NEW t \in Thread, ReleaseSession(t) PROVE SessionCounted'
  <2>1. SessionHolders' = SessionHolders \ {t} /\ t \in SessionHolders
    <3>1. t = Acceptor \/ \E d \in Conn : t = Init_(d)
      BY <1>24 DEF ReleaseSession, Thread
    <3>2. /\ lock' = lock /\ op' = op /\ pc[t] = "releaseSession"
          /\ pc' = [pc EXCEPT ![t] = "enter"] \/ pc' = [pc EXCEPT ![t] = AfterSession(t)]
      BY <1>24 DEF ReleaseSession, GiveBackSession
    <3>3. HoldsSession(t) /\ ~HoldsSession(t)'
      BY <3>1, <3>2 DEF HoldsSession, AfterSession
    <3>4. \A u \in Thread : u # t => (HoldsSession(u) <=> HoldsSession(u)')
      BY <3>2 DEF HoldsSession
    <3> QED
      BY <3>3, <3>4 DEF SessionHolders
  <2>2. /\ srefs' = srefs - 1 /\ UNCHANGED <<freed, interrupter>>
        /\ freer' = IF srefs = 1 THEN t ELSE freer
    BY <1>24 DEF ReleaseSession, GiveBackSession, AfterSession
  <2>3. freer = None
    BY <2>1, NobodyHolds
  <2>4. IsFiniteSet(SessionHolders) /\ srefs = Cardinality(SessionHolders)
    OBVIOUS
  <2>5. ~freed /\ interrupter # Releaser
    BY <2>3
  <2> HIDE DEF ReleaseInv, SessionCounted
  <2>6. IsFiniteSet(SessionHolders') /\ srefs' = Cardinality(SessionHolders')
    BY <2>1, <2>2, <2>4, FS_RemoveElement, FS_CardinalityType
  <2> QED
    BY <2>2, <2>3, <2>5, <2>6 DEF SessionCounted
<1>25. ASSUME NEW t \in Thread, FreeSession(t) PROVE SessionCounted'
  <2>1. SessionHolders' = SessionHolders
    BY <1>25 DEF FreeSession, AfterSession, SessionHolders, HoldsSession
  <2>2. srefs' = srefs /\ freer' = freer
    BY <1>25 DEF FreeSession, AfterSession
  <2>3. freer = None => ~freed' /\ interrupter' # Releaser
    BY <1>25 DEF FreeSession, AfterSession
  <2> QED
    BY <2>1, <2>2, <2>3
<1>26. CASE UNCHANGED vars
  BY <1>26 DEF vars, SessionHolders, HoldsSession
<1> QED
  BY <1>1, <1>2, <1>3, <1>4, <1>5, <1>6, <1>7, <1>8, <1>9, <1>10, <1>11, <1>12, <1>13,
     <1>14, <1>15, <1>16, <1>17, <1>18, <1>19, <1>20, <1>21, <1>22, <1>23, <1>24, <1>25, <1>26
  DEF Next, Environment, SetUp, Hear, Release

(* Freed: freeing the session is the last thing the thread that frees it does to it. *)
LEMMA FreedStep == ReleaseInv /\ [Next]_vars => Freed'
<1> SUFFICES ASSUME ReleaseInv, [Next]_vars PROVE Freed'
  OBVIOUS
<1> USE ThreadsDiffer, NobodyIsNoThread, VictimKnown, NobodySetsUp
    DEF ReleaseInv, SessionInv, Shape, EventPlaces, SetUpPlaces, Interrupted, EventThreads,
        SettersUp, session, connection, At, Go,
        Counts, Excluded, Locked, SessionCounted, Freed
<1>1. ASSUME StopAdvertising PROVE Freed'
  BY <1>1 DEF StopAdvertising, UserReady
<1>2. ASSUME ReleaseByUser PROVE Freed'
  BY <1>2 DEF ReleaseByUser, UserReady, GiveBackSession, AfterSession
<1>3. ASSUME AcceptFails PROVE Freed'
  BY <1>3 DEF AcceptFails
<1>4. ASSUME NEW how \in UserOps, Close(how) PROVE Freed'
  BY <1>4 DEF Close, UserReady
<1>5. ASSUME NEW d \in Conn, ConnectToPeer(d) PROVE Freed'
  BY <1>5 DEF ConnectToPeer, UserReady
<1>6. ASSUME NEW d \in Conn, Accept(d) PROVE Freed'
  BY <1>6 DEF Accept
<1>7. ASSUME NEW d \in Conn, FailLink(d) PROVE Freed'
  BY <1>7 DEF FailLink
<1>8. ASSUME NEW d \in Conn, HearStream(d) PROVE Freed'
  BY <1>8 DEF HearStream
<1>9. ASSUME NEW d \in Conn, Connect(d) PROVE Freed'
  BY <1>9 DEF Connect, Leave
<1>10. ASSUME NEW d \in Conn, Initialise(d) PROVE Freed'
  BY <1>10 DEF Initialise, Leave
<1>11. ASSUME NEW d \in Conn, AddConnection(d) PROVE Freed'
  BY <1>11 DEF AddConnection
<1>12. ASSUME NEW d \in Conn, SetCallbacks(d) PROVE Freed'
  BY <1>12 DEF SetCallbacks
<1>13. ASSUME NEW d \in Conn, SetDefault(d) PROVE Freed'
  BY <1>13 DEF SetDefault
<1>14. ASSUME NEW d \in Conn, Announce(d) PROVE Freed'
  BY <1>14 DEF Announce, Leave
<1>15. ASSUME NEW d \in Conn, StreamHeard(d) PROVE Freed'
  BY <1>15 DEF StreamHeard
<1>16. ASSUME NEW d \in Conn, HearInterrupted(d) PROVE Freed'
  BY <1>16 DEF HearInterrupted
<1>17. ASSUME NEW d \in Conn, Tell(d) PROVE Freed'
  BY <1>17 DEF Tell
<1>18. ASSUME NEW t \in Thread, Enter(t) PROVE Freed'
  BY <1>18 DEF Enter, Stopping
<1>19. ASSUME NEW t \in Thread, Sweep(t) PROVE Freed'
  BY <1>19 DEF Sweep, Stopping, Floats
<1>20. ASSUME NEW t \in Thread, Swept(t) PROVE Freed'
  BY <1>20 DEF Swept, AfterSweep
<1>21. ASSUME NEW t \in Thread, Drop(t) PROVE Freed'
  BY <1>21 DEF Drop, Destroy, AfterDrop
<1>22. ASSUME NEW t \in Thread, CloseSwept(t) PROVE Freed'
  BY <1>22 DEF CloseSwept, Destroy, Stopping
<1>23. ASSUME NEW t \in Thread, JoinEvents(t) PROVE Freed'
  BY <1>23 DEF JoinEvents, AfterDrop
<1>24. ASSUME NEW t \in Thread, ReleaseSession(t) PROVE Freed'
  BY <1>24 DEF ReleaseSession, GiveBackSession, AfterSession
<1>25. ASSUME NEW t \in Thread, FreeSession(t) PROVE Freed'
  BY <1>25 DEF FreeSession, AfterSession
<1>26. CASE UNCHANGED vars
  BY <1>26 DEF vars
<1> QED
  BY <1>1, <1>2, <1>3, <1>4, <1>5, <1>6, <1>7, <1>8, <1>9, <1>10, <1>11, <1>12, <1>13,
     <1>14, <1>15, <1>16, <1>17, <1>18, <1>19, <1>20, <1>21, <1>22, <1>23, <1>24, <1>25, <1>26
  DEF Next, Environment, SetUp, Hear, Release

(* Typed: what is left of the type invariant.                               *)
LEMMA TypedStep == ReleaseInv /\ [Next]_vars => Typed'
<1> SUFFICES ASSUME ReleaseInv, [Next]_vars PROVE Typed'
  OBVIOUS
<1> USE ThreadsDiffer, NobodyIsNoThread, VictimKnown
    DEF ReleaseInv, SessionInv, Shape, EventPlaces, SetUpPlaces, Interrupted, EventThreads,
        SettersUp, session, connection, At, Go,
        Counts, Locked, Typed, Places
<1>1. ASSUME StopAdvertising PROVE Typed'
  BY <1>1 DEF StopAdvertising, UserReady
<1>2. ASSUME ReleaseByUser PROVE Typed'
  BY <1>2 DEF ReleaseByUser, UserReady, GiveBackSession, AfterSession
<1>3. ASSUME AcceptFails PROVE Typed'
  BY <1>3 DEF AcceptFails
<1>4. ASSUME NEW how \in UserOps, Close(how) PROVE Typed'
  BY <1>4 DEF Close, UserReady
<1>5. ASSUME NEW d \in Conn, ConnectToPeer(d) PROVE Typed'
  BY <1>5 DEF ConnectToPeer, UserReady
<1>6. ASSUME NEW d \in Conn, Accept(d) PROVE Typed'
  BY <1>6 DEF Accept
<1>7. ASSUME NEW d \in Conn, FailLink(d) PROVE Typed'
  BY <1>7 DEF FailLink
<1>8. ASSUME NEW d \in Conn, HearStream(d) PROVE Typed'
  BY <1>8 DEF HearStream
<1>9. ASSUME NEW d \in Conn, Connect(d) PROVE Typed'
  BY <1>9 DEF Connect, Leave
<1>10. ASSUME NEW d \in Conn, Initialise(d) PROVE Typed'
  BY <1>10 DEF Initialise, Leave
<1>11. ASSUME NEW d \in Conn, AddConnection(d) PROVE Typed'
  BY <1>11 DEF AddConnection
<1>12. ASSUME NEW d \in Conn, SetCallbacks(d) PROVE Typed'
  BY <1>12 DEF SetCallbacks
<1>13. ASSUME NEW d \in Conn, SetDefault(d) PROVE Typed'
  BY <1>13 DEF SetDefault
<1>14. ASSUME NEW d \in Conn, Announce(d) PROVE Typed'
  BY <1>14 DEF Announce, Leave
<1>15. ASSUME NEW d \in Conn, StreamHeard(d) PROVE Typed'
  BY <1>15 DEF StreamHeard
<1>16. ASSUME NEW d \in Conn, HearInterrupted(d) PROVE Typed'
  BY <1>16 DEF HearInterrupted
<1>17. ASSUME NEW d \in Conn, Tell(d) PROVE Typed'
  BY <1>17 DEF Tell
<1>18. ASSUME NEW t \in Thread, Enter(t) PROVE Typed'
  BY <1>18 DEF Enter, Stopping
<1>19. ASSUME NEW t \in Thread, Sweep(t) PROVE Typed'
  BY <1>19 DEF Sweep, Stopping, Floats
<1>20. ASSUME NEW t \in Thread, Swept(t) PROVE Typed'
  BY <1>20 DEF Swept, AfterSweep
<1>21. ASSUME NEW t \in Thread, Drop(t) PROVE Typed'
  BY <1>21 DEF Drop, Destroy, AfterDrop
<1>22. ASSUME NEW t \in Thread, CloseSwept(t) PROVE Typed'
  BY <1>22 DEF CloseSwept, Destroy, Stopping
<1>23. ASSUME NEW t \in Thread, JoinEvents(t) PROVE Typed'
  BY <1>23 DEF JoinEvents, AfterDrop
<1>24. ASSUME NEW t \in Thread, ReleaseSession(t) PROVE Typed'
  BY <1>24 DEF ReleaseSession, GiveBackSession, AfterSession
<1>25. ASSUME NEW t \in Thread, FreeSession(t) PROVE Typed'
  BY <1>25 DEF FreeSession, AfterSession
<1>26. CASE UNCHANGED vars
  BY <1>26 DEF vars
<1> QED
  BY <1>1, <1>2, <1>3, <1>4, <1>5, <1>6, <1>7, <1>8, <1>9, <1>10, <1>11, <1>12, <1>13,
     <1>14, <1>15, <1>16, <1>17, <1>18, <1>19, <1>20, <1>21, <1>22, <1>23, <1>24, <1>25, <1>26
  DEF Next, Environment, SetUp, Hear, Release

(* Releasing: no connection escapes the sweep of the thread that frees the session. *)
LEMMA ReleasingStep == ReleaseInv /\ [Next]_vars => Releasing'
<1> SUFFICES ASSUME ReleaseInv, [Next]_vars PROVE Releasing'
  OBVIOUS
<1> USE ThreadsDiffer, NobodyIsNoThread, VictimKnown, NobodySetsUp
    DEF ReleaseInv, SessionInv, Shape, EventPlaces, SetUpPlaces, Interrupted, EventThreads,
        SettersUp, session, connection, At, Go,
        Counts, Excluded, Telling, Fresh, Locked, Callback, TookOver, Running, Joined, SessionCounted, Freed,
        Releasing, OnItsWay, Leaving, PreAdd, Plexers
<1>1. ASSUME StopAdvertising PROVE Releasing'
  BY <1>1 DEF StopAdvertising, UserReady
<1>2. ASSUME ReleaseByUser PROVE Releasing'
  BY <1>2 DEF ReleaseByUser, UserReady, GiveBackSession, AfterSession
<1>3. ASSUME AcceptFails PROVE Releasing'
  BY <1>3 DEF AcceptFails
<1>4. ASSUME NEW how \in UserOps, Close(how) PROVE Releasing'
  BY <1>4 DEF Close, UserReady
<1>5. ASSUME NEW d \in Conn, ConnectToPeer(d) PROVE Releasing'
  BY <1>5 DEF ConnectToPeer, UserReady
<1>6. ASSUME NEW d \in Conn, Accept(d) PROVE Releasing'
  BY <1>6 DEF Accept
<1>7. ASSUME NEW d \in Conn, FailLink(d) PROVE Releasing'
  BY <1>7 DEF FailLink
<1>8. ASSUME NEW d \in Conn, HearStream(d) PROVE Releasing'
  BY <1>8 DEF HearStream
<1>9. ASSUME NEW d \in Conn, Connect(d) PROVE Releasing'
  BY <1>9 DEF Connect, Leave
<1>10. ASSUME NEW d \in Conn, Initialise(d) PROVE Releasing'
  BY <1>10 DEF Initialise, Leave
<1>11. ASSUME NEW d \in Conn, AddConnection(d) PROVE Releasing'
  BY <1>11 DEF AddConnection
<1>12. ASSUME NEW d \in Conn, SetCallbacks(d) PROVE Releasing'
  BY <1>12 DEF SetCallbacks
<1>13. ASSUME NEW d \in Conn, SetDefault(d) PROVE Releasing'
  BY <1>13 DEF SetDefault
<1>14. ASSUME NEW d \in Conn, Announce(d) PROVE Releasing'
  BY <1>14 DEF Announce, Leave
<1>15. ASSUME NEW d \in Conn, StreamHeard(d) PROVE Releasing'
  BY <1>15 DEF StreamHeard
<1>16. ASSUME NEW d \in Conn, HearInterrupted(d) PROVE Releasing'
  BY <1>16 DEF HearInterrupted
<1>17. ASSUME NEW d \in Conn, Tell(d) PROVE Releasing'
  BY <1>17 DEF Tell
<1>18. ASSUME NEW t \in Thread, Enter(t) PROVE Releasing'
  BY <1>18 DEF Enter, Stopping
<1>19. ASSUME NEW t \in Thread, Sweep(t) PROVE Releasing'
  BY <1>19 DEF Sweep, Stopping, Floats
<1>20. ASSUME NEW t \in Thread, Swept(t) PROVE Releasing'
  BY <1>20 DEF Swept, AfterSweep
<1>21. ASSUME NEW t \in Thread, Drop(t) PROVE Releasing'
  <2>1. pc[t] = "drop" /\ Victim(t) \in Conn
    BY <1>21 DEF Drop
  <2>2. UNCHANGED <<lock, listed, interrupter, victim, freer, freed>>
    BY <1>21 DEF Drop
  <2>3. \/ /\ pc' = [pc EXCEPT ![t] = "join"] /\ refs[Victim(t)] = 1
           /\ plexer' = [plexer EXCEPT ![Victim(t)] = "stopped"]
        \/ /\ pc' = [pc EXCEPT ![t] = AfterDrop(t)] /\ plexer' = plexer
           /\ refs[Victim(t)] # 1 \/ plexer[Victim(t)] = "none"
    BY <1>21 DEF Drop, Destroy
  <2> SUFFICES ASSUME interrupter = Releaser PROVE Releasing'
    BY <2>2
  <2>4. freer \in Thread /\ (lock # None => lock = freer)
    OBVIOUS
  <2>5. AfterDrop(t) \notin {"enter", "joinAccept"} /\ (lock = t => AfterDrop(t) = "sweep")
    BY DEF AfterDrop
  <2>6. (pc'[freer] = "joinAccept" => pc[freer] = "joinAccept") /\ pc'[freer] # "enter"
    BY <2>1, <2>3, <2>4, <2>5
  <2>7. ASSUME NEW c \in Conn, c # Victim(t) PROVE OnItsWay(c)'
    <3>1. OnItsWay(c)
      OBVIOUS
    <3>2. plexer'[c] = plexer[c]
      BY <2>3, <2>7
    <3>3. lock = freer /\ victim = c => pc'[freer] = pc[freer]
      BY <2>1, <2>3, <2>4, <2>7 DEF Victim
    <3>4. c \notin Incoming /\ pc[Init_(c)] \in {"drop", "join"} =>
            pc'[Init_(c)] = pc[Init_(c)] \/ lock = Init_(c)
      BY <2>1, <2>3, <2>7 DEF Victim
    <3>5. lock = Init_(c) => freer = Init_(c) /\ ~freed
      OBVIOUS
    <3> QED
      BY <2>2, <3>1, <3>2, <3>3, <3>4, <3>5
  <2>8. ASSUME NEW c \in Conn, c = Victim(t), lock = t PROVE OnItsWay(c)'
    <3>1. t = freer /\ victim = c /\ SweptOut(c)
      BY <2>1, <2>4, <2>8 DEF Victim, SweptOut
    <3>2. CASE pc' = [pc EXCEPT ![t] = "join"]
      <4>1. lock' = freer' /\ victim' = c /\ pc'[freer'] = "join"
        BY <2>2, <2>4, <2>8, <3>1, <3>2
      <4> QED
        BY <4>1
    <3>3. CASE plexer' = plexer /\ plexer[c] = "none"
      BY <3>3
    <3>4. CASE plexer' = plexer /\ refs[c] # 1 /\ pc' = [pc EXCEPT ![t] = AfterDrop(t)]
      <4>1. Kept(c) \/ SettingUp(c)
        BY <3>1, <3>4 DEF Counted, One
      <4>2. c \in listed \/ Leaving(c)
        <5> HIDE DEF Leaving
        <5>1. Kept(c) => c \in listed
          BY <2>8, StillOnItsWay
        <5>2. SettingUp(c) => Leaving(c)
          BY <2>8, StillOnItsWay
        <5> QED
          BY <4>1, <5>1, <5>2
      <4>3. CASE t = Init_(c)
        <5>1. ~freed
          BY <2>8, <3>1
        <5>2. c \in listed \/ c \notin Incoming
          BY <4>2
        <5> QED
          BY <2>2, <3>1, <4>3, <5>1, <5>2
      <4>4. CASE t # Init_(c)
        BY <2>2, <3>4, <4>2, <4>4
      <4> QED
        BY <4>3, <4>4
    <3> QED
      BY <2>3, <2>8, <3>2, <3>3, <3>4
  <2>9. ASSUME NEW c \in Conn, c = Victim(t), lock # t PROVE OnItsWay(c)'
    <3>1. t = Init_(c) \/ t = Event(c)
      BY <2>1, <2>9 DEF Victim, Thread
    <3>2. t # Event(c)
      BY <2>1, <2>9
    <3>3. t = Init_(c) /\ c \notin Incoming /\ SettingUp(c)
      BY <2>1, <2>9, <3>1, <3>2 DEF SettingUp
    <3>4. CASE pc' = [pc EXCEPT ![t] = "join"]
      BY <3>3, <3>4
    <3>5. CASE plexer' = plexer /\ plexer[c] = "none"
      BY <3>5
    <3>6. CASE plexer' = plexer /\ refs[c] # 1 /\ pc' = [pc EXCEPT ![t] = AfterDrop(t)]
      <4>1. SweptOut(c) \/ Kept(c)
        BY <3>3, <3>6 DEF Counted, One
      <4>2. c \in listed \/ (lock = freer /\ victim = c /\ pc[freer] \in {"drop", "join"})
        <5>1. Kept(c) => c \in listed
          BY <2>9, StillOnItsWay
        <5>2. SweptOut(c) => lock = freer /\ victim = c /\ pc[freer] \in {"drop", "join"}
          BY <2>9, StillOnItsWay
        <5> QED
          BY <4>1, <5>1, <5>2
      <4> QED
        BY <2>2, <2>9, <3>6, <4>2
    <3> QED
      BY <2>3, <2>9, <3>4, <3>5, <3>6
  <2>10. ASSUME NEW c \in Conn PROVE OnItsWay(c)'
    BY <2>7, <2>8, <2>9
  <2> HIDE DEF OnItsWay
  <2> QED
    BY <2>2, <2>4, <2>6, <2>10
<1>22. ASSUME NEW t \in Thread, CloseSwept(t) PROVE Releasing'
  BY <1>22 DEF CloseSwept, Destroy, Stopping
<1>23. ASSUME NEW t \in Thread, JoinEvents(t) PROVE Releasing'
  <2>1. pc[t] = "join" /\ Victim(t) \in Conn
    BY <1>23 DEF JoinEvents
  <2>2. UNCHANGED <<lock, listed, interrupter, victim, freer, freed>>
    BY <1>23 DEF JoinEvents
  <2>3. /\ plexer' = [plexer EXCEPT ![Victim(t)] = "none"]
        /\ \/ pc' = [pc EXCEPT ![t] = "drop"]
           \/ pc' = [pc EXCEPT ![t] = AfterDrop(t)]
    BY <1>23 DEF JoinEvents
  <2> SUFFICES ASSUME interrupter = Releaser PROVE Releasing'
    BY <2>2
  <2>4. freer \in Thread /\ (lock # None => lock = freer)
    OBVIOUS
  <2>5. AfterDrop(t) \notin {"enter", "joinAccept"}
    BY DEF AfterDrop
  <2>6. (pc'[freer] = "joinAccept" => pc[freer] = "joinAccept") /\ pc'[freer] # "enter"
    BY <2>1, <2>3, <2>4, <2>5
  <2>7. ASSUME NEW c \in Conn, c # Victim(t) PROVE OnItsWay(c)'
    <3>1. OnItsWay(c)
      OBVIOUS
    <3>2. plexer'[c] = plexer[c]
      BY <2>3, <2>7
    <3>3. lock = freer /\ victim = c => pc'[freer] = pc[freer]
      BY <2>1, <2>3, <2>4, <2>7 DEF Victim
    <3>4. c \notin Incoming /\ pc[Init_(c)] \in {"drop", "join"} =>
            pc'[Init_(c)] = pc[Init_(c)] \/ lock = Init_(c)
      BY <2>1, <2>3, <2>7 DEF Victim
    <3>5. lock = Init_(c) => freer = Init_(c) /\ ~freed
      OBVIOUS
    <3> QED
      BY <2>2, <3>1, <3>2, <3>3, <3>4, <3>5
  <2>8. ASSUME NEW c \in Conn PROVE OnItsWay(c)'
    <3>1. CASE c = Victim(t)
      BY <2>1, <2>3, <3>1
    <3> QED
      BY <2>7, <3>1
  <2> HIDE DEF OnItsWay
  <2> QED
    BY <2>2, <2>4, <2>6, <2>8
<1>24. ASSUME NEW t \in Thread, ReleaseSession(t) PROVE Releasing'
  BY <1>24 DEF ReleaseSession, GiveBackSession, AfterSession
<1>25. ASSUME NEW t \in Thread, FreeSession(t) PROVE Releasing'
  BY <1>25 DEF FreeSession, AfterSession
<1>26. CASE UNCHANGED vars
  BY <1>26 DEF vars
<1> QED
  BY <1>1, <1>2, <1>3, <1>4, <1>5, <1>6, <1>7, <1>8, <1>9, <1>10, <1>11, <1>12, <1>13,
     <1>14, <1>15, <1>16, <1>17, <1>18, <1>19, <1>20, <1>21, <1>22, <1>23, <1>24, <1>25, <1>26
  DEF Next, Environment, SetUp, Hear, Release

(* A session starts with a listener's reference or none, and no connection.   *)
LEMMA ReleaseInit == Init => ReleaseInv
<1> SUFFICES ASSUME Init PROVE ReleaseInv
  OBVIOUS
<1> USE ThreadsDiffer, NobodyIsNoThread
<1>1. SessionInv
  BY SessionInit
<1>2. /\ lock = None /\ listed = {} /\ victim = None /\ interrupter = None /\ freer = None
      /\ ~freed /\ op = "none"
      /\ refs = [c \in Conn |-> 0] /\ plexer = [c \in Conn |-> "none"]
      /\ hears = [c \in Conn |-> FALSE] /\ posted = [c \in Conn |-> FALSE]
      /\ pc = [t \in Thread |-> IF t = Acceptor /\ Incoming # {} THEN "accepting" ELSE "idle"]
  BY DEF Init
<1>3. \A t \in Thread : pc[t] \in {"idle", "accepting"} /\ (pc[t] # "idle" => t = Acceptor)
  BY <1>2
<1>4. \A c \in Conn : pc[Init_(c)] = "idle" /\ pc[Event(c)] = "idle"
  <2> TAKE c \in Conn
  <2>1. Init_(c) \in Thread /\ Event(c) \in Thread /\ Init_(c) # Acceptor /\ Event(c) # Acceptor
    BY DEF SettersUp, EventThreads
  <2> HIDE DEF Thread, Init_, Event, Acceptor
  <2> QED
    BY <1>3, <2>1
<1>5. Counts
  <2>1. srefs \in Int
    BY DEF Init
  <2>2. refs \in [Conn -> Int] /\ plexer \in [Conn -> Plexers]
    BY <1>2 DEF Plexers
  <2>3. hears \in [Conn -> BOOLEAN] /\ posted \in [Conn -> BOOLEAN]
    BY <1>2
  <2> QED
    BY <1>2, <1>4, <2>1, <2>2, <2>3 DEF Counts
<1>6. Fresh
  BY <1>2, <1>4 DEF Fresh, PreAdd
<1>7. Locked
  BY <1>2, <1>3, <1>4 DEF Locked
<1>8. Callback
  BY <1>2, <1>4 DEF Callback, TookOver, Running, Entering, Joined, PreAdd
<1>9. Counted
  <2> SUFFICES ASSUME NEW c \in Conn
               PROVE  ~SweptOut(c) /\ ~Kept(c) /\ ~SettingUp(c) /\ refs[c] = 0
    BY <1>2, <1>4 DEF Counted, One
  <2> QED
    BY <1>2, <1>4 DEF SweptOut, Kept, Calling, SettingUp
<1>10. SessionCounted
  <2>1. SessionHolders = IF Incoming = {} THEN {User} ELSE {User} \cup {Acceptor}
    BY <1>2, <1>3 DEF SessionHolders, HoldsSession, SettersUp, SetUpPlaces
  <2>2. IsFiniteSet({User}) /\ Cardinality({User}) = 1
    BY FS_Singleton
  <2>3. /\ IsFiniteSet({User} \cup {Acceptor})
        /\ Cardinality({User} \cup {Acceptor}) = 2
    <3>1. Acceptor \notin {User}
      OBVIOUS
    <3> HIDE DEF User, Acceptor
    <3>2. /\ IsFiniteSet({User} \cup {Acceptor})
          /\ Cardinality({User} \cup {Acceptor}) = Cardinality({User}) + 1
      BY <2>2, <3>1, FS_AddElement
    <3> QED
      BY <2>2, <3>2
  <2>4. srefs = IF Incoming = {} THEN 1 ELSE 2
    BY DEF Init
  <2> QED
    BY <1>2, <2>1, <2>2, <2>3, <2>4 DEF SessionCounted
<1>11. Freed
  BY <1>2 DEF Freed
<1>12. Releasing
  BY <1>2 DEF Releasing
<1>13. Typed
  <2>1. pc \in [Thread -> Places]
    BY <1>2 DEF Places, EventPlaces
  <2> QED
    BY <1>2, <2>1 DEF Typed, Init
<1> QED
  BY <1>13, <1>1, <1>5, <1>6, <1>7, <1>8, <1>9, <1>10, <1>11, <1>12 DEF ReleaseInv

(* Every step preserves every part of the invariant.                          *)
LEMMA ReleaseStep == ReleaseInv /\ [Next]_vars => ReleaseInv'
<1> SUFFICES ASSUME ReleaseInv, [Next]_vars PROVE ReleaseInv'
  OBVIOUS
<1>1. SessionInv'
  BY SessionStep DEF ReleaseInv
<1> QED
  BY <1>1, CountsStep, LockedStep, FreshStep, CallbackStep, CountedStep, SessionCountedStep,
     FreedStep, TypedStep, ReleasingStep DEF ReleaseInv

LEMMA ReleaseInvariant == Spec => []ReleaseInv
BY ReleaseInit, ReleaseStep, PTL DEF Spec

(* The set of holders has as many members as there are kinds of them.         *)
LEMMA HoldersCounted ==
  ASSUME NEW c \in Conn
  PROVE  Cardinality(Holders(c)) = One(SweptOut(c)) + One(Kept(c)) + One(SettingUp(c))
<1> DEFINE A == IF SweptOut(c) THEN {"sweep"} ELSE {}
           B == IF Kept(c) THEN A \cup {"dictionary"} ELSE A
           C == IF SettingUp(c) THEN B \cup {"setUp"} ELSE B
<1>1. Holders(c) = C
  BY DEF Holders
<1>2. IsFiniteSet(A) /\ Cardinality(A) = One(SweptOut(c)) /\ "dictionary" \notin A /\ "setUp" \notin A
  BY FS_EmptySet, FS_Singleton DEF One
<1>3. IsFiniteSet(B) /\ Cardinality(B) = One(SweptOut(c)) + One(Kept(c)) /\ "setUp" \notin B
  <2>1. CASE Kept(c)
    BY <1>2, <2>1, FS_AddElement DEF One
  <2>2. CASE ~Kept(c)
    BY <1>2, <2>2 DEF One
  <2> QED
    BY <2>1, <2>2
<1>4. Cardinality(C) = One(SweptOut(c)) + One(Kept(c)) + One(SettingUp(c))
  <2> HIDE DEF B
  <2>1. CASE SettingUp(c)
    BY <1>3, <2>1, FS_AddElement DEF One
  <2>2. CASE ~SettingUp(c)
    BY <1>3, <2>2 DEF One
  <2> QED
    BY <2>1, <2>2
<1> QED
  BY <1>1, <1>4

(* However many connections there are and whoever closes, loses or frees      *)
(* them, each reference to a connection has one holder, who gives it back     *)
(* once: the dictionary's is not given back both by a sweep and by the        *)
(* callback that took it over.                                                *)
THEOREM ReferencesCorrect == Spec => []RefsMatchHolders
<1>1. ReleaseInv => RefsMatchHolders
  BY HoldersCounted DEF ReleaseInv, Counted, RefsMatchHolders
<1> QED
  BY <1>1, ReleaseInvariant, PTL

(* The session is freed by whoever gives its last reference back, and then    *)
(* nobody has one; no callback runs on the memory of a connection, nor on     *)
(* that of a session whose release interrupted it first.                      *)
THEOREM CallbacksCorrect == Spec => []CallbacksOutlived
<1>1. ReleaseInv => EventsOutlived
  BY DEF ReleaseInv, Fresh, EventsOutlived
<1>2. ReleaseInv => SessionOutlived
  <2> SUFFICES ASSUME ReleaseInv, freed, interrupter = Releaser, NEW c \in Conn
               PROVE  \/ pc[Event(c)] = "idle" /\ ~posted[c]
                      \/ c \notin Incoming /\ pc[Init_(c)] \in {"drop", "join"}
    BY DEF SessionOutlived
  <2>1. listed = {} /\ lock = None /\ OnItsWay(c) /\ freer # None
    BY DEF ReleaseInv, Releasing, SessionCounted
  <2>2. plexer[c] = "none" \/ (c \notin Incoming /\ pc[Init_(c)] \in {"drop", "join"})
    BY <2>1 DEF OnItsWay, Leaving
  <2> QED
    BY <2>2 DEF ReleaseInv, Fresh
<1> QED
  BY <1>1, <1>2, ReleaseInvariant, PTL DEF CallbacksOutlived

(* Every reachable state of a session is well typed; no reference count of    *)
(* it or of a connection drops below zero.                                    *)
THEOREM SessionTypeCorrect == Spec => []TypeOK
<1>1. ReleaseInv => TypeOK
  <2> SUFFICES ASSUME ReleaseInv PROVE TypeOK
    OBVIOUS
  <2>1. refs \in [Conn -> Nat]
    <3>1. \A c \in Conn : refs[c] \in Nat
      BY DEF ReleaseInv, Counted, One
    <3> QED
      BY <3>1 DEF ReleaseInv, Counts
  <2>2. srefs \in Nat
    BY FS_CardinalityType DEF ReleaseInv, SessionCounted
  <2>3. told \in Nat /\ lock \in Thread \cup {None} /\ listed \subseteq Conn /\ victim \in Conn \cup {None}
    BY DEF ReleaseInv, SessionInv, Shape, Telling
  <2> QED
    BY <2>1, <2>2, <2>3
       DEF ReleaseInv, Counts, Typed, Places, EventPlaces, SetUpPlaces, TypeOK
<1> QED
  BY <1>1, ReleaseInvariant, PTL
=============================================================================
