------------------------------ MODULE Session -------------------------------
(***************************************************************************)
(* A session (src/src/YMSession.c) and its connections: connecting out,    *)
(* accepting, the dictionary of connections and the default one, closing,  *)
(* interruption, and the release of both.                                  *)
(*                                                                         *)
(* A connection (src/src/YMConnection.c) is its reference count and its    *)
(* plexer, and a plexer is what a session sees of it (module Plexer has    *)
(* the rest): a link that may fail, an event queue with one thread, and a  *)
(* stop that silences callbacks and waits for that queue.                  *)
(*                                                                         *)
(* Threads: the user's, the accept queue's, and per connection the one of  *)
(* the global queue that sets it up and the one of its event queue.        *)
(***************************************************************************)
EXTENDS Integers, FiniteSets

CONSTANTS
  Conn,        (* the connections that can be made                               *)
  Incoming,    (* those the peer opens; the user opens the others                *)
  UserOps,     (* what the user may do besides connecting, see the user actions  *)
  MaxFailures, (* bound: links that fail                                         *)
  None

User == <<"user", None>>
Acceptor == <<"accept", None>>
Init_(c) == <<"init", c>>
Event(c) == <<"event", c>>
(* Whichever thread interrupts a session as it frees it.                      *)
Releaser == <<"free", None>>
Thread == {User, Acceptor} \cup {Init_(c) : c \in Conn} \cup {Event(c) : c \in Conn}

ASSUME SessionAssumption ==
  /\ IsFiniteSet(Conn) /\ Incoming \subseteq Conn
  /\ UserOps \subseteq {"stopAdvertising", "closeAll", "stop", "release"}
  /\ MaxFailures \in Nat
  /\ None \notin Conn \cup Thread \cup {Releaser}

VARIABLES
  lock,        (* who holds the session's self lock                              *)
  listed,      (* connectionsByAddress                                           *)
  default,     (* defaultConnection                                              *)
  interrupter, (* the thread that set the interrupted flag, None before          *)
  acceptExit,  (* acceptExitFlag                                                 *)
  srefs,       (* the session's reference count                                  *)
  freer,       (* the thread that runs _YMSessionFree                            *)
  freed,       (* the session's memory has been given back                       *)
  aborted,     (* an assertion failed and ended the process                      *)
  refs,        (* the connections' reference counts                              *)
  plexer,      (* their plexers: see Plexers                                     *)
  hears,       (* interruptedFunc of the connection is set                       *)
  posted,      (* its event queue has notify_interrupted waiting                 *)
  saved,       (* its event thread's savedDefault was this connection            *)
  pc,          (* where each thread is                                           *)
  victim,      (* the connection the holder of the lock is giving back           *)
  op,          (* what the user called last                                      *)
  told,        (* calls of the user's interruptedFunc                            *)
  failed       (* links that have failed                                         *)

session == <<lock, listed, default, interrupter, srefs, freer, freed, aborted>>
connection == <<refs, plexer, hears, posted, saved>>
vars == <<session, acceptExit, connection, pc, victim, op, told, failed>>

(* "none": not made yet or destroyed; "cut": interrupted by a failure;        *)
(* "stopped": YMPlexerStop has cleared the callbacks.                         *)
Plexers == {"none", "up", "cut", "stopped"}
Interrupted == interrupter # None

TypeOK ==
  /\ lock \in Thread \cup {None} /\ interrupter \in Thread \cup {Releaser, None}
  /\ freer \in Thread \cup {None}
  /\ listed \subseteq Conn /\ default \in Conn \cup {None} /\ failed \subseteq Conn
  /\ acceptExit \in BOOLEAN /\ freed \in BOOLEAN /\ aborted \in BOOLEAN
  /\ srefs \in Nat /\ told \in Nat
  /\ refs \in [Conn -> Nat] /\ plexer \in [Conn -> Plexers]
  /\ hears \in [Conn -> BOOLEAN] /\ posted \in [Conn -> BOOLEAN]
  /\ saved \in [Conn -> BOOLEAN]
  /\ pc \in [Thread -> {"idle", "accepting", "connect", "initialise", "add",
                        "callbacks", "setDefault", "announce",
                        "stream", "enter", "sweep", "close", "drop", 
                        "join", "tell", "releaseSession", "joinAccept", "done"}]
  /\ victim \in Conn \cup {None}
  /\ op \in {"none", "closeAll", "stop", "release"}

(* Advertising: listen_proc has retained the session for the accept loop.     *)
Init ==
  /\ lock = None /\ listed = {} /\ default = None /\ interrupter = None
  /\ acceptExit = FALSE /\ freer = None /\ freed = FALSE /\ aborted = FALSE
  /\ srefs = IF Incoming = {} THEN 1 ELSE 2
  /\ refs = [c \in Conn |-> 0] /\ plexer = [c \in Conn |-> "none"]
  /\ hears = [c \in Conn |-> FALSE] /\ posted = [c \in Conn |-> FALSE]
  /\ saved = [c \in Conn |-> FALSE]
  /\ pc = [t \in Thread |-> IF t = Acceptor /\ Incoming # {} THEN "accepting" ELSE "idle"]
  /\ victim = None
  /\ op = "none" /\ told = 0 /\ failed = {}

At(t, place) == ~aborted /\ pc[t] = place
Go(t, place) == pc' = [pc EXCEPT ![t] = place]

(* A thread that set a connection up gives it and the session back, a         *)
(* connection the user opened after the session, an accepted one before.      *)
Leave(c) == IF c \in Incoming THEN "drop" ELSE "releaseSession"
SettersUp == {Init_(c) : c \in Conn}
AfterSession(t) ==
  IF t = User THEN "idle"
  ELSE IF t \in SettersUp /\ t[2] \notin Incoming THEN "drop"
  ELSE "done"

(* YMRelease(session): the last one runs _YMSessionFree, which interrupts it. *)
GiveBackSession(t) ==
  /\ srefs' = srefs - 1
  /\ IF srefs = 1
     THEN freer' = t /\ Go(t, "enter")
     ELSE Go(t, AfterSession(t)) /\ UNCHANGED freer

-----------------------------------------------------------------------------
(* The user's calls.  The user makes one at a time and none after releasing.  *)

UserReady == At(User, "idle") /\ op # "release"

(* YMSessionConnectToPeer, asynchronous, for an address not yet tried: a look  *)
(* at the known peers under the lock, then the context's references to the     *)
(* session and the new connection (the caller's own, given back in the same    *)
(* call, is folded into the latter).  l.381 compares the address with itself,  *)
(* so that any listed connection counts as one to it and nothing is done.      *)
(* Bound: before the user closes anything.                                     *)
ConnectToPeer(c) ==
  /\ UserReady /\ lock = None
  /\ At(Init_(c), "idle") /\ c \notin Incoming /\ op = "none"
  /\ listed = {}
  /\ srefs' = srefs + 1
  /\ refs' = [refs EXCEPT ![c] = 1]
  /\ Go(Init_(c), "connect")
  /\ UNCHANGED <<lock, listed, default, interrupter, freer, freed, aborted, acceptExit,
                 plexer, hears, posted, saved, victim, op, told, failed>>

StopAdvertising ==
  /\ UserReady /\ "stopAdvertising" \in UserOps /\ ~acceptExit
  /\ acceptExit' = TRUE
  /\ UNCHANGED <<session, connection, pc, victim, op, told, failed>>

(* YMSessionCloseAllConnections, YMSessionStop: wait for the self lock.       *)
(* Bound: one of them, once.                                                  *)
Close(how) ==
  /\ UserReady /\ how \in UserOps \cap {"closeAll", "stop"} /\ op = "none"
  /\ op' = how
  /\ Go(User, "enter")
  /\ UNCHANGED <<session, acceptExit, connection, victim, told, failed>>

ReleaseByUser ==
  /\ UserReady /\ "release" \in UserOps
  /\ op' = "release"
  /\ GiveBackSession(User)
  /\ UNCHANGED <<lock, listed, default, interrupter, freed, aborted, acceptExit, connection,
                 victim, told, failed>>

-----------------------------------------------------------------------------
(* Setting connections up.                                                    *)

(* Mutant: the context does not retain the session.                           *)
AcceptWithoutRetaining(c) ==
  /\ At(Acceptor, "accepting") /\ c \in Incoming /\ At(Init_(c), "idle")
  /\ pc' = [pc EXCEPT ![Init_(c)] = "initialise",
                      ![Acceptor] = IF acceptExit THEN "releaseSession" ELSE "accepting"]
  /\ UNCHANGED <<session, acceptExit, connection, victim, op, told, failed>>

(* __ym_session_accept_proc: accept returns a connection.                     *)
Accept(c) ==
  /\ At(Acceptor, "accepting") /\ c \in Incoming /\ At(Init_(c), "idle")
  /\ srefs' = srefs + 1
  /\ pc' = [pc EXCEPT ![Init_(c)] = "initialise",
                      ![Acceptor] = IF acceptExit THEN "releaseSession" ELSE "accepting"]
  /\ UNCHANGED <<lock, listed, default, interrupter, freer, freed, aborted, acceptExit,
                 connection, victim, op, told, failed>>

(* accept fails once StopAdvertising has closed the socket.  (Whether a       *)
(* blocked accept notices depends on the platform, so nothing relies on it.)  *)
AcceptFails ==
  /\ At(Acceptor, "accepting") /\ acceptExit
  /\ Go(Acceptor, "releaseSession")
  /\ UNCHANGED <<session, acceptExit, connection, victim, op, told, failed>>

(* YMConnectionConnect and the look at the interrupted flag after it.         *)
Connect(c) ==
  /\ At(Init_(c), "connect")
  /\ \E okay \in BOOLEAN :
       Go(Init_(c), IF okay /\ ~Interrupted THEN "initialise" ELSE Leave(c))
  /\ UNCHANGED <<session, acceptExit, connection, victim, op, told, failed>>

(* YMConnectionInit, or shouldAcceptFunc and YMConnectionCreateIncoming, start *)
(* the plexer or fail; only a connection the user opened looks at the          *)
(* interrupted flag again.                                                     *)
Initialise(c) ==
  /\ At(Init_(c), "initialise")
  /\ \E okay \in BOOLEAN :
       /\ plexer' = [plexer EXCEPT ![c] = IF okay THEN "up" ELSE "none"]
       /\ IF c \in Incoming
          THEN /\ refs' = [refs EXCEPT ![c] = IF okay THEN 1 ELSE 0]
               /\ Go(Init_(c), IF okay THEN "add" ELSE "releaseSession")
          ELSE /\ Go(Init_(c), IF okay /\ ~Interrupted THEN "add" ELSE Leave(c))
               /\ UNCHANGED refs
  /\ UNCHANGED <<session, acceptExit, hears, posted, saved, victim, op, told, failed>>

(* Mutant: the connection is not put into the dictionary.                     *)
AddUnlisted(c) ==
  /\ At(Init_(c), "add") /\ lock = None
  /\ refs' = [refs EXCEPT ![c] = @ + 1]
  /\ Go(Init_(c), "callbacks")
  /\ UNCHANGED <<session, acceptExit, plexer, hears, posted, saved, victim, op, told, failed>>

(* __YMSessionAddConnection: the dictionary under the lock, the rest not.     *)
AddConnection(c) ==
  /\ At(Init_(c), "add") /\ lock = None
  /\ listed' = listed \cup {c}
  /\ refs' = [refs EXCEPT ![c] = @ + 1]
  /\ Go(Init_(c), "callbacks")
  /\ UNCHANGED <<lock, default, interrupter, srefs, freer, freed, aborted, acceptExit,
                 plexer, hears, posted, saved, victim, op, told, failed>>

(* The callbacks are set and the default is read ...                          *)
SetCallbacks(c) ==
  /\ At(Init_(c), "callbacks")
  /\ hears' = [hears EXCEPT ![c] = TRUE]
  /\ Go(Init_(c), IF default = None THEN "setDefault" ELSE "announce")
  /\ UNCHANGED <<session, acceptExit, refs, plexer, posted, saved, victim, op, told, failed>>

(* ... and written in another step.                                           *)
SetDefault(c) ==
  /\ At(Init_(c), "setDefault")
  /\ default' = c
  /\ Go(Init_(c), "announce")
  /\ UNCHANGED <<lock, listed, interrupter, srefs, freer, freed, aborted, acceptExit,
                 connection, victim, op, told, failed>>

(* The assertion at the end of AddConnection, for an incoming connection once *)
(* more in its caller, and connectedFunc.                                     *)
Announce(c) ==
  /\ At(Init_(c), "announce")
  /\ aborted' = (default = None)
  /\ Go(Init_(c), Leave(c))
  /\ UNCHANGED <<lock, listed, default, interrupter, srefs, freer, freed, acceptExit,
                 connection, victim, op, told, failed>>

-----------------------------------------------------------------------------
(* The event queue of a connection.                                           *)

(* The plexer finds its link dead, interrupts itself and posts the event.     *)
FailLink(c) ==
  /\ ~aborted /\ plexer[c] = "up" /\ Cardinality(failed) < MaxFailures
  /\ failed' = failed \cup {c}
  /\ plexer' = [plexer EXCEPT ![c] = "cut"]
  /\ posted' = [posted EXCEPT ![c] = TRUE]
  /\ UNCHANGED <<session, acceptExit, refs, hears, saved, pc, victim, op, told>>

(* A stream opened or closed by the peer is handed to the user with the       *)
(* session, which the callback does not retain.                               *)
HearStream(c) ==
  /\ At(Event(c), "idle") /\ plexer[c] = "up" /\ hears[c]
  /\ Go(Event(c), "stream")
  /\ UNCHANGED <<session, acceptExit, connection, victim, op, told, failed>>

StreamHeard(c) ==
  /\ At(Event(c), "stream")
  /\ Go(Event(c), "idle")
  /\ UNCHANGED <<session, acceptExit, connection, victim, op, told, failed>>

(* __ym_plexer_notify_interrupted reaches the session if nobody stopped the   *)
(* plexer and the callbacks are set; it reads the default without the lock.   *)
HearInterrupted(c) ==
  /\ At(Event(c), "idle") /\ posted[c]
  /\ posted' = [posted EXCEPT ![c] = FALSE]
  /\ IF plexer[c] = "cut" /\ hears[c]
     THEN /\ saved' = [saved EXCEPT ![c] = (default = c)]
          /\ Go(Event(c), "enter")
     ELSE UNCHANGED <<saved, pc>>
  /\ UNCHANGED <<session, acceptExit, refs, plexer, hears, victim, op, told, failed>>

(* Its second critical section finds nothing listed; then interruptedFunc,    *)
(* which _YMSessionFree clears, and YMRelease(connection).                    *)
Tell(c) ==
  /\ At(Event(c), "tell") /\ lock = None
  /\ listed' = listed \ {c}
  /\ told' = IF saved[c] /\ freer = None THEN told + 1 ELSE told
  /\ Go(Event(c), "drop")
  /\ UNCHANGED <<lock, default, interrupter, srefs, freer, freed, aborted, acceptExit,
                 connection, victim, op, failed>>

-----------------------------------------------------------------------------
(* __YMSessionInterrupt, YMSessionStop, and the release of connections and of *)
(* the session, by whichever thread.                                          *)

Stopping(t) == t = User /\ op = "stop"

(* Mutant: the sweep gives every listed connection's reference back.          *)
FloatsNever(t, c) == t = c

(* A connection that interrupts itself keeps the dictionary's reference.      *)
Floats(t, c) == t = Event(c)

AfterSweep(t) ==
  IF freer = t THEN "joinAccept"
  ELSE IF interrupter = t /\ t \in {Event(c) : c \in Conn} THEN "tell"
  ELSE "idle"

(* Mutant: the interrupted flag is not looked at.                             *)
EnterAgain(t) ==
  /\ At(t, "enter") /\ lock = None
  /\ lock' = t
  /\ Go(t, "sweep")
  /\ IF Stopping(t)
     THEN UNCHANGED <<interrupter, default>>
     ELSE default' = None /\ interrupter' = IF freer = t THEN Releaser ELSE t
  /\ UNCHANGED <<listed, srefs, freer, freed, aborted, acceptExit, connection, victim, op,
                 told, failed>>

(* Both take the self lock; what follows runs under it.                       *)
Enter(t) ==
  /\ At(t, "enter") /\ lock = None
  /\ IF Stopping(t)
     THEN /\ lock' = t
          /\ Go(t, "sweep")
          /\ UNCHANGED <<interrupter, default>>
     ELSE IF Interrupted
     THEN /\ Go(t, IF freer = t THEN "joinAccept" ELSE "idle")
          /\ UNCHANGED <<lock, interrupter, default>>
     ELSE /\ lock' = t /\ default' = None
          /\ interrupter' = IF freer = t THEN Releaser ELSE t
          /\ Go(t, "sweep")
  /\ UNCHANGED <<listed, srefs, freer, freed, aborted, acceptExit, connection, victim, op,
                 told, failed>>

(* Take a connection out of the dictionary and give its reference back.       *)
Sweep(t) ==
  /\ At(t, "sweep")
  /\ \E c \in listed :
       /\ listed' = listed \ {c}
       /\ IF Floats(t, c)
          THEN UNCHANGED <<victim, pc>>
          ELSE /\ victim' = c
               /\ Go(t, IF Stopping(t) THEN "close" ELSE "drop")
  /\ UNCHANGED <<lock, default, interrupter, srefs, freer, freed, aborted, acceptExit,
                 connection, op, told, failed>>

Swept(t) ==
  /\ At(t, "sweep") /\ listed = {}
  /\ lock' = None /\ victim' = None
  /\ Go(t, AfterSweep(t))
  /\ UNCHANGED <<listed, default, interrupter, srefs, freer, freed, aborted, acceptExit,
                 connection, op, told, failed>>

(* A thread gives back what it swept under the lock, or its own connection.   *)
Victim(t) == IF lock = t THEN victim ELSE t[2]

AfterDrop(t) ==
  IF lock = t THEN "sweep"
  ELSE IF t \notin SettersUp THEN "idle"
  ELSE IF t[2] \in Incoming THEN "releaseSession"
  ELSE "done"

(* __YMConnectionDestroy stops the plexer, which clears its callbacks and      *)
(* interrupts it ...                                                           *)
Destroy(t, c, next) ==
  IF plexer[c] = "none"
  THEN Go(t, next) /\ UNCHANGED plexer
  ELSE Go(t, "join") /\ plexer' = [plexer EXCEPT ![c] = "stopped"]

(* YMRelease(connection): the last one runs _YMConnectionFree, which clears    *)
(* the connection's callbacks and destroys it.                                 *)
Drop(t) ==
  /\ At(t, "drop")
  /\ LET c == Victim(t) IN
       /\ refs' = [refs EXCEPT ![c] = @ - 1]
       /\ IF refs[c] = 1
          THEN Destroy(t, c, AfterDrop(t)) /\ hears' = [hears EXCEPT ![c] = FALSE]
          ELSE Go(t, AfterDrop(t)) /\ UNCHANGED <<plexer, hears>>
  /\ UNCHANGED <<session, acceptExit, posted, saved, victim, op, told, failed>>

(* YMConnectionClose, by YMSessionStop before it gives the reference back.     *)
CloseSwept(t) ==
  /\ At(t, "close")
  /\ Destroy(t, Victim(t), "drop")
  /\ UNCHANGED <<session, acceptExit, refs, hears, posted, saved, victim, op, told, failed>>

(* Mutant: the event queue is not joined.                                     *)
DoNotJoinEvents(t) ==
  /\ At(t, "join")
  /\ plexer' = [plexer EXCEPT ![Victim(t)] = "none"]
  /\ Go(t, IF refs[Victim(t)] = 0 THEN AfterDrop(t) ELSE "drop")
  /\ UNCHANGED <<session, acceptExit, refs, hears, posted, saved, victim, op, told, failed>>

(* ... and joins its event queue: whoever is on that queue waits for itself.  *)
JoinEvents(t) ==
  /\ At(t, "join")
  /\ LET c == Victim(t) IN
       /\ pc[Event(c)] = "idle" /\ ~posted[c]
       /\ plexer' = [plexer EXCEPT ![c] = "none"]
  /\ Go(t, IF refs[Victim(t)] = 0 THEN AfterDrop(t) ELSE "drop")
  /\ UNCHANGED <<session, acceptExit, refs, hears, posted, saved, victim, op, told, failed>>

ReleaseSession(t) ==
  /\ At(t, "releaseSession")
  /\ GiveBackSession(t)
  /\ UNCHANGED <<lock, listed, default, interrupter, freed, aborted, acceptExit, connection,
                 victim, op, told, failed>>

(* The end of _YMSessionFree, after it joined the accept queue.               *)
FreeSession(t) ==
  /\ At(t, "joinAccept") /\ pc[Acceptor] \in {"idle", "done"}
  /\ freed' = TRUE
  /\ Go(t, AfterSession(t))
  /\ UNCHANGED <<lock, listed, default, interrupter, srefs, freer, aborted, acceptExit,
                 connection, victim, op, told, failed>>

Release(t) ==
  \/ Enter(t) \/ Sweep(t) \/ Swept(t) \/ Drop(t) \/ CloseSwept(t) \/ JoinEvents(t)
  \/ ReleaseSession(t) \/ FreeSession(t)

SetUp(c) ==
  \/ Connect(c) \/ Initialise(c) \/ AddConnection(c) \/ SetCallbacks(c)
  \/ SetDefault(c) \/ Announce(c)

Hear(c) == StreamHeard(c) \/ HearInterrupted(c) \/ Tell(c)

(* What the user, the peer and the network may do or leave.                   *)
Environment ==
  \/ StopAdvertising \/ ReleaseByUser \/ AcceptFails
  \/ \E how \in UserOps : Close(how)
  \/ \E c \in Conn : ConnectToPeer(c) \/ Accept(c) \/ FailLink(c) \/ HearStream(c)

Next ==
  \/ Environment
  \/ \E c \in Conn : SetUp(c) \/ Hear(c)
  \/ \E t \in Thread : Release(t)

Spec == Init /\ [][Next]_vars

(* Every thread that can go on does: the operating system schedules them all. *)
Fairness ==
  /\ \A c \in Conn : WF_vars(SetUp(c)) /\ WF_vars(Hear(c))
  /\ \A t \in Thread : WF_vars(Release(t))

FairSpec == Spec /\ Fairness

-----------------------------------------------------------------------------
(* Who will still give back a reference to c: the thread that swept it; the   *)
(* dictionary, or the callback that took its reference over; the thread that   *)
(* set it up.                                                                  *)
SweptOut(c) ==
  /\ lock # None /\ victim = c
  /\ pc[lock] \in {"close", "drop"} \/ (pc[lock] = "join" /\ refs[c] > 0)

Calling(c) == pc[Event(c)] \in {"sweep", "tell"} \/ lock = Event(c)
Kept(c) == c \in listed \/ Calling(c) \/ pc[Event(c)] = "drop"

SettingUp(c) ==
  LET t == Init_(c) IN
    IF c \in Incoming
    THEN pc[t] \in {"add", "callbacks", "setDefault", "announce", "drop"} /\ lock # t
    ELSE pc[t] \notin {"idle", "done"} /\ ~(pc[t] = "join" /\ lock # t)

Holders(c) ==
  {h \in {"sweep", "dictionary", "setUp"} :
     \/ h = "sweep" /\ SweptOut(c)
     \/ h = "dictionary" /\ Kept(c)
     \/ h = "setUp" /\ SettingUp(c)}

(* References to a connection match who will give one back: none is given     *)
(* back twice, by a sweep and a callback, and none is forgotten.              *)
RefsMatchHolders == \A c \in Conn : refs[c] = Cardinality(Holders(c))

(* The user hears of an interruption once, however many links fail.           *)
InterruptedOnce == told <= 1

(* The default connection is one the session holds a reference to, until an   *)
(* interruption or a call of the user's (YMSessionStop leaves it dangling);   *)
(* and the assertions that an added connection leaves a default one (l.681,   *)
(* 760) fail only in the course of an interruption, which resets it.          *)
DefaultIsListed ==
  /\ (~Interrupted /\ op = "none" /\ default # None) => default \in listed
  /\ aborted => Interrupted

(* No callback runs on freed memory.  A connection's plexer, gone with the    *)
(* connection, has no event under way: every last release waits for them ...  *)
EventsOutlived == \A c \in Conn : pc[Event(c)] # "idle" => plexer[c] # "none"

(* ... and a release that is the first to interrupt the session leaves nobody *)
(* who will call back with it, except for a connection of the user's whose    *)
(* thread released the session, but not the connection yet (l.465).           *)
SessionOutlived ==
  (freed /\ interrupter = Releaser) =>
    \A c \in Conn :
      \/ pc[Event(c)] = "idle" /\ ~posted[c]
      \/ c \notin Incoming /\ pc[Init_(c)] \in {"drop", "join"}

CallbacksOutlived == EventsOutlived /\ SessionOutlived

(* The user is told when the callback of the default connection is the first   *)
(* to hear of an interruption, unless the user is closing the session.         *)
InterruptionTold ==
  \A c \in Conn :
    (pc[Event(c)] = "enter" /\ saved[c] /\ ~Interrupted)
      ~> (told = 1 \/ op # "none" \/ aborted)
=============================================================================
