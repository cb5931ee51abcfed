------------------------------ MODULE HubProofs ------------------------------
(***************************************************************************)
(* Proofs about Hub, for any number of profiles, identities, connections   *)
(* and configurations.                                                     *)
(***************************************************************************)
EXTENDS Hub, TLAPS

USE HubAssumption

\* Every state of the hub is well typed; in particular a channel never holds
\* more than its capacity and only started profiles run, stop or are visited.
THEOREM TypeCorrect == Spec => []TypeOK
<1>1. Init => TypeOK
  <2> SUFFICES ASSUME Init PROVE TypeOK
      OBVIOUS
  <2>1. queued \in [Profile -> 0..ChannelBuf]
      BY DEF Init
  <2>2. at \in [Conn -> Stages]
      BY DEF Init, Stages
  <2> QED
      BY <2>1, <2>2 DEF Init, TypeOK
<1>2. TypeOK /\ [Next]_vars => TypeOK'
  <2> SUFFICES ASSUME TypeOK, [Next]_vars PROVE TypeOK'
      OBVIOUS
  <2> USE DEF TypeOK, tableVars, connVars, mediatorVars, shutdownVars
  <2>1. ASSUME NEW cfg \in Configs, Reload(cfg) PROVE TypeOK'
      BY <2>1 DEF Reload
  <2>2. ASSUME NEW c \in Conn, Admission(c) PROVE TypeOK'
    <3>1. CASE Upgrade(c)
        BY <3>1 DEF Upgrade, GoesTo, Stages
    <3>2. CASE Reject(c)
        BY <3>2 DEF Reject, GoesTo, Stages
    <3>3. CASE GetOrStartProfile(c)
      <4>1. at' \in [Conn -> Stages]
          BY <3>3 DEF GetOrStartProfile, GoesTo, Stages
      <4>2. profileOf[c] \in Profile /\ (profileOf[c] \in DOMAIN store => store[profileOf[c]] \in SUBSET Identity)
          OBVIOUS
      <4> QED
          BY <3>3, <4>1, <4>2 DEF GetOrStartProfile
    <3>4. CASE Install(c)
      <4>1. at' \in [Conn -> Stages]
          BY <3>4 DEF Install, GoesTo, Stages
      <4>2. Entry(c) \in Conn \cup {NoConn}
          BY DEF Entry
      <4>3. sessions' \in [Profile -> [Identity -> Conn \cup {NoConn}]]
          BY <3>4 DEF Install
      <4> QED
          BY <3>4, <4>1, <4>2, <4>3 DEF Install
    <3> QED
        BY <2>2, <3>1, <3>2, <3>3, <3>4 DEF Admission, RefuseHello, RefuseRegister, RefuseCN
  <2>3. ASSUME NEW c \in Conn, Served(c) PROVE TypeOK'
    <3>1. CASE CloseDisplaced(c)
        BY <3>1 DEF CloseDisplaced
    <3>2. CASE Drop(c)
        BY <3>2 DEF Drop
    <3>3. CASE Receive(c)
        BY <3>3 DEF Receive, GoesTo, Stages
    <3>4. ASSUME Enqueue(profileOf[c]) PROVE queued' \in [Profile -> 0..ChannelBuf]
        BY <3>4 DEF Enqueue
    <3>5. CASE Hand(c)
        BY <3>4, <3>5 DEF Hand, GoesTo, Stages
    <3>6. CASE Unregister(c)
      <4>1. at' \in [Conn -> Stages]
          BY <3>6 DEF Unregister, GoesTo, Stages
      <4>2. sessions' \in [Profile -> [Identity -> Conn \cup {NoConn}]]
        <5>1. CASE Entry(c) = c
          <6>1. sessions' = [sessions EXCEPT ![profileOf[c]][identityOf[c]] = NoConn]
              BY <3>6, <5>1 DEF Unregister
          <6>2. profileOf[c] \in Profile /\ identityOf[c] \in Identity
              OBVIOUS
          <6> HIDE HubAssumption
          <6> QED
              BY <6>1, <6>2
        <5>2. CASE Entry(c) # c
            BY <3>6, <5>2 DEF Unregister
        <5> QED
            BY <5>1, <5>2
      <4> QED
          BY <3>6, <4>1, <4>2 DEF Unregister
    <3>7. CASE NotifyDisconnect(c)
        BY <3>4, <3>7 DEF NotifyDisconnect, GoesTo, Stages
    <3> QED
        BY <2>3, <3>1, <3>2, <3>3, <3>5, <3>6, <3>7 DEF Served
  <2>4. ASSUME NEW p \in Profile, Take(p) \/ Exit(p) PROVE TypeOK'
      BY <2>4 DEF Take, Exit
  <2>5. CASE Shutdown
    <3>1. CASE ShutdownBegin
        BY <3>1 DEF ShutdownBegin
    <3>2. ASSUME NEW p \in Profile, ListSessions(p) PROVE TypeOK'
      <4>1. closing' \subseteq Conn
          BY <3>2 DEF ListSessions
      <4> QED
          BY <3>2, <4>1 DEF ListSessions
    <3>3. ASSUME NEW c \in Conn, CloseListed(c) PROVE TypeOK'
        BY <3>3 DEF CloseListed
    <3>4. CASE Stop
        BY <3>4 DEF Stop
    <3> QED
        BY <2>5, <3>1, <3>2, <3>3, <3>4 DEF Shutdown
  <2>6. CASE UNCHANGED vars
      BY <2>6 DEF vars
  <2> QED
      BY <2>1, <2>2, <2>3, <2>4, <2>5, <2>6 DEF Next
<1> QED
    BY <1>1, <1>2, PTL DEF Spec

-----------------------------------------------------------------------------
(***************************************************************************)
(* Shutdown: what is started and not stopped yet is still on its list.     *)
(***************************************************************************)
StopInv ==
    /\ shuttingDown => started \subseteq stopped \cup sweep \cup {visiting}
    /\ ~ shuttingDown => sweep = {} /\ visiting = NoProfile

LEMMA StopInvHolds == Spec => []StopInv
<1>1. Init => StopInv
    BY DEF Init, StopInv
<1>2. TypeOK /\ StopInv /\ [Next]_vars => StopInv'
  <2> SUFFICES ASSUME TypeOK, StopInv, [Next]_vars PROVE StopInv'
      OBVIOUS
  <2> USE DEF StopInv
  <2>1. CASE started' = started /\ stopped' = stopped /\ UNCHANGED shutdownVars
      BY <2>1 DEF shutdownVars
  <2>2. ASSUME NEW c \in Conn, Admission(c) PROVE StopInv'
    <3>1. CASE GetOrStartProfile(c)
        BY <3>1 DEF GetOrStartProfile, shutdownVars
    <3> QED
        BY <2>1, <2>2, <3>1 DEF Admission, Upgrade, RefuseHello, RefuseRegister, RefuseCN,
               Reject, Install, tableVars, mediatorVars
  <2>3. ASSUME NEW c \in Conn, Served(c) PROVE StopInv'
      BY <2>1, <2>3 DEF Served, CloseDisplaced, Drop, Receive, Hand, Unregister,
             NotifyDisconnect, tableVars, mediatorVars
  <2>4. ASSUME NEW p \in Profile, Take(p) \/ Exit(p) PROVE StopInv'
      BY <2>1, <2>4 DEF Take, Exit, tableVars
  <2>5. CASE Shutdown
    <3>1. CASE ShutdownBegin
        BY <3>1 DEF ShutdownBegin, tableVars, mediatorVars
    <3>2. ASSUME NEW p \in Profile, ListSessions(p) PROVE StopInv'
      <4>1. shuttingDown
          BY <3>2 DEF ListSessions
      <4>2. NoProfile \notin started
          BY DEF TypeOK
      <4>3. started \subseteq stopped \cup sweep
          BY <3>2, <4>1, <4>2 DEF ListSessions
      <4> QED
          BY <3>2, <4>1, <4>3 DEF ListSessions, tableVars, mediatorVars
    <3>3. ASSUME NEW c \in Conn, CloseListed(c) PROVE StopInv'
        BY <3>3 DEF CloseListed, tableVars, mediatorVars
    <3>4. CASE Stop
        BY <3>4 DEF Stop, tableVars
    <3> QED
        BY <2>5, <3>1, <3>2, <3>3, <3>4 DEF Shutdown
  <2>6. ASSUME NEW cfg \in Configs, Reload(cfg) PROVE StopInv'
      BY <2>1, <2>6 DEF Reload, tableVars, mediatorVars
  <2>7. CASE UNCHANGED vars
      BY <2>1, <2>7 DEF vars, tableVars, mediatorVars
  <2> QED
      BY <2>2, <2>3, <2>4, <2>5, <2>6, <2>7 DEF Next
<1> QED
    BY <1>1, <1>2, TypeCorrect, PTL DEF Spec

\* Shutdown stops every mediator that was ever started: Register cannot start
\* one once the list has been taken, because the flag is set and the list is
\* taken in one critical section of h.mu.
THEOREM AllStoppedHolds == Spec => []AllStopped
<1>1. TypeOK /\ StopInv => AllStopped
  <2> SUFFICES ASSUME TypeOK, StopInv, Returned PROVE started \subseteq stopped
      BY DEF AllStopped
  <2>1. NoProfile \notin started
      BY DEF TypeOK
  <2> QED
      BY <2>1 DEF Returned, StopInv
<1> QED
    BY <1>1, StopInvHolds, TypeCorrect, PTL

-----------------------------------------------------------------------------
(***************************************************************************)
(* The session table.                                                      *)
(***************************************************************************)

\* A step that neither opens, serves nor files anything keeps the table exact.
LEMMA TableKept ==
    ASSUME TypeOK, TableExact,
           sessions' = sessions,
           \A c \in Conn : at[c] \in {"reading", "handing"} <=> at'[c] \in {"reading", "handing"},
           \A c \in Conn : at'[c] \in {"reading", "handing"} /\ c \in open' \ displaced'
                              => c \in open \ displaced
    PROVE  TableExact'
<1>1. \A c \in Conn : Entry(c)' = Entry(c)
    BY DEF Entry
<1>2. \A p \in Profile, i \in Identity : sessions[p][i] \in Conn \cup {NoConn}
    BY DEF TypeOK
<1> QED
    BY <1>1, <1>2 DEF TableExact

\* Displacement is exact in every interleaving of Register, Unregister, the
\* closing goroutine and Shutdown: a connection that is served, open and not
\* being displaced is the one the table names, and the table names no other.
THEOREM TableExactHolds == Spec => []TableExact
<1>1. Init => TableExact
    BY DEF Init, TableExact
<1>2. TypeOK /\ TableExact /\ [Next]_vars => TableExact'
  <2> SUFFICES ASSUME TypeOK, TableExact, [Next]_vars PROVE TableExact'
      OBVIOUS
  <2>at. at \in [Conn -> Stages]
      BY DEF TypeOK
  <2>quiet. ASSUME sessions' = sessions, at' = at, open' \subseteq open, displaced' = displaced
            PROVE  TableExact'
      BY <2>quiet, TableKept
  <2>1. ASSUME NEW c \in Conn, Admission(c) PROVE TableExact'
    <3>1. CASE Upgrade(c)
        BY <3>1, <2>at, TableKept DEF Upgrade, GoesTo, tableVars
    <3>2. CASE Reject(c) /\ at[c] \in {"hello", "resolved"}
        BY <3>2, <2>at, TableKept DEF Reject, GoesTo, tableVars
    <3>3. CASE GetOrStartProfile(c)
        BY <3>3, <2>at, TableKept DEF GetOrStartProfile, GoesTo
    <3>4. CASE Install(c)
      <4> DEFINE pc == profileOf[c]
                 ic == identityOf[c]
      <4>1. pc \in Profile /\ ic \in Identity
          OBVIOUS
      <4>2. sessions'[pc][ic] = c
          BY <3>4, <4>1 DEF Install, TypeOK
      <4>3. \A p \in Profile, i \in Identity :
               (p # pc \/ i # ic) => sessions'[p][i] = sessions[p][i]
          BY <3>4, <4>1 DEF Install, TypeOK
      <4>4. /\ at[c] = "resolved" /\ at'[c] = "reading"
            /\ \A d \in Conn : d # c => at'[d] = at[d]
          BY <3>4, <2>at DEF Install, GoesTo
      <4>5. open' = open /\ displaced' = displaced \cup ({Entry(c)} \ {NoConn})
          BY <3>4 DEF Install
      <4>6. ASSUME NEW d \in Conn, at'[d] \in {"reading", "handing"}, d \in open' \ displaced'
            PROVE  Entry(d)' = d
        <5>1. CASE d = c
            BY <5>1, <4>2 DEF Entry
        <5>2. CASE d # c
          <6>1. Entry(d) = d
              BY <5>2, <4>4, <4>5, <4>6 DEF TableExact
          <6>2. profileOf[d] = pc /\ identityOf[d] = ic => Entry(c) = d
              BY <6>1 DEF Entry
          <6>3. profileOf[d] # pc \/ identityOf[d] # ic
              BY <6>2, <4>5, <4>6
          <6> QED
              BY <6>1, <6>3, <4>3 DEF Entry
        <5> QED
            BY <5>1, <5>2
      <4>7. ASSUME NEW p \in Profile, NEW i \in Identity, sessions'[p][i] # NoConn
            PROVE  /\ at'[sessions'[p][i]] \in {"reading", "handing"}
                   /\ profileOf[sessions'[p][i]] = p /\ identityOf[sessions'[p][i]] = i
        <5>1. CASE p = pc /\ i = ic
            BY <5>1, <4>2, <4>4
        <5>2. CASE p # pc \/ i # ic
          <6>1. sessions[p][i] \in Conn
              BY <5>2, <4>3, <4>7 DEF TypeOK
          <6> QED
              BY <5>2, <6>1, <4>3, <4>4, <4>7 DEF TableExact
        <5> QED
            BY <5>1, <5>2
      <4> QED
          BY <4>6, <4>7 DEF TableExact
    <3> QED
        BY <2>1, <3>1, <3>2, <3>3, <3>4 DEF Admission, RefuseHello, RefuseRegister, RefuseCN
  <2>2. ASSUME NEW c \in Conn, Served(c) PROVE TableExact'
    <3>1. CASE CloseDisplaced(c)
        BY <3>1, TableKept DEF CloseDisplaced, tableVars
    <3>2. CASE Drop(c)
        BY <3>2, <2>quiet DEF Drop, tableVars
    <3>3. CASE Receive(c)
        BY <3>3, <2>at, TableKept DEF Receive, GoesTo, tableVars
    <3>4. CASE Hand(c)
        BY <3>4, <2>at, TableKept DEF Hand, GoesTo, tableVars
    <3>5. CASE NotifyDisconnect(c)
        BY <3>5, <2>at, TableKept DEF NotifyDisconnect, GoesTo, tableVars
    <3>6. CASE Unregister(c)
      <4> DEFINE pc == profileOf[c]
                 ic == identityOf[c]
      <4>1. pc \in Profile /\ ic \in Identity
          OBVIOUS
      <4>2. /\ at[c] = "reading" /\ at'[c] \notin {"reading", "handing"}
            /\ \A d \in Conn : d # c => at'[d] = at[d]
            /\ open' = open /\ displaced' = displaced
          BY <3>6, <2>at DEF Unregister, GoesTo
      <4>3. CASE Entry(c) = c
        <5>1. sessions'[pc][ic] = NoConn
            BY <3>6, <4>1, <4>3 DEF Unregister, TypeOK
        <5>2. \A p \in Profile, i \in Identity :
                 (p # pc \/ i # ic) => sessions'[p][i] = sessions[p][i]
            BY <3>6, <4>1, <4>3 DEF Unregister, TypeOK
        <5>3. ASSUME NEW d \in Conn, at'[d] \in {"reading", "handing"}, d \in open' \ displaced'
              PROVE  Entry(d)' = d
          <6>1. d # c /\ Entry(d) = d
              BY <4>2, <5>3 DEF TableExact
          <6>2. profileOf[d] # pc \/ identityOf[d] # ic
              BY <6>1, <4>3 DEF Entry
          <6> QED
              BY <6>1, <6>2, <5>2 DEF Entry
        <5>4. ASSUME NEW p \in Profile, NEW i \in Identity, sessions'[p][i] # NoConn
              PROVE  /\ at'[sessions'[p][i]] \in {"reading", "handing"}
                     /\ profileOf[sessions'[p][i]] = p /\ identityOf[sessions'[p][i]] = i
          <6>1. (p # pc \/ i # ic) /\ sessions[p][i] \in Conn /\ sessions'[p][i] = sessions[p][i]
              BY <5>1, <5>2, <5>4 DEF TypeOK
          <6>2. sessions[p][i] # c
              BY <6>1, <5>4 DEF TableExact
          <6> QED
              BY <6>1, <6>2, <4>2, <5>4 DEF TableExact
        <5> QED
            BY <5>3, <5>4 DEF TableExact
      <4>4. CASE Entry(c) # c
        <5>1. sessions' = sessions
            BY <3>6, <4>4 DEF Unregister
        <5>2. \A p \in Profile, i \in Identity : sessions[p][i] # c
            BY <4>4 DEF TableExact, Entry
        <5>3. \A p \in Profile, i \in Identity : sessions[p][i] \in Conn \cup {NoConn}
            BY DEF TypeOK
        <5> QED
            BY <5>1, <5>2, <5>3, <4>2 DEF TableExact, Entry
      <4> QED
          BY <4>3, <4>4
    <3> QED
        BY <2>2, <3>1, <3>2, <3>3, <3>4, <3>5, <3>6 DEF Served
  <2>3. ASSUME NEW p \in Profile, Take(p) \/ Exit(p) PROVE TableExact'
      BY <2>3, <2>quiet DEF Take, Exit, tableVars, connVars
  <2>4. CASE Shutdown
      BY <2>4, <2>quiet DEF Shutdown, ShutdownBegin, ListSessions, CloseListed, Stop,
             tableVars, connVars
  <2>5. ASSUME NEW cfg \in Configs, Reload(cfg) PROVE TableExact'
      BY <2>5, <2>quiet DEF Reload, tableVars, connVars
  <2>6. CASE UNCHANGED vars
      BY <2>6, <2>quiet DEF vars, tableVars, connVars
  <2> QED
      BY <2>1, <2>2, <2>3, <2>4, <2>5, <2>6 DEF Next
<1> QED
    BY <1>1, <1>2, TypeCorrect, PTL DEF Spec
-----------------------------------------------------------------------------
(***************************************************************************)
(* Who empties the channel a connection waits for.                         *)
(***************************************************************************)
Registered(c) == at[c] \in {"resolved", "reading", "handing", "leaving"}

AttendInv ==
    /\ \A c \in Conn : Registered(c) => profileOf[c] \in started
    /\ ~ shuttingDown => stopped = {} /\ started \subseteq running

\* A connection that waits for room in its mediator's channel is never left to
\* a mediator that has gone for good: the mediator runs, its done channel is
\* closed, or Shutdown has yet to close it, on a list that waits for nobody.
Attended ==
    \A c \in Conn :
        at[c] \in {"handing", "leaving"}
        => profileOf[c] \in running \cup stopped \cup sweep \cup {visiting}

LEMMA AttendStep ==
    ASSUME TypeOK, StopInv, AttendInv, [Next]_vars
    PROVE  AttendInv'
<1> USE DEF AttendInv, Registered
<1>at. at \in [Conn -> Stages]
    BY DEF TypeOK
\* A connection that moves on leaves the mediators alone.
<1>move. ASSUME NEW c \in Conn, NEW s, GoesTo(c, s), s = "done" \/ s = "hello" \/ Registered(c),
                UNCHANGED <<started, running, stopped, shuttingDown>>
         PROVE  AttendInv'
    BY <1>move, <1>at DEF GoesTo
<1>quiet. ASSUME UNCHANGED <<at, started, running, stopped, shuttingDown>>
          PROVE  AttendInv'
    BY <1>quiet
<1>1. ASSUME NEW c \in Conn, Admission(c)
      PROVE  AttendInv'
    <2>1. CASE Upgrade(c)
        BY <2>1, <1>move DEF Upgrade, tableVars, mediatorVars, shutdownVars
    <2>2. CASE Reject(c)
        BY <2>2, <1>move DEF Reject, tableVars, mediatorVars, shutdownVars
    <2>3. CASE GetOrStartProfile(c)
        <3>1. /\ started' = started \cup {profileOf[c]} /\ ~ shuttingDown
              /\ shuttingDown' = shuttingDown /\ stopped' = stopped
              /\ running' = running \cup (started' \ started)
            BY <2>3 DEF GetOrStartProfile, shutdownVars
        <3>2. \A d \in Conn : d # c => at'[d] = at[d]
            BY <2>3, <1>at DEF GetOrStartProfile, GoesTo
        <3> QED
            BY <3>1, <3>2
    <2>4. CASE Install(c)
        BY <2>4, <1>move DEF Install, mediatorVars, shutdownVars
    <2> QED
        BY <1>1, <2>1, <2>2, <2>3, <2>4
        DEF Admission, RefuseHello, RefuseRegister, RefuseCN
<1>2. ASSUME NEW c \in Conn, Served(c)
      PROVE  AttendInv'
    <2>1. CASE CloseDisplaced(c) \/ Drop(c)
        BY <2>1, <1>quiet DEF CloseDisplaced, Drop, tableVars, mediatorVars, shutdownVars
    <2>2. CASE Receive(c)
        BY <2>2, <1>move DEF Receive, tableVars, mediatorVars, shutdownVars
    <2>3. CASE Hand(c) \/ NotifyDisconnect(c)
        BY <2>3, <1>move DEF Hand, NotifyDisconnect, tableVars, shutdownVars
    <2>4. CASE Unregister(c)
        BY <2>4, <1>move DEF Unregister, mediatorVars, shutdownVars
    <2> QED
        BY <1>2, <2>1, <2>2, <2>3, <2>4 DEF Served
<1>3. ASSUME NEW p \in Profile, Take(p) \/ Exit(p)
      PROVE  AttendInv'
    BY <1>3 DEF Take, Exit, tableVars, connVars, shutdownVars
<1>4. CASE Shutdown
    <2>1. CASE ShutdownBegin
        BY <2>1 DEF ShutdownBegin, tableVars, connVars, mediatorVars
    <2>2. ASSUME NEW p \in Profile, ListSessions(p)
          PROVE  AttendInv'
        BY <2>2, <1>quiet DEF ListSessions, tableVars, connVars, mediatorVars
    <2>3. ASSUME NEW c \in Conn, CloseListed(c)
          PROVE  AttendInv'
        BY <2>3, <1>quiet DEF CloseListed, tableVars, mediatorVars
    <2>4. CASE Stop
        \* Only Shutdown visits a profile.
        BY <2>4 DEF Stop, StopInv, tableVars, connVars
    <2> QED
        BY <1>4, <2>1, <2>2, <2>3, <2>4 DEF Shutdown
<1>5. CASE (\E cfg \in Configs : Reload(cfg)) \/ UNCHANGED vars
    BY <1>5, <1>quiet DEF Reload, vars, tableVars, connVars, mediatorVars, shutdownVars
<1> QED
    BY <1>1, <1>2, <1>3, <1>4, <1>5 DEF Next

\* The safety half of NoneStuck, in every interleaving of Register, the
\* connections' hand-overs, the mediators' exit and Shutdown.
THEOREM AttendedHolds == Spec => []Attended
<1>1. Init => AttendInv
    BY DEF Init, AttendInv, Registered
<1>2. AttendInv /\ StopInv => Attended
    BY DEF AttendInv, StopInv, Registered, Attended
<1> QED
    BY <1>1, <1>2, AttendStep, StopInvHolds, TypeCorrect, PTL DEF Spec
=============================================================================
