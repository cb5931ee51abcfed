-------------------------------- MODULE Hub ---------------------------------
(***************************************************************************)
(* The life of the server's connections across all profiles: admission     *)
(* (router.go, auth.go), the Hub's lazily started profile hubs and session *)
(* tables (hub.go), configuration reloads (config/store.go) and Shutdown.  *)
(*                                                                         *)
(* What Mediator leaves out is modelled here and the other way round: the  *)
(* mediator is reduced to a goroutine that empties its ingress channels or *)
(* has exited, and the four channels to the occupancy of one.  Register    *)
(* takes the Hub's mutex and the profile's mutex one after the other, and  *)
(* so does Shutdown: between the two, anything may happen.                 *)
(***************************************************************************)
EXTENDS Integers, FiniteSets

CONSTANTS
    Profile, Identity,
    Conn,         \* the connections clients make
    profileOf,    \* Conn -> Profile: the profile in the URL
    identityOf,   \* Conn -> Identity: the authenticated identity
    claims,       \* Conn -> SUBSET Profile: what the connection's JWT allows
    AuthMode,     \* "mtls" or "jwt"
    Configs,      \* profile files: partial functions Profile -> SUBSET Identity
    NoConn, NoProfile,
    ChannelBuf    \* capacity of the ingress channel (bound)

ASSUME HubAssumption ==
    /\ profileOf \in [Conn -> Profile]
    /\ identityOf \in [Conn -> Identity]
    /\ claims \in [Conn -> SUBSET Profile]
    /\ AuthMode \in {"mtls", "jwt"}
    /\ \A cfg \in Configs : cfg \in [DOMAIN cfg -> SUBSET Identity] /\ DOMAIN cfg \subseteq Profile
    /\ NoConn \notin Conn /\ NoProfile \notin Profile
    /\ ChannelBuf \in Nat \ {0}

VARIABLES
    store,        \* the ProfileStore: profile -> allowed_clients
    started,      \* DOMAIN h.byProfile
    acl,          \* ph.profile.AllowedClients, as copied when ph was created
    sessions,     \* ph.sessions (and ph.sessionsByIdentity, which agrees with it)
    at,           \* where serveConn is for each connection
    open,         \* connections whose transport is open
    displaced,    \* connections a Register has still to close
    queued,       \* occupancy of the profile's ingress channel
    running,      \* profiles whose mediator goroutine runs
    stopped,      \* profiles whose mediator's done channel is closed
    shuttingDown, \* h.shuttingDown; h.ctx is cancelled with it
    sweep,        \* Shutdown: profiles still to visit
    visiting,     \* Shutdown: the profile being visited
    closing       \* Shutdown: sessions of that profile still to close

tableVars    == <<started, acl, sessions>>
connVars     == <<at, open, displaced>>
mediatorVars == <<queued, running, stopped>>
shutdownVars == <<shuttingDown, sweep, visiting, closing>>
vars         == <<store, tableVars, connVars, mediatorVars, shutdownVars>>

Stages == {"new", "hello", "resolved", "reading", "handing", "leaving", "done"}

TypeOK ==
    /\ store \in Configs
    /\ started \subseteq Profile
    /\ acl \in [Profile -> SUBSET Identity]
    /\ sessions \in [Profile -> [Identity -> Conn \cup {NoConn}]]
    /\ at \in [Conn -> Stages]
    /\ open \subseteq Conn
    /\ displaced \subseteq Conn
    /\ queued \in [Profile -> 0..ChannelBuf]
    /\ running \subseteq started
    /\ stopped \subseteq started
    /\ shuttingDown \in BOOLEAN
    /\ sweep \subseteq started
    /\ visiting \in started \cup {NoProfile}
    /\ closing \subseteq Conn

Init ==
    /\ store \in Configs
    /\ started = {}
    /\ acl = [p \in Profile |-> {}]
    /\ sessions = [p \in Profile |-> [i \in Identity |-> NoConn]]
    /\ at = [c \in Conn |-> "new"]
    /\ open = {}
    /\ displaced = {}
    /\ queued = [p \in Profile |-> 0]
    /\ running = {}
    /\ stopped = {}
    /\ shuttingDown = FALSE
    /\ sweep = {}
    /\ visiting = NoProfile
    /\ closing = {}

\* The table entry of connection c.
Entry(c) == sessions[profileOf[c]][identityOf[c]]

GoesTo(c, stage) == at' = [at EXCEPT ![c] = stage]

-----------------------------------------------------------------------------
(***************************************************************************)
(* Admission.                                                              *)
(***************************************************************************)

\* The operator's SIGHUP: Reload swaps the profiles in one critical section; a
\* file that does not load changes nothing.
Reload(cfg) ==
    /\ store' = cfg
    /\ UNCHANGED <<tableVars, connVars, mediatorVars, shutdownVars>>

\* handleWS and preUpgrade: the profile exists, the token allows it.  Otherwise
\* the request gets an HTTP status and no connection.
Upgrade(c) ==
    /\ at[c] = "new"
    /\ profileOf[c] \in DOMAIN store
    /\ AuthMode = "jwt" => profileOf[c] \in claims[c]
    /\ GoesTo(c, "hello")
    /\ open' = open \cup {c}
    /\ UNCHANGED <<store, tableVars, displaced, mediatorVars, shutdownVars>>

Reject(c) ==
    /\ GoesTo(c, "done")
    /\ open' = open \ {c}
    /\ UNCHANGED <<store, tableVars, displaced, mediatorVars, shutdownVars>>

\* No hello in time, a malformed one, or one that names another node.
RefuseHello(c) == at[c] = "hello" /\ Reject(c)

\* Register, under h.mu: refuse, find the profile hub, or start one.
RefuseRegister(c) ==
    /\ at[c] = "hello"
    /\ \/ shuttingDown
       \/ profileOf[c] \notin started /\ profileOf[c] \notin DOMAIN store
    /\ Reject(c)

\* Mutant: Register does not look at shuttingDown.
GetOrStartProfileAlways(c) ==
    /\ at[c] = "hello"
    /\ LET p == profileOf[c]
       IN  IF p \in started
           THEN UNCHANGED <<started, acl, running>>
           ELSE /\ p \in DOMAIN store
                /\ started' = started \cup {p}
                /\ acl' = [acl EXCEPT ![p] = store[p]]
                /\ running' = running \cup {p}
    /\ GoesTo(c, "resolved")
    /\ UNCHANGED <<store, sessions, open, displaced, queued, stopped, shutdownVars>>

GetOrStartProfile(c) ==
    /\ at[c] = "hello"
    /\ ~ shuttingDown
    /\ LET p == profileOf[c]
       IN  IF p \in started
           THEN UNCHANGED <<started, acl, running>>
           ELSE /\ p \in DOMAIN store
                /\ started' = started \cup {p}
                /\ acl' = [acl EXCEPT ![p] = store[p]]
                /\ running' = running \cup {p}
    /\ GoesTo(c, "resolved")
    /\ UNCHANGED <<store, sessions, open, displaced, queued, stopped, shutdownVars>>

\* isCNAllowed, on the copy the profile hub keeps.
Allowed(c) == AuthMode = "mtls" => identityOf[c] \in acl[profileOf[c]]

RefuseCN(c) == at[c] = "resolved" /\ ~ Allowed(c) /\ Reject(c)

\* Register, under ph.mu: take the identity's entry, displacing its holder.
Install(c) ==
    /\ at[c] = "resolved"
    /\ Allowed(c)
    /\ sessions' = [sessions EXCEPT ![profileOf[c]][identityOf[c]] = c]
    /\ displaced' = displaced \cup ({Entry(c)} \ {NoConn})
    /\ GoesTo(c, "reading")
    /\ UNCHANGED <<store, started, acl, open, mediatorVars, shutdownVars>>

-----------------------------------------------------------------------------
(***************************************************************************)
(* A connection that is served.                                            *)
(***************************************************************************)

\* Mutant: the displaced session is forgotten, not closed.
CloseDisplacedNot(c) ==
    /\ c \in displaced
    /\ displaced' = displaced \ {c}
    /\ UNCHANGED <<store, tableVars, at, open, mediatorVars, shutdownVars>>

CloseDisplaced(c) ==
    /\ c \in displaced
    /\ displaced' = displaced \ {c}
    /\ open' = open \ {c}
    /\ UNCHANGED <<store, tableVars, at, mediatorVars, shutdownVars>>

\* The peer goes away, the ping deadline passes or a protocol error closes it.
Drop(c) ==
    /\ c \in open
    /\ open' = open \ {c}
    /\ UNCHANGED <<store, tableVars, at, displaced, mediatorVars, shutdownVars>>

\* readLoop takes an envelope; a closed connection still yields what it had
\* buffered.
Receive(c) ==
    /\ at[c] = "reading"
    /\ GoesTo(c, "handing")
    /\ UNCHANGED <<store, tableVars, open, displaced, mediatorVars, shutdownVars>>

\* A select of Report, Absent, Ack or NotifyDisconnect: room, or done closed.
Enqueue(p) ==
    \/ /\ queued[p] < ChannelBuf
       /\ queued' = [queued EXCEPT ![p] = @ + 1]
    \/ /\ p \in stopped
       /\ UNCHANGED queued

Hand(c) ==
    /\ at[c] = "handing"
    /\ Enqueue(profileOf[c])
    /\ GoesTo(c, "reading")
    /\ UNCHANGED <<store, tableVars, open, displaced, running, stopped, shutdownVars>>

\* Mutant: a displaced session takes the entry of its successor with it.
UnregisterAny(c) ==
    /\ at[c] = "reading" /\ c \notin open
    /\ sessions' = [sessions EXCEPT ![profileOf[c]][identityOf[c]] = NoConn]
    /\ GoesTo(c, "leaving")
    /\ UNCHANGED <<store, started, acl, open, displaced, mediatorVars, shutdownVars>>

\* readLoop has ended: Unregister's critical section.
Unregister(c) ==
    /\ at[c] = "reading" /\ c \notin open
    /\ IF Entry(c) = c
       THEN /\ sessions' = [sessions EXCEPT ![profileOf[c]][identityOf[c]] = NoConn]
            /\ GoesTo(c, "leaving")
       ELSE /\ GoesTo(c, "done")
            /\ UNCHANGED sessions
    /\ UNCHANGED <<store, started, acl, open, displaced, mediatorVars, shutdownVars>>

NotifyDisconnect(c) ==
    /\ at[c] = "leaving"
    /\ Enqueue(profileOf[c])
    /\ GoesTo(c, "done")
    /\ UNCHANGED <<store, tableVars, open, displaced, running, stopped, shutdownVars>>

-----------------------------------------------------------------------------
(***************************************************************************)
(* The mediator goroutine and Shutdown.                                    *)
(***************************************************************************)
Take(p) ==
    /\ p \in running
    /\ queued[p] > 0
    /\ queued' = [queued EXCEPT ![p] = @ - 1]
    /\ UNCHANGED <<store, tableVars, connVars, running, stopped, shutdownVars>>

Exit(p) ==
    /\ p \in running
    /\ shuttingDown \/ p \in stopped
    /\ running' = running \ {p}
    /\ UNCHANGED <<store, tableVars, connVars, queued, stopped, shutdownVars>>

ShutdownBegin ==
    /\ ~ shuttingDown
    /\ shuttingDown' = TRUE
    /\ sweep' = started
    /\ UNCHANGED <<store, tableVars, connVars, mediatorVars, visiting, closing>>

ListSessions(p) ==
    /\ visiting = NoProfile /\ p \in sweep
    /\ sweep' = sweep \ {p}
    /\ visiting' = p
    /\ closing' = {sessions[p][i] : i \in Identity} \ {NoConn}
    /\ UNCHANGED <<store, tableVars, connVars, mediatorVars, shuttingDown>>

CloseListed(c) ==
    /\ c \in closing
    /\ closing' = closing \ {c}
    /\ open' = open \ {c}
    /\ UNCHANGED <<store, tableVars, at, displaced, mediatorVars, shuttingDown, sweep, visiting>>

\* Mutant: the mediator is left to its context; done stays open.
StopNot ==
    /\ visiting # NoProfile /\ closing = {}
    /\ visiting' = NoProfile
    /\ UNCHANGED <<store, tableVars, connVars, mediatorVars, shuttingDown, sweep, closing>>

Stop ==
    /\ visiting # NoProfile /\ closing = {}
    /\ stopped' = stopped \cup {visiting}
    /\ visiting' = NoProfile
    /\ UNCHANGED <<store, tableVars, connVars, queued, running, shuttingDown, sweep, closing>>

-----------------------------------------------------------------------------
Admission(c) ==
    \/ Upgrade(c) \/ RefuseHello(c)
    \/ RefuseRegister(c) \/ GetOrStartProfile(c)
    \/ RefuseCN(c) \/ Install(c)

Served(c) ==
    \/ CloseDisplaced(c) \/ Drop(c) \/ Receive(c)
    \/ Hand(c) \/ Unregister(c) \/ NotifyDisconnect(c)

Shutdown ==
    \/ ShutdownBegin
    \/ \E p \in Profile : ListSessions(p)
    \/ \E c \in Conn : CloseListed(c)
    \/ Stop

Next ==
    \/ \E cfg \in Configs : Reload(cfg)
    \/ \E c \in Conn : Admission(c) \/ Served(c)
    \/ \E p \in Profile : Take(p) \/ Exit(p)
    \/ Shutdown

Spec == Init /\ [][Next]_vars

(***************************************************************************)
(* Every goroutine runs: the mediator until it exits, the goroutine that   *)
(* closes a displaced session, Shutdown once it has begun.  A send in a    *)
(* select that becomes possible again and again is made (Go queues blocked *)
(* senders).  The backlog of a closed connection is finite, so its         *)
(* readLoop ends.  Nothing makes peers leave or operators shut down.       *)
(***************************************************************************)
Fairness ==
    /\ \A c \in Conn :
         /\ SF_vars(Hand(c))
         /\ SF_vars(NotifyDisconnect(c))
         /\ SF_vars(Unregister(c))
         /\ WF_vars(CloseDisplaced(c))
         /\ WF_vars(CloseListed(c))
    /\ \A p \in Profile : WF_vars(Take(p)) /\ WF_vars(ListSessions(p))
    /\ WF_vars(Stop)

FairSpec == Spec /\ Fairness

-----------------------------------------------------------------------------
(***************************************************************************)
(* Properties.                                                             *)
(***************************************************************************)
Returned == shuttingDown /\ sweep = {} /\ visiting = NoProfile

\* Exactly one connection of an identity is in charge: whatever is served and
\* not about to be closed as displaced is in the session table, and the table
\* holds only connections that are served (Register's displacement against
\* Unregister's cur == s test).
TableExact ==
    /\ \A c \in Conn :
         (at[c] \in {"reading", "handing"} /\ c \in open \ displaced) => Entry(c) = c
    /\ \A p \in Profile, i \in Identity :
         sessions[p][i] # NoConn =>
            /\ at[sessions[p][i]] \in {"reading", "handing"}
            /\ profileOf[sessions[p][i]] = p /\ identityOf[sessions[p][i]] = i

\* When Shutdown returns, the done channel of every mediator ever started is
\* closed: no profile hub is started between taking the list and returning, so
\* nobody is left to block on a mediator that has gone.
AllStopped == Returned => started \subseteq stopped

\* No connection's goroutine blocks for ever on the mediator's channel, not
\* even when the mediator has exited with the channel full (the done case of
\* Report, Absent, Ack and NotifyDisconnect).
NoneStuck ==
    \A c \in Conn : at[c] \in {"handing", "leaving"} ~> at[c] \in {"reading", "done"}

\* A displaced connection's goroutine ends.
DisplacedEnds == \A c \in Conn : c \in displaced ~> at[c] = "done"

\* The comment on NewHub: "the hub does not cache profile definitions so
\* SIGHUP-driven reloads take effect on the next connection".  Every
\* registration finds the profile as the store has it.
ReloadTakesEffect ==
    [][\A c \in Conn : GetOrStartProfile(c) =>
          /\ profileOf[c] \in DOMAIN store
          /\ acl'[profileOf[c]] = store[profileOf[c]]]_vars
=============================================================================
