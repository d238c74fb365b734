--------------------------- MODULE Authentication ---------------------------
(***************************************************************************)
(* First-come-first-served authentication: the WebSocket connections of an *)
(* AuthenticatedWsServer, the one client that their identifier stands for  *)
(* (identifiers are independent of each other), and the clients' ends.     *)
(*                                                                         *)
(* The authenticator is FcfsAuthenticatorBase: a subclass may refuse new   *)
(* clients, and may take its time, or fail, to create the client and its   *)
(* contexts.  Promises that are already settled cost a microtask only, so  *)
(* a continuation that waits for nothing else is part of the same step.    *)
(***************************************************************************)
EXTENDS Integers, FiniteSets

CONSTANTS
    Conns,     \* Connections made with one client identifier.
    Passkeys   \* The passkeys they may present.

VARIABLES
    entry,       \* What `clients` has for the identifier.
    passkey,     \* clientPasskey of the client: that of the first packet.
    references,  \* FcfsClient.references.
    released,    \* FcfsClient.released, and whether releaseEvent is canceled.
    releases,    \* How often the client was reported as released.
    terminated,  \* Whether forceTerminate was called.
    key,         \* Per connection, the passkey its client presents.
    phase,       \* Per connection, what the server is doing with it.
    request,     \* Per connection, the authenticate call.
    holder,      \* Per connection, the holder authenticate made for it.
    socket,      \* Per connection, the server's socket.
    client,      \* Per connection, the transport that made it.
    answer       \* Per connection, the result on its way to the client.

clientVars == <<entry, passkey, references, released, releases, terminated>>
connVars == <<key, phase, request, holder, socket, client, answer>>
vars == <<clientVars, connVars>>

NoKey == "no key"

TypeOK ==
    /\ entry \in {"none", "promise", "rejected", "client"}
    /\ passkey \in Passkeys \cup {NoKey}
    /\ references \in -1..Cardinality(Conns)
    /\ references = -1 => entry # "client"
    /\ released \in BOOLEAN
    /\ releases \in Nat
    /\ terminated \in BOOLEAN
    /\ key \in [Conns -> Passkeys \cup {NoKey}]
    /\ phase \in [Conns -> {"none", "guarded", "authenticating", "serving", "ended"}]
    /\ request \in [Conns -> {"none", "sent", "creating", "joining", "valid", "settled"}]
    /\ holder \in [Conns -> {"none", "held", "stray", "dropped", "collected"}]
    /\ socket \in [Conns -> {"none", "open", "closing", "closed"}]
    /\ client \in [Conns -> {"none", "opening", "waiting", "connected", "gone"}]
    /\ answer \in [Conns -> {"none", "success", "failure"}]

Init ==
    /\ entry = "none" /\ passkey = NoKey
    /\ references = -1 /\ released = FALSE /\ releases = 0 /\ terminated = FALSE
    /\ key = [c \in Conns |-> NoKey]
    /\ phase = [c \in Conns |-> "none"]
    /\ request = [c \in Conns |-> "none"]
    /\ holder = [c \in Conns |-> "none"]
    /\ socket = [c \in Conns |-> "none"]
    /\ client = [c \in Conns |-> "none"]
    /\ answer = [c \in Conns |-> "none"]

Serving == {c \in Conns : phase[c] = "serving"}

-----------------------------------------------------------------------------
(* The counted client.                                                     *)

(* hold() refuses when the last reference is gone. *)
MayHold == references # 0

(* n calls of hold(). *)
Held(n) == IF references = -1 THEN n ELSE references + n

(* onRelease: the callback, then every served connection is closed.        *)
OnRelease ==
    /\ released' = TRUE
    /\ releases' = releases + 1

Revoked == [c \in Conns |-> IF phase[c] = "serving" /\ ~released /\ socket[c] = "open"
                            THEN "closing" ELSE socket[c]]

(* drop() of a holder. *)
Drop ==
    IF released THEN UNCHANGED <<references, released, releases>>
    ELSE /\ references' = references - 1
         /\ IF references' = 0 THEN OnRelease ELSE UNCHANGED <<released, releases>>

(* The finalization registry decreases the count without a look at         *)
(* `released`; onRelease then throws from cancel, after its callback.      *)
Finalized(c) ==
    /\ holder[c] = "stray"
    /\ holder' = [holder EXCEPT ![c] = "collected"]
    /\ references' = references - 1
    /\ IF references' = 0
       THEN OnRelease /\ socket' = Revoked
       ELSE UNCHANGED <<released, releases, socket>>
    /\ UNCHANGED <<entry, passkey, terminated, key, phase, request, client, answer>>

(* forceTerminate(clientIdentifier): it leaves the references alone.       *)
ForceTerminate ==
    /\ entry = "client" /\ ~terminated
    /\ terminated' = TRUE
    /\ OnRelease
    /\ socket' = Revoked
    /\ UNCHANGED <<entry, passkey, references, key, phase, request, holder, client, answer>>

-----------------------------------------------------------------------------
(* A connection, up to its auth packet.                                    *)

(* A client connects: the upgrade event waits for guardConnection. *)
Connects(c, k) ==
    /\ client[c] = "none"
    /\ client' = [client EXCEPT ![c] = "opening"]
    /\ key' = [key EXCEPT ![c] = k]
    /\ phase' = [phase EXCEPT ![c] = "guarded"]
    /\ UNCHANGED <<clientVars, request, holder, socket, answer>>

(* The guard throws: 403, and the socket is destroyed. *)
GuardRejects(c) ==
    /\ phase[c] = "guarded"
    /\ phase' = [phase EXCEPT ![c] = "ended"]
    /\ client' = [client EXCEPT ![c] = "gone"]
    /\ UNCHANGED <<clientVars, key, request, holder, socket, answer>>

(* handleUpgrade; a client that left meanwhile has no socket to upgrade. *)
GuardAccepts(c) ==
    /\ phase[c] = "guarded"
    /\ IF client[c] = "opening"
       THEN /\ phase' = [phase EXCEPT ![c] = "authenticating"]
            /\ socket' = [socket EXCEPT ![c] = "open"]
       ELSE /\ phase' = [phase EXCEPT ![c] = "ended"]
            /\ UNCHANGED socket
    /\ UNCHANGED <<clientVars, key, request, holder, client, answer>>

(* onWsOpen of the client sends the auth packet and waits for one message. *)
ClientOpens(c) ==
    /\ client[c] = "opening" /\ socket[c] = "open"
    /\ client' = [client EXCEPT ![c] = "waiting"]
    /\ request' = [request EXCEPT ![c] = "sent"]
    /\ UNCHANGED <<clientVars, key, phase, holder, socket, answer>>

-----------------------------------------------------------------------------
(* authenticate.                                                           *)

(* The socket of a connection that becomes served: authentication may have *)
(* been revoked meanwhile, CancelEvent tells even a late subscriber.       *)
SocketServed(c) == IF released THEN "closing" ELSE socket[c]

(* The promise of authenticateConnection is rejected: the client is told,  *)
(* and the connection closed; nothing happens if it was settled before.    *)
Fails(C) ==
    LET F == {c \in C : phase[c] = "authenticating"} IN
    /\ phase' = [c \in Conns |-> IF c \in F THEN "ended" ELSE phase[c]]
    /\ answer' = [c \in Conns |-> IF c \in F /\ socket[c] = "open" THEN "failure" ELSE answer[c]]
    /\ socket' = [c \in Conns |-> IF c \in F /\ socket[c] = "open" THEN "closing" ELSE socket[c]]

(* authenticate of the first packet: the promise of the client is kept in  *)
(* the map, rejected or not.                                               *)
FirstToCome(c) ==
    /\ entry = "none"
    /\ entry' = "promise"
    /\ passkey' = key[c]
    /\ request' = [request EXCEPT ![c] = "creating"]
    /\ UNCHANGED <<references, released, releases, terminated,
                   key, phase, holder, socket, client, answer>>

(* isClientAllowedForNewAuthenticatedClient says no. *)
NotAllowed(c) ==
    /\ entry = "none"
    /\ request' = [request EXCEPT ![c] = "settled"]
    /\ Fails({c})
    /\ UNCHANGED <<clientVars, key, holder, client>>

(* authenticate while the client is being created. *)
Joins(c) ==
    /\ entry = "promise"
    /\ request' = [request EXCEPT ![c] = "joining"]
    /\ UNCHANGED <<clientVars, key, phase, holder, socket, client, answer>>

(* Mutant: the passkey is only taken, never compared. *)
AssertNothing(c) == TRUE

(* assertValid *)
AssertValid(c) == key[c] = passkey

(* authenticate of a known client: hold(), assertValid, and drop() of the  *)
(* holder if the passkey is another one.                                   *)
ComesLater(c) ==
    /\ entry = "client" /\ MayHold /\ AssertValid(c)
    /\ references' = Held(1)
    /\ holder' = [holder EXCEPT ![c] = "held"]
    /\ request' = [request EXCEPT ![c] = "valid"]
    /\ UNCHANGED <<entry, passkey, released, releases, terminated,
                   key, phase, socket, client, answer>>

(* A released client, a rejected promise or a wrong passkey. The holder of *)
(* a wrong passkey is counted for good when the client was terminated.     *)
ComesInVain(c) ==
    /\ \/ entry = "rejected"
       \/ entry = "client" /\ ~(MayHold /\ AssertValid(c))
    /\ references' = IF entry = "client" /\ MayHold /\ released THEN Held(1) ELSE references
    /\ request' = [request EXCEPT ![c] = "settled"]
    /\ Fails({c})
    /\ UNCHANGED <<entry, passkey, released, releases, terminated, key, holder, client>>

(* The auth packet of c arrives at the server. *)
ReceivesPacket(c) ==
    /\ phase[c] = "authenticating" /\ request[c] = "sent"
    /\ FirstToCome(c) \/ NotAllowed(c) \/ Joins(c) \/ ComesLater(c) \/ ComesInVain(c)

Awaiting(stage) == {c \in Conns : request[c] = stage}

(* createClientAndFirstHolder fulfils: the first comer has the first       *)
(* holder, who joined holds next, and drops if its passkey is wrong.       *)
ClientCreated ==
    LET Valid == {c \in Awaiting("creating") \cup Awaiting("joining") : AssertValid(c)}
        Invalid == Awaiting("joining") \ Valid
    IN  /\ entry = "promise"
        /\ entry' = "client"
        /\ references' = Held(Cardinality(Valid))
        /\ holder' = [c \in Conns |-> IF c \in Valid THEN "held" ELSE holder[c]]
        /\ request' = [c \in Conns |-> IF c \in Valid THEN "valid"
                                       ELSE IF c \in Invalid THEN "settled" ELSE request[c]]
        /\ Fails(Invalid)
        /\ UNCHANGED <<passkey, released, releases, terminated, key, client>>

(* createClientAndFirstHolder rejects. *)
CreationFails ==
    LET Waiting == Awaiting("creating") \cup Awaiting("joining")
    IN  /\ entry = "promise"
        /\ entry' = "rejected"
        /\ request' = [c \in Conns |-> IF c \in Waiting THEN "settled" ELSE request[c]]
        /\ Fails(Waiting)
        /\ UNCHANGED <<passkey, references, released, releases, terminated, key, holder, client>>

(* createContextCreator fulfils and authenticate returns: the connection   *)
(* is served, unless it failed meanwhile, when nobody has the holder.      *)
Authenticated(c) ==
    /\ request[c] = "valid"
    /\ request' = [request EXCEPT ![c] = "settled"]
    /\ IF phase[c] = "authenticating"
       THEN /\ phase' = [phase EXCEPT ![c] = "serving"]
            /\ answer' = [answer EXCEPT ![c] = "success"]
            /\ socket' = [socket EXCEPT ![c] = SocketServed(c)]
            /\ UNCHANGED holder
       ELSE /\ holder' = [holder EXCEPT ![c] = "stray"]
            /\ UNCHANGED <<phase, answer, socket>>
    /\ UNCHANGED <<clientVars, key, client>>

(* createContextCreator rejects: the holder is dropped. *)
ContextFails(c) ==
    /\ request[c] = "valid"
    /\ request' = [request EXCEPT ![c] = "settled"]
    /\ holder' = [holder EXCEPT ![c] = "dropped"]
    /\ Drop
    /\ Fails({c})
    /\ UNCHANGED <<entry, passkey, terminated, key, client>>

(* onTimeout *)
TimesOut(c) ==
    /\ phase[c] = "authenticating"
    /\ Fails({c})
    /\ UNCHANGED <<clientVars, key, request, holder, client>>

-----------------------------------------------------------------------------
(* The end of a connection.                                                *)

(* The result arrives at the client; after a failure it closes. *)
ClientReceivesAnswer(c) ==
    /\ client[c] = "waiting" /\ answer[c] # "none"
    /\ client' = [client EXCEPT ![c] = IF answer[c] = "success" THEN "connected" ELSE "gone"]
    /\ answer' = [answer EXCEPT ![c] = "none"]
    /\ UNCHANGED <<clientVars, key, phase, request, holder, socket>>

(* The client leaves: it is disposed of, or its socket breaks or is closed *)
(* by the server.                                                          *)
ClientLeaves(c) ==
    /\ client[c] \in {"opening", "waiting", "connected"}
    /\ client' = [client EXCEPT ![c] = "gone"]
    /\ answer' = [answer EXCEPT ![c] = "none"]
    /\ UNCHANGED <<clientVars, key, phase, request, holder, socket>>

(* The listener of closeEvent of a served connection. *)
OnClosed(c) ==
    IF phase[c] = "serving"
    THEN /\ holder' = [holder EXCEPT ![c] = "dropped"]
         /\ Drop
    ELSE UNCHANGED <<holder, references, released, releases>>

(* The server's socket closes. While authenticating, authentication fails; *)
(* afterwards ServerPort.errored emits closeEvent, and the holder is       *)
(* dropped.                                                                *)
SocketCloses(c) ==
    /\ \/ socket[c] = "open" /\ client[c] = "gone"
       \/ socket[c] = "closing"
    /\ OnClosed(c)
    /\ socket' = [socket EXCEPT ![c] = "closed"]
    /\ phase' = [phase EXCEPT ![c] = "ended"]
    /\ UNCHANGED <<entry, passkey, terminated, key, request, client, answer>>

ServerStep(c) ==
    GuardRejects(c) \/ GuardAccepts(c) \/ ReceivesPacket(c) \/ Authenticated(c)
        \/ ContextFails(c) \/ TimesOut(c) \/ SocketCloses(c) \/ Finalized(c)

ClientStep(c) ==
    (\E k \in Passkeys : Connects(c, k)) \/ ClientOpens(c) \/ ClientReceivesAnswer(c)
        \/ ClientLeaves(c)

Next == \/ \E c \in Conns : ServerStep(c) \/ ClientStep(c)
        \/ ClientCreated \/ CreationFails \/ ForceTerminate

Spec == Init /\ [][Next]_vars

(* Timers fire and sockets deliver and close; guards, subclasses, clients  *)
(* and the garbage collector owe nothing.                                  *)
Progress ==
    \E c \in Conns :
        \/ TimesOut(c) \/ ClientReceivesAnswer(c)
        \/ socket[c] # "open" /\ answer[c] = "none" /\ ClientLeaves(c)

-----------------------------------------------------------------------------
(* Properties.                                                             *)

(* Until the client is terminated its references are its holders, dropped  *)
(* ones and collected ones excepted, whoever joined, failed or timed out   *)
(* (FcfsClient.references).                                                *)
ReferencesAreHolders ==
    entry = "client" /\ ~terminated
        => references = Cardinality({c \in Conns : holder[c] \in {"held", "stray"}})

(* The client is released when and only when the last holder goes, never   *)
(* under a connection it serves, and once (FcfsClient.onRelease).          *)
ReleasedWithLastHolder ==
    ~terminated => /\ released <=> entry = "client" /\ references = 0
                   /\ releases <= 1

(* "For each client identifier, the first one that connects is trusted":   *)
(* every connection that is served presented its passkey.                  *)
FirstOneTrusted == \A c \in Serving : key[c] = passkey

(* Whatever the order of the termination and of the connections' answers,  *)
(* no connection of a released client stays open                           *)
(* (authenticationRevokedEvent).                                           *)
RevokedIsClosed == released => \A c \in Serving : socket[c] # "open"

(* A holder nobody will drop is that of a connection that failed before    *)
(* authenticate returned, never of one that is or was served.              *)
StrayOnlyIfLate ==
    \A c \in Conns : /\ phase[c] = "serving" => holder[c] = "held"
                     /\ holder[c] = "held" /\ phase[c] = "ended" => request[c] = "valid"

(* Who sent its packet is not left waiting: it is answered, or its socket  *)
(* is closed (authenticationTimeoutMs, failAuthentication).                *)
Settled == \A c \in Conns : client[c] # "waiting"
=============================================================================
