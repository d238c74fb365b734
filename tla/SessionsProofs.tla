--------------------------- MODULE SessionsProofs ---------------------------
(***************************************************************************)
(* Proofs about components of MCSessions, for every value of their         *)
(* constants: authentication, wait queues, buffered events, the calls of   *)
(* the client that wait for a channel, and the tasks of plugins. Each has  *)
(* an inductive invariant of its own, X-Inv, with three lemmas: the        *)
(* component begins in it, its steps keep it, and it implies the           *)
(* properties of MCSessions; the theorems at the end put them together.    *)
(***************************************************************************)
EXTENDS MCSessions, FiniteSetTheorems, SequenceTheorems, TLAPS

-----------------------------------------------------------------------------
(* Authentication.                                                         *)

(* The connections whose holder counts.                                    *)
AuthHolders == {c \in Conns : holder[c] \in {"held", "stray"}}

(* Those whose authenticate call came to a holder, or to nothing.          *)
AuthCalled == {c \in Conns : request[c] \in {"valid", "settled"}}

AuthTypes ==
    /\ entry \in {"none", "promise", "rejected", "client"}
    /\ passkey \in Passkeys \cup {Auth!NoKey}
    /\ references \in Int /\ releases \in Nat
    /\ released \in BOOLEAN /\ terminated \in BOOLEAN
    /\ key \in [Conns -> Passkeys \cup {Auth!NoKey}]
    /\ phase \in [Conns -> {"none", "guarded", "authenticating", "serving", "ended"}]
    /\ request \in [Conns -> {"none", "sent", "creating", "joining", "valid", "settled"}]
    /\ holder \in [Conns -> {"none", "held", "stray", "dropped", "collected"}]
    /\ socket \in [Conns -> {"none", "open", "closing", "closed"}]
    /\ client \in [Conns -> {"none", "opening", "waiting", "connected", "gone"}]
    /\ answer \in [Conns -> {"none", "success", "failure"}]

(* A connection has its holder from when authenticate answers to when it   *)
(* ends, and what is served, or is going to be, has the client's passkey.  *)
AuthConnInv(c) ==
    /\ client[c] = "none" => phase[c] = "none"
    /\ client[c] \in {"none", "opening"} => request[c] = "none"
    /\ phase[c] \in {"none", "guarded"} => request[c] = "none" /\ socket[c] = "none"
    /\ request[c] \in {"none", "sent", "creating", "joining"} => holder[c] = "none"
    /\ request[c] = "creating" => entry = "promise" /\ key[c] = passkey
    /\ request[c] = "valid" => holder[c] = "held" /\ key[c] = passkey /\ phase[c] # "serving"
    /\ phase[c] = "serving" => holder[c] = "held" /\ key[c] = passkey /\ request[c] = "settled"
    /\ holder[c] = "held" => request[c] = "valid" \/ phase[c] = "serving"
    /\ holder[c] # "none" => entry = "client"

AuthConnsInv ==
    /\ \A c \in Conns : AuthConnInv(c)
    /\ entry = "promise" => \E c \in Conns : request[c] = "creating"

(* The count.  After a termination it may be too high, by the packets with *)
(* a wrong passkey.                                                        *)
AuthCountInv ==
    /\ entry # "client" => references = -1 /\ ~released /\ releases = 0 /\ ~terminated
    /\ entry = "client" =>
         /\ Cardinality(AuthHolders) <= references /\ references <= Cardinality(AuthCalled)
         /\ ~terminated => references = Cardinality(AuthHolders)
    /\ terminated => released
    /\ ~released => releases = 0
    /\ ~terminated => (released <=> entry = "client" /\ references = 0) /\ releases <= 1

AuthInv == AuthTypes /\ AuthConnsInv /\ AuthCountInv /\ Auth!RevokedIsClosed

LEMMA AuthCardinality == ASSUME NEW S PROVE Auth!Cardinality(S) = Cardinality(S)
BY DEF Auth!Cardinality, Cardinality

LEMMA AuthFinite ==
    /\ IsFiniteSet(Conns) /\ Cardinality(Conns) \in Nat
    /\ \A S \in SUBSET Conns : /\ IsFiniteSet(S) /\ Cardinality(S) \in Nat
                               /\ Cardinality(S) <= Cardinality(Conns)
                               /\ Cardinality(S) = 0 <=> S = {}
BY FS_Subset, FS_CardinalityType, FS_EmptySet, SessionsAssumption

LEMMA AuthInitInv == Auth!Init => AuthInv
<1> SUFFICES ASSUME Auth!Init PROVE AuthInv
  OBVIOUS
<1> USE DEF Auth!Init
<1>1. AuthTypes
  <2>1. /\ entry \in {"none"} /\ references \in Int /\ releases \in Nat
        /\ passkey \in Passkeys \cup {Auth!NoKey}
        /\ key \in [Conns -> Passkeys \cup {Auth!NoKey}]
    OBVIOUS
  <2>3. released \in BOOLEAN /\ terminated \in BOOLEAN
    BY Zenon
  <2>2. /\ phase \in [Conns -> {"none"}] /\ request \in [Conns -> {"none"}]
        /\ holder \in [Conns -> {"none"}] /\ socket \in [Conns -> {"none"}]
        /\ client \in [Conns -> {"none"}] /\ answer \in [Conns -> {"none"}]
    OBVIOUS
  <2> QED
    BY <2>1, <2>2, <2>3 DEF AuthTypes
<1>3. AuthConnsInv
  BY DEF AuthConnsInv, AuthConnInv
<1>2. AuthCountInv /\ Auth!RevokedIsClosed
  BY DEF AuthCountInv, Auth!RevokedIsClosed
<1> QED
  BY <1>1, <1>2, <1>3 DEF AuthInv

LEMMA AuthTypesKept == ASSUME AuthInv, [Auth!Next]_authVars PROVE AuthTypes'
<1> USE DEF AuthInv, AuthTypes, Auth!clientVars, Auth!connVars
<1>1. CASE UNCHANGED authVars
  BY <1>1 DEF authVars
<1>2. CASE Auth!Next
  <2> USE DEF Auth!Held, Auth!OnRelease, Auth!Revoked, Auth!Drop, Auth!Fails
  <2>1. ASSUME NEW c \in Conns, Auth!ReceivesPacket(c) PROVE AuthTypes'
    BY <2>1 DEF Auth!ReceivesPacket, Auth!FirstToCome, Auth!NotAllowed, Auth!Joins,
                Auth!ComesLater, Auth!ComesInVain
  <2>2. ASSUME NEW c \in Conns, Auth!Authenticated(c) \/ Auth!ContextFails(c) \/ Auth!TimesOut(c)
        PROVE AuthTypes'
    <3>1. CASE Auth!Authenticated(c)
      BY <3>1 DEF Auth!Authenticated, Auth!SocketServed
    <3>2. CASE Auth!ContextFails(c)
      <4>1. references' \in Int /\ releases' \in Nat
        BY <3>2 DEF Auth!ContextFails
      <4>3. released' \in BOOLEAN
        BY <3>2, Zenon DEF Auth!ContextFails
      <4>2. /\ phase' \in [Conns -> {"none", "guarded", "authenticating", "serving", "ended"}]
            /\ socket' \in [Conns -> {"none", "open", "closing", "closed"}]
            /\ answer' \in [Conns -> {"none", "success", "failure"}]
        BY <3>2 DEF Auth!ContextFails
      <4> QED
        BY <3>2, <4>1, <4>2, <4>3 DEF Auth!ContextFails
    <3>3. CASE Auth!TimesOut(c)
      BY <3>3 DEF Auth!TimesOut
    <3> QED
      BY <2>2, <3>1, <3>2, <3>3
  <2>3. ASSUME NEW c \in Conns, Auth!SocketCloses(c) \/ Auth!Finalized(c)
        PROVE AuthTypes'
    <3>1. CASE Auth!SocketCloses(c)
      <4>1. references' \in Int /\ releases' \in Nat
        BY <3>1 DEF Auth!SocketCloses, Auth!OnClosed
      <4>3. released' \in BOOLEAN
        BY <3>1, Zenon DEF Auth!SocketCloses, Auth!OnClosed
      <4>2. holder' \in [Conns -> {"none", "held", "stray", "dropped", "collected"}]
        BY <3>1 DEF Auth!SocketCloses, Auth!OnClosed
      <4> HIDE DEF Auth!Drop
      <4> QED
        BY <3>1, <4>1, <4>2, <4>3 DEF Auth!SocketCloses
    <3>2. CASE Auth!Finalized(c)
      <4>1. references' \in Int /\ releases' \in Nat
        BY <3>2 DEF Auth!Finalized
      <4>3. released' \in BOOLEAN
        BY <3>2, Zenon DEF Auth!Finalized
      <4>2. socket' \in [Conns -> {"none", "open", "closing", "closed"}]
        BY <3>2 DEF Auth!Finalized
      <4> HIDE DEF Auth!OnRelease, Auth!Revoked
      <4> QED
        BY <3>2, <4>1, <4>2, <4>3 DEF Auth!Finalized
    <3> QED
      BY <2>3, <3>1, <3>2
  <2>4. ASSUME NEW c \in Conns, \/ Auth!GuardRejects(c) \/ Auth!GuardAccepts(c)
                                \/ \E k \in Passkeys : Auth!Connects(c, k)
                                \/ Auth!ClientOpens(c) \/ Auth!ClientReceivesAnswer(c)
                                \/ Auth!ClientLeaves(c)
        PROVE AuthTypes'
    BY <2>4 DEF Auth!GuardRejects, Auth!GuardAccepts, Auth!Connects, Auth!ClientOpens,
                Auth!ClientReceivesAnswer, Auth!ClientLeaves
  <2>5. ASSUME Auth!ClientCreated PROVE AuthTypes'
    <3> DEFINE Valid == {c \in Auth!Awaiting("creating") \cup Auth!Awaiting("joining") :
                            Auth!AssertValid(c)}
    <3>1. Valid \subseteq Conns
      BY DEF Auth!Awaiting
    <3>2. Auth!Cardinality(Valid) \in Nat
      BY <3>1, AuthFinite, AuthCardinality
    <3> QED
      BY <2>5, <3>2 DEF Auth!ClientCreated
  <2>6. ASSUME Auth!CreationFails PROVE AuthTypes'
    BY <2>6 DEF Auth!CreationFails
  <2>7. ASSUME Auth!ForceTerminate PROVE AuthTypes'
    BY <2>7 DEF Auth!ForceTerminate
  <2> HIDE DEF AuthTypes
  <2> QED
    BY <1>2, <2>1, <2>2, <2>3, <2>4, <2>5, <2>6, <2>7 DEF Auth!Next, Auth!ServerStep, Auth!ClientStep
<1> QED
  BY <1>1, <1>2

LEMMA AuthConnsKept == ASSUME AuthInv, [Auth!Next]_authVars PROVE AuthConnsInv'
<1> USE DEF AuthInv, AuthTypes, AuthConnsInv, AuthConnInv, Auth!clientVars, Auth!connVars
<1>1. CASE UNCHANGED authVars
  BY <1>1 DEF authVars
<1>2. CASE Auth!Next
  <2> USE DEF Auth!OnRelease, Auth!Revoked, Auth!Drop, Auth!Fails
  <2>1. ASSUME NEW c \in Conns, Auth!ReceivesPacket(c) PROVE AuthConnsInv'
    BY <2>1 DEF Auth!ReceivesPacket, Auth!FirstToCome, Auth!NotAllowed, Auth!Joins,
                Auth!ComesLater, Auth!ComesInVain, Auth!AssertValid
  <2>2. ASSUME NEW c \in Conns, Auth!Authenticated(c) \/ Auth!ContextFails(c) \/ Auth!TimesOut(c)
        PROVE AuthConnsInv'
    BY <2>2 DEF Auth!Authenticated, Auth!ContextFails, Auth!TimesOut, Auth!SocketServed
  <2>3. ASSUME NEW c \in Conns, Auth!SocketCloses(c) \/ Auth!Finalized(c)
        PROVE AuthConnsInv'
    BY <2>3 DEF Auth!SocketCloses, Auth!Finalized, Auth!OnClosed
  <2>4. ASSUME NEW c \in Conns, \/ Auth!GuardRejects(c) \/ Auth!GuardAccepts(c)
                                \/ \E k \in Passkeys : Auth!Connects(c, k)
                                \/ Auth!ClientOpens(c) \/ Auth!ClientReceivesAnswer(c)
                                \/ Auth!ClientLeaves(c)
        PROVE AuthConnsInv'
    BY <2>4 DEF Auth!GuardRejects, Auth!GuardAccepts, Auth!Connects, Auth!ClientOpens,
                Auth!ClientReceivesAnswer, Auth!ClientLeaves
  <2>5. ASSUME Auth!ClientCreated \/ Auth!CreationFails \/ Auth!ForceTerminate PROVE AuthConnsInv'
    BY <2>5 DEF Auth!ClientCreated, Auth!CreationFails, Auth!ForceTerminate, Auth!Awaiting,
                Auth!AssertValid
  <2> HIDE DEF AuthConnsInv
  <2> QED
    BY <1>2, <2>1, <2>2, <2>3, <2>4, <2>5 DEF Auth!Next, Auth!ServerStep, Auth!ClientStep
<1> QED
  BY <1>1, <1>2

(* What may happen to the count of the client and to its holders.          *)
LEMMA AuthMoreCalled ==
    ASSUME AuthInv, AuthConnsInv', entry = "client", entry' = "client", references' = references,
           UNCHANGED <<released, releases, terminated>>,
           AuthHolders' = AuthHolders, AuthCalled \subseteq AuthCalled'
    PROVE  AuthCountInv'
<1>1. AuthCalled \subseteq Conns /\ AuthCalled' \subseteq Conns /\ AuthHolders \subseteq Conns
  BY DEF AuthCalled, AuthHolders
<1>2. Cardinality(AuthCalled) <= Cardinality(AuthCalled')
  BY <1>1, AuthFinite, FS_Subset
<1> QED
  BY <1>1, <1>2, AuthFinite DEF AuthInv, AuthCountInv, AuthTypes

LEMMA AuthOneLess ==
    ASSUME AuthInv, NEW c \in Conns, c \in AuthHolders,
           entry = "client", entry' = "client", references' = references - 1,
           AuthHolders' = AuthHolders \ {c}, AuthCalled \subseteq AuthCalled',
           terminated' = terminated,
           IF references' = 0 THEN Auth!OnRelease ELSE UNCHANGED <<released, releases>>
    PROVE  AuthCountInv' /\ (references' = 0 => AuthHolders' = {})
<1>1. AuthCalled \subseteq Conns /\ AuthCalled' \subseteq Conns /\ AuthHolders \subseteq Conns
  BY DEF AuthCalled, AuthHolders
<1>2. Cardinality(AuthCalled) <= Cardinality(AuthCalled')
  BY <1>1, AuthFinite, FS_Subset
<1>3. Cardinality(AuthHolders') = Cardinality(AuthHolders) - 1
  BY <1>1, AuthFinite, FS_RemoveElement
<1>4. Cardinality(AuthHolders) \in Nat \ {0} /\ Cardinality(AuthHolders') \in Nat
  BY <1>1, AuthFinite
<1>5. AuthCountInv'
  BY <1>1, <1>2, <1>3, <1>4, AuthFinite DEF AuthInv, AuthCountInv, AuthTypes, Auth!OnRelease
<1>6. references' = 0 => AuthHolders' = {}
  BY <1>1, <1>3, <1>4, AuthFinite DEF AuthInv, AuthCountInv, AuthTypes
<1> QED
  BY <1>5, <1>6

LEMMA AuthOneMore ==
    ASSUME AuthInv, NEW c \in Conns, c \notin AuthHolders, c \notin AuthCalled,
           entry = "client", entry' = "client", Auth!MayHold, references' = Auth!Held(1),
           AuthCalled' = AuthCalled \cup {c},
           \/ AuthHolders' = AuthHolders \cup {c}
           \/ AuthHolders' = AuthHolders /\ released,
           UNCHANGED <<released, releases, terminated>>
    PROVE  AuthCountInv'
<1>1. AuthCalled \subseteq Conns /\ AuthHolders \subseteq Conns
  BY DEF AuthCalled, AuthHolders
<1>2. /\ Cardinality(AuthCalled') = Cardinality(AuthCalled) + 1
      /\ Cardinality(AuthHolders \cup {c}) = Cardinality(AuthHolders) + 1
  BY <1>1, AuthFinite, FS_AddElement
<1>3. Cardinality(AuthHolders) \in Nat /\ Cardinality(AuthCalled) \in Nat
  BY <1>1, AuthFinite
<1>4. references \in Nat \ {0} /\ references' = references + 1
  BY <1>3 DEF AuthInv, AuthCountInv, AuthTypes, Auth!MayHold, Auth!Held
<1>5. released <=> terminated
  BY <1>4 DEF AuthInv, AuthCountInv, AuthTypes
<1>6. CASE AuthHolders' = AuthHolders \cup {c}
  BY <1>2, <1>3, <1>4, <1>5, <1>6 DEF AuthInv, AuthCountInv, AuthTypes
<1>7. CASE AuthHolders' = AuthHolders /\ released
  BY <1>2, <1>3, <1>4, <1>5, <1>7 DEF AuthInv, AuthCountInv, AuthTypes
<1> QED
  BY <1>6, <1>7

(* Whoever drops its holder has one.                                       *)
LEMMA AuthDrops ==
    ASSUME AuthInv, NEW c \in Conns, holder[c] = "held", Auth!Drop,
           holder' = [holder EXCEPT ![c] = "dropped"], AuthCalled \subseteq AuthCalled',
           UNCHANGED <<entry, terminated>>
    PROVE  AuthCountInv' /\ (released' # released => AuthHolders' = {})
<1>1. c \in AuthHolders /\ AuthHolders' = AuthHolders \ {c} /\ entry = "client"
  BY DEF AuthHolders, AuthInv, AuthTypes, AuthConnsInv, AuthConnInv
<1>2. AuthHolders \subseteq Conns /\ AuthCalled \subseteq Conns /\ AuthCalled' \subseteq Conns
  BY DEF AuthCalled, AuthHolders
<1>3. CASE ~released
  <2>1. references' = references - 1
    BY <1>3 DEF Auth!Drop
  <2>2. IF references' = 0 THEN Auth!OnRelease ELSE UNCHANGED <<released, releases>>
    BY <1>3 DEF Auth!Drop
  <2>3. AuthCountInv' /\ (references' = 0 => AuthHolders' = {})
    BY <1>1, <2>1, <2>2, AuthOneLess, Zenon
  <2> QED
    BY <2>2, <2>3
<1>4. CASE released
  <2>1. UNCHANGED <<references, released, releases>>
    BY <1>4 DEF Auth!Drop
  <2>2. Cardinality(AuthHolders) # 0
    BY <1>1, <1>2, AuthFinite
  <2>3. terminated
    BY <1>1, <1>4, <2>2 DEF AuthInv, AuthCountInv
  <2>4. Cardinality(AuthHolders') <= Cardinality(AuthHolders)
    BY <1>1, <1>2, AuthFinite, FS_Subset
  <2>5. Cardinality(AuthCalled) <= Cardinality(AuthCalled')
    BY <1>2, AuthFinite, FS_Subset
  <2>6. /\ Cardinality(AuthHolders) \in Nat /\ Cardinality(AuthHolders') \in Nat
        /\ Cardinality(AuthCalled) \in Nat /\ Cardinality(AuthCalled') \in Nat
    BY <1>1, <1>2, AuthFinite
  <2> QED
    BY <1>1, <1>4, <2>1, <2>3, <2>4, <2>5, <2>6 DEF AuthInv, AuthCountInv, AuthTypes
<1> QED
  BY <1>3, <1>4 DEF AuthInv, AuthTypes

LEMMA AuthCountsKept == ASSUME AuthInv, [Auth!Next]_authVars PROVE AuthCountInv'
<1> USE DEF Auth!clientVars, Auth!connVars
<1>0. AuthTypes /\ AuthConnsInv /\ AuthConnsInv' /\ AuthTypes'
  BY AuthTypesKept, AuthConnsKept DEF AuthInv
<1>1. ASSUME UNCHANGED <<entry, references, released, releases, terminated, holder>>,
             AuthCalled \subseteq AuthCalled'
      PROVE  AuthCountInv'
  <2>1. AuthHolders' = AuthHolders
    BY <1>1 DEF AuthHolders
  <2>2. CASE entry = "client"
    BY <1>0, <1>1, <2>1, <2>2, AuthMoreCalled
  <2>3. CASE entry # "client"
    BY <1>1, <2>3 DEF AuthInv, AuthCountInv
  <2> QED
    BY <2>2, <2>3
<1>2. CASE UNCHANGED authVars
  BY <1>1, <1>2 DEF authVars, AuthCalled
<1>3. ASSUME NEW c \in Conns, Auth!ReceivesPacket(c) PROVE AuthCountInv'
  <2> USE DEF Auth!ReceivesPacket
  <2>1. c \notin AuthCalled /\ c \notin AuthHolders
    BY <1>0, <1>3 DEF AuthCalled, AuthHolders, AuthConnsInv, AuthConnInv
  <2>2. CASE Auth!FirstToCome(c)
    BY <1>3, <2>2 DEF Auth!FirstToCome, AuthInv, AuthCountInv
  <2>3. CASE Auth!NotAllowed(c) \/ Auth!Joins(c)
    <3>1. AuthCalled \subseteq AuthCalled'
      BY <1>0, <1>3, <2>3 DEF Auth!NotAllowed, Auth!Joins, AuthCalled, AuthTypes
    <3> QED
      BY <1>1, <2>3, <3>1 DEF Auth!NotAllowed, Auth!Joins
  <2>4. CASE Auth!ComesLater(c)
    <3>1. AuthCalled' = AuthCalled \cup {c} /\ AuthHolders' = AuthHolders \cup {c}
      BY <1>0, <2>4 DEF Auth!ComesLater, AuthCalled, AuthHolders, AuthTypes
    <3> QED
      BY <2>1, <2>4, <3>1, AuthOneMore DEF Auth!ComesLater
  <2>5. CASE Auth!ComesInVain(c)
    <3>1. AuthCalled' = AuthCalled \cup {c} /\ AuthHolders' = AuthHolders
      BY <1>0, <2>5 DEF Auth!ComesInVain, AuthCalled, AuthHolders, AuthTypes
    <3>2. UNCHANGED <<entry, released, releases, terminated, holder>>
      BY <2>5 DEF Auth!ComesInVain
    <3>3. CASE entry = "client" /\ Auth!MayHold /\ released
      <4>1. references' = Auth!Held(1)
        BY <2>5, <3>3 DEF Auth!ComesInVain
      <4> QED
        BY <2>1, <3>1, <3>2, <3>3, <4>1, AuthOneMore
    <3>4. CASE ~(entry = "client" /\ Auth!MayHold /\ released)
      <4>1. references' = references
        BY <2>5, <3>4 DEF Auth!ComesInVain
      <4> QED
        BY <1>1, <3>1, <3>2, <4>1
    <3> QED
      BY <3>3, <3>4
  <2> QED
    BY <1>3, <2>2, <2>3, <2>4, <2>5
<1>4. ASSUME NEW c \in Conns, Auth!Authenticated(c) PROVE AuthCountInv'
  <2>1. AuthHolders' = AuthHolders /\ AuthCalled' = AuthCalled
    BY <1>0, <1>4 DEF Auth!Authenticated, AuthHolders, AuthCalled, AuthTypes, AuthConnsInv,
                      AuthConnInv
  <2>2. entry = "client"
    BY <1>0, <1>4 DEF Auth!Authenticated, AuthConnsInv, AuthConnInv
  <2> QED
    BY <1>0, <1>4, <2>1, <2>2, AuthMoreCalled DEF Auth!Authenticated
<1>5. ASSUME NEW c \in Conns, Auth!ContextFails(c) PROVE AuthCountInv'
  <2>1. AuthCalled \subseteq AuthCalled' /\ holder[c] = "held"
    BY <1>0, <1>5 DEF Auth!ContextFails, AuthCalled, AuthTypes, AuthConnsInv, AuthConnInv
  <2> QED
    BY <1>5, <2>1, AuthDrops DEF Auth!ContextFails
<1>6. ASSUME NEW c \in Conns, Auth!SocketCloses(c) PROVE AuthCountInv'
  <2>1. AuthCalled \subseteq AuthCalled'
    BY <1>6 DEF Auth!SocketCloses, AuthCalled
  <2>2. CASE phase[c] = "serving"
    <3>1. holder[c] = "held"
      BY <1>0, <2>2 DEF AuthConnsInv, AuthConnInv
    <3> QED
      BY <1>6, <2>1, <2>2, <3>1, AuthDrops DEF Auth!SocketCloses, Auth!OnClosed
  <2>3. CASE phase[c] # "serving"
    BY <1>1, <1>6, <2>1, <2>3 DEF Auth!SocketCloses, Auth!OnClosed
  <2> QED
    BY <2>2, <2>3
<1>7. ASSUME NEW c \in Conns, Auth!Finalized(c) PROVE AuthCountInv'
  <2>1. c \in AuthHolders /\ AuthHolders' = AuthHolders \ {c} /\ entry = "client"
    BY <1>0, <1>7 DEF Auth!Finalized, AuthHolders, AuthTypes, AuthConnsInv, AuthConnInv
  <2>2. AuthCalled \subseteq AuthCalled'
    BY <1>7 DEF Auth!Finalized, AuthCalled
  <2>3. /\ references' = references - 1 /\ terminated' = terminated /\ entry' = "client"
        /\ IF references' = 0 THEN Auth!OnRelease ELSE UNCHANGED <<released, releases>>
    BY <1>7, <2>1 DEF Auth!Finalized
  <2> QED
    BY <2>1, <2>2, <2>3, AuthOneLess, Zenon
<1>8. ASSUME NEW c \in Conns, \/ Auth!GuardRejects(c) \/ Auth!GuardAccepts(c)
                              \/ \E k \in Passkeys : Auth!Connects(c, k)
                              \/ Auth!ClientOpens(c) \/ Auth!ClientReceivesAnswer(c)
                              \/ Auth!ClientLeaves(c) \/ Auth!TimesOut(c)
      PROVE AuthCountInv'
  <2>1. AuthCalled \subseteq AuthCalled'
    BY <1>0, <1>8 DEF Auth!GuardRejects, Auth!GuardAccepts, Auth!Connects, Auth!ClientOpens,
                Auth!ClientReceivesAnswer, Auth!ClientLeaves, Auth!TimesOut, AuthCalled,
                AuthTypes, AuthConnsInv, AuthConnInv
  <2> QED
    BY <1>1, <1>8, <2>1 DEF Auth!GuardRejects, Auth!GuardAccepts, Auth!Connects,
                Auth!ClientOpens, Auth!ClientReceivesAnswer, Auth!ClientLeaves, Auth!TimesOut
<1>9. ASSUME Auth!ClientCreated PROVE AuthCountInv'
  <2> DEFINE Valid == {c \in Auth!Awaiting("creating") \cup Auth!Awaiting("joining") :
                          Auth!AssertValid(c)}
  <2>1. /\ references' = Auth!Held(Cardinality(Valid)) /\ entry = "promise" /\ entry' = "client"
        /\ UNCHANGED <<released, releases, terminated>>
    BY <1>9, AuthCardinality DEF Auth!ClientCreated
  <2>2. AuthHolders' = Valid /\ Valid \subseteq AuthCalled'
    BY <1>0, <1>9 DEF Auth!ClientCreated, AuthHolders, AuthCalled, AuthTypes, AuthConnsInv,
                      AuthConnInv, Auth!Awaiting, Auth!AssertValid
  <2>3. Valid # {}
    BY <1>0, <2>1 DEF AuthConnsInv, AuthConnInv, Auth!Awaiting, Auth!AssertValid
  <2> HIDE DEF Valid
  <2>4. /\ references = -1 /\ ~released /\ releases = 0 /\ ~terminated
    BY <2>1 DEF AuthInv, AuthCountInv
  <2>5. Valid \subseteq Conns /\ AuthCalled' \subseteq Conns
    BY <2>2 DEF AuthCalled
  <2>6. /\ Cardinality(Valid) \in Nat \ {0} /\ Cardinality(AuthCalled') \in Nat
        /\ Cardinality(Valid) <= Cardinality(AuthCalled')
    BY <2>2, <2>3, <2>5, AuthFinite, FS_Subset
  <2>7. references' = Cardinality(Valid)
    BY <2>1, <2>4 DEF Auth!Held
  <2> QED
    BY <2>1, <2>2, <2>4, <2>6, <2>7 DEF AuthCountInv
<1>10. ASSUME Auth!CreationFails PROVE AuthCountInv'
  BY <1>10 DEF Auth!CreationFails, AuthInv, AuthCountInv
<1>11. ASSUME Auth!ForceTerminate PROVE AuthCountInv'
  <2>1. AuthHolders' = AuthHolders /\ AuthCalled' = AuthCalled
    BY <1>11 DEF Auth!ForceTerminate, AuthHolders, AuthCalled
  <2> QED
    BY <1>11, <2>1 DEF Auth!ForceTerminate, Auth!OnRelease, AuthInv, AuthCountInv
<1> QED
  BY <1>2, <1>3, <1>4, <1>5, <1>6, <1>7, <1>8, <1>9, <1>10, <1>11
     DEF Auth!Next, Auth!ServerStep, Auth!ClientStep

(* Served connections of a released client are closed: the last holder     *)
(* that is dropped leaves none, and the other two ways to release close    *)
(* them.                                                                   *)
LEMMA AuthRevokedKept == ASSUME AuthInv, [Auth!Next]_authVars PROVE Auth!RevokedIsClosed'
<1> USE DEF Auth!clientVars, Auth!connVars, Auth!RevokedIsClosed, Auth!Serving
<1>0. AuthTypes /\ AuthConnsInv /\ AuthConnsInv' /\ AuthTypes' /\ Auth!RevokedIsClosed
  BY AuthTypesKept, AuthConnsKept DEF AuthInv
<1>1. CASE UNCHANGED authVars
  BY <1>0, <1>1 DEF authVars
<1>2. ASSUME AuthHolders' = {} PROVE Auth!RevokedIsClosed'
  BY <1>0, <1>2 DEF AuthHolders, AuthConnsInv, AuthConnInv
<1> DEFINE NoneOpened == \A d \in Conns : phase'[d] = "serving" =>
                             phase[d] = "serving" /\ (socket'[d] = "open" => socket[d] = "open")
<1>3. ASSUME released' = released, NoneOpened PROVE Auth!RevokedIsClosed'
  BY <1>0, <1>3
<1>4. ASSUME NEW c \in Conns, Auth!ReceivesPacket(c) \/ Auth!TimesOut(c)
      PROVE Auth!RevokedIsClosed'
  <2>1. released' = released
    BY <1>4 DEF Auth!ReceivesPacket, Auth!FirstToCome, Auth!NotAllowed, Auth!Joins,
         Auth!ComesLater, Auth!ComesInVain, Auth!TimesOut
  <2>2. UNCHANGED <<phase, socket>> \/ Auth!Fails({c})
    BY <1>4 DEF Auth!ReceivesPacket, Auth!FirstToCome, Auth!NotAllowed, Auth!Joins,
         Auth!ComesLater, Auth!ComesInVain, Auth!TimesOut
  <2>3. NoneOpened
    BY <1>0, <2>2 DEF Auth!Fails, AuthTypes
  <2> QED
    BY <1>3, <2>1, <2>3
<1>10. ASSUME NEW c \in Conns, Auth!Authenticated(c) PROVE Auth!RevokedIsClosed'
  BY <1>0, <1>10 DEF Auth!Authenticated, Auth!SocketServed, AuthTypes
<1>5. ASSUME NEW c \in Conns, Auth!ContextFails(c) PROVE Auth!RevokedIsClosed'
  <2>1. AuthCalled \subseteq AuthCalled' /\ holder[c] = "held"
    BY <1>0, <1>5 DEF Auth!ContextFails, AuthCalled, AuthTypes, AuthConnsInv, AuthConnInv
  <2>2. released' # released => AuthHolders' = {}
    BY <1>5, <2>1, AuthDrops DEF Auth!ContextFails
  <2>3. NoneOpened
    BY <1>0, <1>5 DEF Auth!ContextFails, Auth!Fails, AuthTypes
  <2> QED
    BY <1>2, <1>3, <2>2, <2>3
<1>6. ASSUME NEW c \in Conns, Auth!SocketCloses(c) PROVE Auth!RevokedIsClosed'
  <2>1. AuthCalled \subseteq AuthCalled'
    BY <1>6 DEF Auth!SocketCloses, AuthCalled
  <2>2. released' # released => AuthHolders' = {}
    <3>1. CASE phase[c] = "serving"
      BY <1>0, <1>6, <2>1, <3>1, AuthDrops DEF Auth!SocketCloses, Auth!OnClosed, AuthConnsInv, AuthConnInv
    <3>2. CASE phase[c] # "serving"
      BY <1>6, <3>2 DEF Auth!SocketCloses, Auth!OnClosed
    <3> QED
      BY <3>1, <3>2
  <2>3. NoneOpened
    BY <1>0, <1>6 DEF Auth!SocketCloses, AuthTypes
  <2> QED
    BY <1>2, <1>3, <2>2, <2>3
<1>7. ASSUME socket' = Auth!Revoked, phase' = phase PROVE Auth!RevokedIsClosed'
  BY <1>0, <1>7 DEF Auth!Revoked, AuthTypes
<1>11. ASSUME NEW c \in Conns, Auth!Finalized(c) PROVE Auth!RevokedIsClosed'
  <2>1. phase' = phase /\ (socket' = Auth!Revoked \/ UNCHANGED <<released, socket>>)
    BY <1>11 DEF Auth!Finalized
  <2> QED
    BY <1>3, <1>7, <2>1
<1>12. ASSUME Auth!ForceTerminate PROVE Auth!RevokedIsClosed'
  BY <1>7, <1>12 DEF Auth!ForceTerminate
<1>8. ASSUME NEW c \in Conns, \/ Auth!GuardRejects(c) \/ Auth!GuardAccepts(c)
                              \/ \E k \in Passkeys : Auth!Connects(c, k)
                              \/ Auth!ClientOpens(c) \/ Auth!ClientReceivesAnswer(c)
                              \/ Auth!ClientLeaves(c)
      PROVE Auth!RevokedIsClosed'
  <2>1. released' = released
    BY <1>8 DEF Auth!GuardRejects, Auth!GuardAccepts, Auth!Connects, Auth!ClientOpens,
         Auth!ClientReceivesAnswer, Auth!ClientLeaves
  <2>2. NoneOpened
    BY <1>0, <1>8 DEF Auth!GuardRejects, Auth!GuardAccepts, Auth!Connects, Auth!ClientOpens,
         Auth!ClientReceivesAnswer, Auth!ClientLeaves, AuthTypes
  <2> QED
    BY <1>3, <2>1, <2>2
<1>9. ASSUME Auth!ClientCreated \/ Auth!CreationFails PROVE Auth!RevokedIsClosed'
  <2>1. released' = released /\ \E C : Auth!Fails(C)
    BY <1>9 DEF Auth!ClientCreated, Auth!CreationFails
  <2>2. NoneOpened
    BY <1>0, <2>1 DEF Auth!Fails, AuthTypes
  <2> QED
    BY <1>3, <2>1, <2>2
<1> HIDE DEF Auth!RevokedIsClosed, Auth!Serving
<1> QED
  BY <1>1, <1>4, <1>5, <1>6, <1>8, <1>9, <1>10, <1>11, <1>12
     DEF Auth!Next, Auth!ServerStep, Auth!ClientStep

LEMMA AuthInvKept == ASSUME AuthInv, [Auth!Next]_authVars PROVE AuthInv'
BY AuthTypesKept, AuthConnsKept, AuthCountsKept, AuthRevokedKept DEF AuthInv

(* What the run checks follows.                                            *)
LEMMA AuthInvHolds == AuthInv => Auth!TypeOK /\ HoldersAgree
<1> SUFFICES ASSUME AuthInv PROVE Auth!TypeOK /\ HoldersAgree
  OBVIOUS
<1>1. AuthCalled \subseteq Conns /\ AuthHolders \subseteq Conns
  BY DEF AuthCalled, AuthHolders
<1>2. /\ Cardinality(AuthHolders) \in Nat /\ Cardinality(AuthCalled) \in Nat
      /\ Cardinality(Conns) \in Nat /\ Cardinality(AuthCalled) <= Cardinality(Conns)
  BY <1>1, AuthFinite
<1>3. Auth!TypeOK
  <2>1. Auth!Cardinality(Conns) = Cardinality(Conns)
    BY AuthCardinality
  <2>2. references \in -1..Cardinality(Conns) /\ (references = -1 => entry # "client")
    BY <1>2 DEF AuthInv, AuthTypes, AuthCountInv
  <2> QED
    BY <2>1, <2>2 DEF AuthInv, AuthTypes, Auth!TypeOK
<1>4. Auth!ReferencesAreHolders
  BY <1>2, AuthCardinality DEF AuthInv, AuthCountInv, Auth!ReferencesAreHolders, AuthHolders
<1>5. Auth!ReleasedWithLastHolder
  BY DEF AuthInv, AuthCountInv, Auth!ReleasedWithLastHolder
<1>6. Auth!FirstOneTrusted /\ Auth!RevokedIsClosed /\ Auth!StrayOnlyIfLate
  BY DEF AuthInv, AuthConnsInv, AuthConnInv, Auth!FirstOneTrusted, Auth!StrayOnlyIfLate, Auth!Serving
<1> QED
  BY <1>3, <1>4, <1>5, <1>6 DEF HoldersAgree

-----------------------------------------------------------------------------
(* The wait waiting.                                                         *)

QueueCallers == 1..NumPagers

Before(prios, p, q) == prios[p] < prios[q] \/ (prios[p] = prios[q] /\ p < q)

LEMMA NotBeforeItself ==
    ASSUME NEW prios, NEW p \in Nat, prios[p] \in Int PROVE ~ Before(prios, p, p)
BY DEF Before

(* The waiting has those who wait, each once, in the order they are served.  *)
QueueSorted(waiting, prios) ==
    \A i, j \in DOMAIN waiting : i < j => Before(prios, waiting[i], waiting[j])

QueueOf(waiting, Waiting) == \A p \in QueueCallers : p \in Waiting <=> \E k \in DOMAIN waiting : waiting[k] = p

PagersWaiting(prios, promises) == {p \in DOMAIN prios : promises[p] = "pending"}

QueueTypes ==
    /\ pagers \in Seq(QueueCallers) /\ currentlyServing \in QueueCallers \cup {0}
    /\ priority \in Seq(Priorities) /\ Len(priority) <= NumPagers
    /\ pagerPromise \in [QueueCallers -> {"pending", "resolved", "rejected"}]
    /\ pagerHolder \in [QueueCallers -> {"none", "registered", "dropped", "unreachable", "finalized"}]

QueueInv ==
    /\ QueueTypes
    /\ QueueSorted(pagers, priority)
    /\ QueueOf(pagers, PagersWaiting(priority, pagerPromise))
    /\ pagers # <<>> => currentlyServing # 0
    /\ queueLength = Len(pagers) + (IF currentlyServing = 0 THEN 0 ELSE 1)
    /\ \A p \in QueueCallers :
         /\ pagerHolder[p] \in {"registered", "unreachable"} <=> p = currentlyServing
         /\ pagerHolder[p] # "none" => pagerPromise[p] = "resolved"
         /\ p \notin DOMAIN priority => pagerPromise[p] = "pending"

LEMMA QueueConstants ==
    NumPagers \in Nat /\ 0 \notin QueueCallers /\ QueueCallers \subseteq Nat /\ Priorities \subseteq Int
BY SessionsAssumption DEF QueueCallers

LEMMA QueueInitInv == Queue!Init => QueueInv
<1> SUFFICES ASSUME Queue!Init PROVE QueueInv
  OBVIOUS
<1> USE DEF Queue!Init, Queue!Nobody
<1>1. QueueTypes
  BY QueueConstants DEF QueueTypes, QueueCallers
<1> QED
  BY <1>1, QueueConstants DEF QueueInv, QueueSorted, QueueOf, PagersWaiting, QueueCallers

(* A set that goes down to 1 is an interval. *)
LEMMA DownwardClosed ==
    ASSUME NEW m \in Nat, NEW S \in SUBSET (1..m), \A x \in S : \A y \in 1..x : y \in S
    PROVE  S = 1..Cardinality(S) /\ Cardinality(S) \in 0..m
<1>0. IsFiniteSet(1..m) /\ Cardinality(1..m) = m
  BY FS_Interval
<1>1. IsFiniteSet(S) /\ Cardinality(S) \in Nat /\ Cardinality(S) <= m
  BY <1>0, FS_Subset, FS_CardinalityType
<1>2. S \subseteq 1..Cardinality(S)
  <2> SUFFICES ASSUME NEW x \in S, x > Cardinality(S) PROVE FALSE
    BY <1>1
  <2>1. 1..x \in SUBSET S /\ Cardinality(1..x) = x /\ x \in Nat
    BY FS_Interval
  <2> QED
    BY <1>1, <2>1, FS_Subset
<1>3. IsFiniteSet(1..Cardinality(S)) /\ Cardinality(1..Cardinality(S)) = Cardinality(S)
  BY <1>1, FS_Interval
<1>4. S = 1..Cardinality(S)
  BY <1>2, <1>3, FS_Subset
<1> QED
  BY <1>1, <1>4

LEMMA QueueCardinality == ASSUME NEW S PROVE Queue!Cardinality(S) = Cardinality(S)
BY DEF Queue!Cardinality, Cardinality

(* A sequence with an item put in after the first n.                        *)
PutIn(s, n, x) == SubSeq(s, 1, n) \o <<x>> \o SubSeq(s, n + 1, Len(s))

IsPutIn(r, s, n, x) ==
    /\ Len(r) = Len(s) + 1
    /\ \A k \in 1..n : r[k] = s[k]
    /\ r[n + 1] = x
    /\ \A k \in (n + 2)..(Len(s) + 1) : r[k] = s[k - 1]

LEMMA PutInIs ==
    ASSUME NEW S, NEW s \in Seq(S), NEW x \in S, NEW n \in 0..Len(s)
    PROVE  PutIn(s, n, x) \in Seq(S) /\ IsPutIn(PutIn(s, n, x), s, n, x)
<1> DEFINE m == Len(s)
           r == PutIn(s, n, x)
<1>0. m \in Nat /\ \A k \in 1..m : s[k] \in S
  OBVIOUS
<1> DEFINE a == SubSeq(s, 1, n)
           b == SubSeq(s, n + 1, m)
           l == m - n
<1>1. a \in Seq(S) /\ Len(a) = n /\ \A k \in 1..n : a[k] = s[k]
  BY <1>0
<1>2. b \in Seq(S) /\ Len(b) = l /\ \A k \in 1..l : b[k] = s[n + k]
  <2>1. \A k \in (n + 1)..m : s[k] \in S
    BY <1>0
  <2>2. /\ b \in Seq(S)
        /\ Len(b) = IF n + 1 <= m THEN m - (n + 1) + 1 ELSE 0
        /\ \A k \in 1..(m - (n + 1) + 1) : b[k] = s[n + 1 + k - 1]
    BY <1>0, <2>1, SubSeqProperties
  <2> HIDE DEF b
  <2>3. m - (n + 1) + 1 = l /\ \A k \in 1..l : n + 1 + k - 1 = n + k
    BY <1>0
  <2>4. (IF n + 1 <= m THEN m - (n + 1) + 1 ELSE 0) = l
    BY <1>0
  <2> QED
    BY <2>2, <2>3, <2>4
<1> DEFINE c == a \o <<x>>
<1>3. r = c \o b
  BY DEF PutIn
<1>11. n \in 0..m
  OBVIOUS
<1> HIDE DEF a, b, r, m
<1>4. c \in Seq(S) /\ Len(c) = n + 1 /\ (\A k \in 1..n : c[k] = s[k]) /\ c[n + 1] = x
  <2>1. <<x>> \in Seq(S) /\ Len(<<x>>) = 1 /\ <<x>>[1] = x
    OBVIOUS
  <2>2. /\ c \in Seq(S) /\ Len(c) = n + 1
        /\ \A k \in 1..(n + 1) : c[k] = IF k <= n THEN a[k] ELSE <<x>>[k - n]
    BY <1>1, <2>1, ConcatProperties
  <2> HIDE DEF c
  <2>3. ASSUME NEW k \in 1..n PROVE c[k] = s[k]
    BY <1>1, <2>2
  <2>4. c[n + 1] = x
    <3>1. (n + 1) - n = 1 /\ n + 1 \in 1..(n + 1) /\ ~ n + 1 <= n
      OBVIOUS
    <3> QED
      BY <2>1, <2>2, <3>1
  <2> QED
    BY <2>2, <2>3, <2>4
<1> HIDE DEF c
<1>5. /\ r \in Seq(S) /\ Len(r) = (n + 1) + l
      /\ \A k \in 1..((n + 1) + l) : r[k] = IF k <= n + 1 THEN c[k] ELSE b[k - (n + 1)]
  <2>1. /\ c \o b \in Seq(S) /\ Len(c \o b) = Len(c) + Len(b)
        /\ \A k \in 1..(Len(c) + Len(b)) : (c \o b)[k] = IF k <= Len(c) THEN c[k] ELSE b[k - Len(c)]
    BY <1>2, <1>4, ConcatProperties, Zenon
  <2> QED
    BY <1>2, <1>3, <1>4, <2>1, Zenon
<1>6. (n + 1) + l = m + 1
  BY <1>0
<1>7. ASSUME NEW k \in (n + 2)..(m + 1) PROVE r[k] = s[k - 1]
  <2>1. k - (n + 1) \in 1..l /\ ~ k <= n + 1 /\ k \in 1..(m + 1)
        /\ n + (k - (n + 1)) = k - 1
    BY <1>0, <1>11
  <2> QED
    BY <1>2, <1>5, <1>6, <2>1
<1>8. ASSUME NEW k \in 1..(n + 1) PROVE r[k] = c[k]
  <2>1. k \in 1..((n + 1) + l) /\ k <= n + 1
    BY <1>0, <1>11
  <2> QED
    BY <1>5, <2>1
<1>9. \A k \in 1..n : k \in 1..(n + 1)
  OBVIOUS
<1>10. n + 1 \in 1..(n + 1)
  OBVIOUS
<1>12. /\ r \in Seq(S) /\ Len(r) = m + 1
       /\ \A k \in 1..n : r[k] = s[k]
       /\ r[n + 1] = x
       /\ \A k \in (n + 2)..(m + 1) : r[k] = s[k - 1]
  BY <1>4, <1>5, <1>6, <1>7, <1>8, <1>9, <1>10
<1> QED
  BY <1>12 DEF r, m, IsPutIn

(* A pager enters behind those with its priority or a lower one.           *)
LEMMA QueueEnters ==
    ASSUME NEW waiting \in Seq(QueueCallers), NEW p \in QueueCallers, NEW prios \in Seq(Priorities),
           QueueSorted(waiting, prios), p \in DOMAIN prios,
           \A k \in DOMAIN waiting : waiting[k] \in DOMAIN prios /\ waiting[k] < p
    PROVE  /\ Queue!Enter(waiting, p, prios) \in Seq(QueueCallers)
           /\ Queue!Enter(waiting, p, prios) # <<>>
           /\ QueueSorted(Queue!Enter(waiting, p, prios), prios)
           /\ \A q : (\E k \in DOMAIN Queue!Enter(waiting, p, prios) :
                        Queue!Enter(waiting, p, prios)[k] = q)
                     <=> q = p \/ \E k \in DOMAIN waiting : waiting[k] = q
           /\ waiting = <<>> => Queue!Enter(waiting, p, prios) = <<p>>
<1> DEFINE At == {k \in DOMAIN waiting : prios[waiting[k]] <= prios[p]}
           n == Cardinality(At)
           m == Len(waiting)
           r == Queue!Enter(waiting, p, prios)
<1>1. \A k \in DOMAIN waiting : prios[waiting[k]] \in Int /\ prios[p] \in Int
  <2>1. \A q \in DOMAIN prios : prios[q] \in Priorities
    OBVIOUS
  <2> QED
    BY <2>1, QueueConstants
<1>2. m \in Nat /\ DOMAIN waiting = 1..m
  OBVIOUS
<1>3. \A x \in At : \A y \in 1..x : y \in At
  <2> SUFFICES ASSUME NEW x \in At, NEW y \in 1..x, y < x PROVE y \in At
    BY <1>2
  <2>1. y \in DOMAIN waiting /\ x \in DOMAIN waiting
    BY <1>2
  <2>2. prios[waiting[y]] <= prios[waiting[x]]
    BY <1>1, <2>1 DEF QueueSorted, Before
  <2> QED
    BY <1>1, <2>1, <2>2
<1>4. At = 1..n /\ n \in 0..m
  BY <1>2, <1>3, DownwardClosed
<1> HIDE DEF At, n
<1>5. r = SubSeq(waiting, 1, n) \o <<p>> \o SubSeq(waiting, n + 1, m)
  BY QueueCardinality DEF Queue!Enter, n, At
<1> HIDE DEF r
<1>6. /\ r \in Seq(QueueCallers) /\ Len(r) = m + 1
      /\ \A k \in 1..n : r[k] = waiting[k]
      /\ r[n + 1] = p
      /\ \A k \in (n + 2)..(m + 1) : r[k] = waiting[k - 1]
  <2>1. r = PutIn(waiting, n, p)
    BY <1>5 DEF PutIn
  <2>2. n \in 0..Len(waiting)
    BY <1>4
  <2>3. PutIn(waiting, n, p) \in Seq(QueueCallers) /\ IsPutIn(PutIn(waiting, n, p), waiting, n, p)
    BY <2>2, PutInIs, Zenon
  <2> QED
    BY <2>1, <2>3 DEF IsPutIn
<1>7. DOMAIN r = 1..(m + 1)
  BY <1>6
<1>8. QueueSorted(r, prios)
  <2> SUFFICES ASSUME NEW i \in 1..(m + 1), NEW j \in 1..(m + 1), i < j
               PROVE  Before(prios, r[i], r[j])
    BY <1>7 DEF QueueSorted
  <2>1. \A k \in 1..n : prios[waiting[k]] <= prios[p] /\ waiting[k] < p
    BY <1>2, <1>4 DEF At
  <2>2. \A k \in (n + 1)..m : prios[waiting[k]] > prios[p]
    BY <1>1, <1>2, <1>4 DEF At
  <2>3. CASE j <= n
    BY <1>2, <1>4, <1>6, <2>3 DEF QueueSorted
  <2>4. CASE j = n + 1
    <3>1. i \in 1..n /\ r[i] = waiting[i] /\ r[j] = p
      BY <1>2, <1>4, <1>6, <2>4
    <3> QED
      BY <1>1, <2>1, <3>1 DEF Before
  <2>5. CASE j > n + 1
    <3>1. r[j] = waiting[j - 1] /\ j - 1 \in DOMAIN waiting /\ j - 1 \in (n + 1)..m
      BY <1>2, <1>4, <1>6, <2>5
    <3>2. CASE i <= n
      <4>1. r[i] = waiting[i] /\ i \in DOMAIN waiting /\ i < j - 1
        BY <1>2, <1>4, <1>6, <2>5, <3>2
      <4> QED
        BY <3>1, <4>1 DEF QueueSorted
    <3>3. CASE i = n + 1
      BY <1>1, <1>6, <2>2, <3>1, <3>3 DEF Before
    <3>4. CASE i > n + 1
      <4>1. r[i] = waiting[i - 1] /\ i - 1 \in DOMAIN waiting /\ i - 1 < j - 1
        BY <1>2, <1>4, <1>6, <3>4
      <4> QED
        BY <3>1, <4>1 DEF QueueSorted
    <3> QED
      BY <1>4, <3>2, <3>3, <3>4
  <2> QED
    BY <1>4, <2>3, <2>4, <2>5
<1>9. ASSUME NEW q PROVE (\E k \in DOMAIN r : r[k] = q) <=> q = p \/ \E k \in DOMAIN waiting : waiting[k] = q
  <2>1. ASSUME NEW k \in DOMAIN r PROVE r[k] = p \/ \E i \in DOMAIN waiting : waiting[i] = r[k]
    <3>1. k \in 1..n \/ k = n + 1 \/ k \in (n + 2)..(m + 1)
      BY <1>4, <1>7, <2>1
    <3>2. CASE k \in 1..n
      BY <1>2, <1>4, <1>6, <3>2
    <3>3. CASE k \in (n + 2)..(m + 1)
      <4>1. k - 1 \in DOMAIN waiting /\ r[k] = waiting[k - 1]
        BY <1>2, <1>4, <1>6, <3>3
      <4> QED
        BY <4>1
    <3> QED
      BY <1>6, <3>1, <3>2, <3>3
  <2>2. \E k \in DOMAIN r : r[k] = p
    <3>1. n + 1 \in DOMAIN r
      BY <1>2, <1>4, <1>7
    <3> QED
      BY <1>6, <3>1
  <2>3. ASSUME NEW i \in DOMAIN waiting PROVE \E k \in DOMAIN r : r[k] = waiting[i]
    <3>1. CASE i <= n
      BY <1>2, <1>4, <1>6, <1>7, <3>1
    <3>2. CASE i > n
      <4>1. i + 1 \in DOMAIN r /\ i + 1 \in (n + 2)..(m + 1) /\ (i + 1) - 1 = i
        BY <1>2, <1>4, <1>7, <3>2
      <4> QED
        BY <1>6, <4>1
    <3> QED
      BY <1>2, <1>4, <3>1, <3>2
  <2> QED
    BY <2>1, <2>2, <2>3
<1>10. r # <<>>
  BY <1>2, <1>6
<1>11. ASSUME waiting = <<>> PROVE r = <<p>>
  BY <1>2, <1>4, <1>6, <1>11
<1> QED
  BY <1>6, <1>8, <1>9, <1>10, <1>11 DEF r

(* The head of the waiting is served when nobody is.                         *)
QueueReady(waiting, serving, holders, prios) ==
    /\ waiting \in Seq(QueueCallers) /\ serving \in QueueCallers \cup {0}
    /\ holders \in [QueueCallers -> {"none", "registered", "dropped", "unreachable", "finalized"}]
    /\ prios \in Seq(Priorities) /\ Len(prios) <= NumPagers
    /\ QueueSorted(waiting, prios) /\ QueueOf(waiting, PagersWaiting(prios, pagerPromise))
    /\ \A p \in QueueCallers :
         /\ holders[p] \in {"registered", "unreachable"} <=> p = serving
         /\ holders[p] # "none" => pagerPromise[p] = "resolved"
         /\ p \notin DOMAIN prios => pagerPromise[p] = "pending"

QueueServes(prios) ==
    \A p, q \in DOMAIN prios :
       pagerPromise[p] = "pending" /\ pagerPromise'[p] = "resolved" /\ pagerPromise[q] = "pending"
       /\ pagerPromise'[q] = "pending" => Before(prios, p, q)

LEMMA QueueAdvances ==
    ASSUME NEW waiting, NEW serving, NEW holders, QueueTypes,
           QueueReady(waiting, serving, holders, priority'),
           Queue!TryAdvancingQueue(waiting, serving, holders)
    PROVE  QueueInv' /\ QueueServes(priority')
<1>0. /\ waiting \in Seq(QueueCallers) /\ serving \in QueueCallers \cup {0}
      /\ holders \in [QueueCallers -> {"none", "registered", "dropped", "unreachable", "finalized"}]
      /\ priority' \in Seq(Priorities) /\ Len(priority') <= NumPagers
      /\ QueueSorted(waiting, priority') /\ QueueOf(waiting, PagersWaiting(priority', pagerPromise))
      /\ \A p \in QueueCallers :
           /\ holders[p] \in {"registered", "unreachable"} <=> p = serving
           /\ holders[p] # "none" => pagerPromise[p] = "resolved"
           /\ p \notin DOMAIN priority' => pagerPromise[p] = "pending"
  BY DEF QueueReady
<1>3. DOMAIN priority' \subseteq QueueCallers
  BY <1>0, QueueConstants DEF QueueCallers
<1> USE DEF Queue!TryAdvancingQueue, Queue!Nobody
<1>1. CASE ~ (serving = 0 /\ waiting # <<>>)
  <2>1. /\ pagers' = waiting /\ currentlyServing' = serving /\ pagerHolder' = holders
        /\ pagerPromise' = pagerPromise
        /\ queueLength' = Len(waiting) + (IF serving = 0 THEN 0 ELSE 1)
    BY <1>1
  <2>2. QueueTypes'
    BY <1>0, <2>1 DEF QueueTypes
  <2>3. QueueInv'
    BY <1>0, <1>1, <2>1, <2>2 DEF QueueInv, QueueOf, QueueSorted, PagersWaiting
  <2> QED
    BY <2>1, <2>3 DEF QueueServes
<1>2. CASE serving = 0 /\ waiting # <<>>
  <2> DEFINE h == Head(waiting)
  <2>1. /\ pagers' = Tail(waiting) /\ currentlyServing' = h
        /\ pagerHolder' = [holders EXCEPT ![h] = "registered"]
        /\ pagerPromise' = [pagerPromise EXCEPT ![h] = "resolved"]
        /\ queueLength' = Len(pagers') + (IF currentlyServing' = 0 THEN 0 ELSE 1)
    BY <1>2
  <2>2. /\ h \in QueueCallers /\ h = waiting[1] /\ 1 \in DOMAIN waiting /\ Len(waiting) \in Nat \ {0}
        /\ Tail(waiting) \in Seq(QueueCallers) /\ Len(Tail(waiting)) = Len(waiting) - 1
        /\ \A k \in DOMAIN Tail(waiting) : Tail(waiting)[k] = waiting[k + 1] /\ k + 1 \in DOMAIN waiting /\ k \in Nat \ {0}
        /\ \A k \in DOMAIN waiting : k # 1 => k - 1 \in DOMAIN Tail(waiting) /\ Tail(waiting)[k - 1] = waiting[k]
    BY <1>0, <1>2
  <2>3. h \in PagersWaiting(priority', pagerPromise) /\ h # 0 /\ 0 \notin QueueCallers
    BY <1>0, <2>2, QueueConstants DEF QueueOf
  <2>4. \A k \in DOMAIN waiting : k # 1 => Before(priority', h, waiting[k]) /\ waiting[k] # h
    <3> SUFFICES ASSUME NEW k \in DOMAIN waiting, k # 1 PROVE Before(priority', h, waiting[k]) /\ waiting[k] # h
      OBVIOUS
    <3>1. 1 < k /\ waiting[k] \in QueueCallers
      BY <1>0, <2>2
    <3>2. Before(priority', h, waiting[k])
      BY <1>0, <2>2, <3>1 DEF QueueSorted
    <3>3. h \in DOMAIN priority' /\ priority'[h] \in Int
      <4>1. h \in DOMAIN priority'
        BY <2>3 DEF PagersWaiting
      <4>2. \A q \in DOMAIN priority' : priority'[q] \in Priorities
        BY <1>0
      <4> QED
        BY <4>1, <4>2, QueueConstants
    <3>4. ~ Before(priority', h, h)
      BY <2>2, <3>3, NotBeforeItself, QueueConstants
    <3> HIDE DEF h
    <3> QED
      BY <3>2, <3>4
  <2>5. QueueTypes'
    BY <1>0, <2>1, <2>2 DEF QueueTypes
  <2>6. QueueSorted(pagers', priority')
    <3> SUFFICES ASSUME NEW i \in DOMAIN Tail(waiting), NEW j \in DOMAIN Tail(waiting), i < j
                 PROVE  Before(priority', Tail(waiting)[i], Tail(waiting)[j])
      BY <2>1 DEF QueueSorted
    <3>1. i + 1 < j + 1 /\ i + 1 \in DOMAIN waiting /\ j + 1 \in DOMAIN waiting
      BY <2>2
    <3> QED
      BY <1>0, <2>2, <3>1 DEF QueueSorted
  <2>7. QueueOf(pagers', PagersWaiting(priority', pagerPromise'))
    <3> SUFFICES ASSUME NEW p \in QueueCallers
                 PROVE  p \in PagersWaiting(priority', pagerPromise')
                          <=> \E k \in DOMAIN Tail(waiting) : Tail(waiting)[k] = p
      BY <2>1 DEF QueueOf
    <3>1. p \in PagersWaiting(priority', pagerPromise') <=> p \in PagersWaiting(priority', pagerPromise) /\ p # h
      BY <2>1, <2>2 DEF PagersWaiting, QueueTypes
    <3>2. p \in PagersWaiting(priority', pagerPromise) <=> \E k \in DOMAIN waiting : waiting[k] = p
      BY <1>0 DEF QueueOf
    <3>3. (\E k \in DOMAIN Tail(waiting) : Tail(waiting)[k] = p) => (\E k \in DOMAIN waiting : waiting[k] = p /\ k # 1)
      <4> SUFFICES ASSUME NEW k \in DOMAIN Tail(waiting), Tail(waiting)[k] = p
                   PROVE  \E i \in DOMAIN waiting : waiting[i] = p /\ i # 1
        OBVIOUS
      <4>1. waiting[k + 1] = p /\ k + 1 \in DOMAIN waiting /\ k + 1 # 1
        BY <2>2
      <4> QED
        BY <4>1
    <3>4. (\E k \in DOMAIN waiting : waiting[k] = p /\ k # 1) => (\E k \in DOMAIN Tail(waiting) : Tail(waiting)[k] = p)
      <4> SUFFICES ASSUME NEW k \in DOMAIN waiting, waiting[k] = p, k # 1
                   PROVE  \E i \in DOMAIN Tail(waiting) : Tail(waiting)[i] = p
        OBVIOUS
      <4>1. k - 1 \in DOMAIN Tail(waiting) /\ Tail(waiting)[k - 1] = p
        BY <2>2
      <4> QED
        BY <4>1
    <3>5. p # h => \A k \in DOMAIN waiting : waiting[k] = p => k # 1
      BY <2>2
    <3>6. \A k \in DOMAIN waiting : waiting[k] = p /\ k # 1 => p # h
      BY <2>4
    <3> QED
      BY <3>1, <3>2, <3>3, <3>4, <3>5, <3>6, Zenon
  <2>8. \A p \in QueueCallers :
         /\ pagerHolder'[p] \in {"registered", "unreachable"} <=> p = currentlyServing'
         /\ pagerHolder'[p] # "none" => pagerPromise'[p] = "resolved"
         /\ p \notin DOMAIN priority' => pagerPromise'[p] = "pending"
    <3> SUFFICES ASSUME NEW p \in QueueCallers
                 PROVE /\ pagerHolder'[p] \in {"registered", "unreachable"} <=> p = h
                       /\ pagerHolder'[p] # "none" => pagerPromise'[p] = "resolved"
                       /\ p \notin DOMAIN priority' => pagerPromise'[p] = "pending"
      BY <2>1
    <3>1. CASE p = h
      BY <1>0, <2>1, <2>2, <2>3, <3>1 DEF QueueTypes, PagersWaiting
    <3>2. CASE p # h
      <4>1. pagerHolder'[p] = holders[p] /\ pagerPromise'[p] = pagerPromise[p]
        BY <1>0, <2>1, <2>2, <3>2 DEF QueueTypes
      <4> QED
        BY <1>0, <1>2, <2>3, <3>2, <4>1
    <3> QED
      BY <3>1, <3>2
  <2>9. QueueInv'
    BY <2>1, <2>3, <2>5, <2>6, <2>7, <2>8 DEF QueueInv
  <2>10. ASSUME NEW p \in DOMAIN priority', NEW q \in DOMAIN priority',
                pagerPromise[p] = "pending", pagerPromise'[p] = "resolved",
                pagerPromise[q] = "pending", pagerPromise'[q] = "pending"
         PROVE  Before(priority', p, q)
    <3>1. p = h /\ q # h
      BY <1>3, <2>1, <2>2, <2>10 DEF QueueTypes
    <3>2. \E k \in DOMAIN waiting : waiting[k] = q
      BY <1>0, <1>3, <2>10 DEF QueueOf, PagersWaiting
    <3> QED
      BY <2>2, <2>4, <3>1, <3>2
  <2> QED
    BY <2>9, <2>10 DEF QueueServes
<1> QED
  BY <1>1, <1>2

QueueServesInOrder == QueueServes(priority)

LEMMA QueueEntersInv ==
    ASSUME QueueInv, NEW p \in QueueCallers, NEW prios \in Priorities, Queue!EnterQueue(p, prios)
    PROVE  QueueInv' /\ QueueServesInOrder
<1> DEFINE q == Queue!Enter(pagers, p, priority')
<1>1. /\ p = Len(priority) + 1 /\ priority' = Append(priority, prios)
      /\ Queue!TryAdvancingQueue(q, currentlyServing, pagerHolder)
  BY DEF Queue!EnterQueue
<1>2. QueueTypes /\ QueueSorted(pagers, priority) /\ QueueOf(pagers, PagersWaiting(priority, pagerPromise))
  BY DEF QueueInv
<1>3. /\ priority' \in Seq(Priorities) /\ Len(priority') = p /\ p \in DOMAIN priority' /\ p <= NumPagers
      /\ \A k \in DOMAIN priority : priority'[k] = priority[k] /\ k < p /\ k \in DOMAIN priority'
      /\ \A k \in DOMAIN priority' : k # p => k \in DOMAIN priority
      /\ p \notin DOMAIN priority
  BY <1>1, <1>2, QueueConstants DEF QueueTypes, QueueCallers
<1>4. DOMAIN priority \subseteq QueueCallers
  BY <1>1, <1>2, QueueConstants DEF QueueTypes, QueueCallers
<1>5. pagers \in Seq(QueueCallers) /\ \A k \in DOMAIN pagers : pagers[k] \in QueueCallers
  BY <1>2 DEF QueueTypes
<1>6. \A k \in DOMAIN pagers : pagers[k] \in DOMAIN priority
  BY <1>2, <1>5 DEF QueueOf, PagersWaiting
<1>7. QueueSorted(pagers, priority')
  BY <1>2, <1>3, <1>6 DEF QueueSorted, Before
<1>8. /\ q \in Seq(QueueCallers) /\ q # <<>> /\ QueueSorted(q, priority')
      /\ \A r : (\E k \in DOMAIN q : q[k] = r) <=> r = p \/ \E k \in DOMAIN pagers : pagers[k] = r
      /\ pagers = <<>> => q = <<p>>
  <2>1. \A k \in DOMAIN pagers : pagers[k] \in DOMAIN priority' /\ pagers[k] < p
    BY <1>3, <1>6
  <2> QED
    BY <1>3, <1>5, <1>7, <2>1, QueueEnters
<1> HIDE DEF q
<1>9. QueueOf(q, PagersWaiting(priority', pagerPromise))
  <2> SUFFICES ASSUME NEW r \in QueueCallers
               PROVE  r \in PagersWaiting(priority', pagerPromise) <=> \E k \in DOMAIN q : q[k] = r
    BY DEF QueueOf
  <2>1. pagerPromise[p] = "pending"
    BY <1>3 DEF QueueInv
  <2>2. r \in PagersWaiting(priority', pagerPromise) <=> r = p \/ r \in PagersWaiting(priority, pagerPromise)
    BY <1>3, <2>1 DEF PagersWaiting
  <2> QED
    BY <1>2, <1>8, <2>2 DEF QueueOf
<1>10. \A r \in QueueCallers :
         /\ pagerHolder[r] \in {"registered", "unreachable"} <=> r = currentlyServing
         /\ pagerHolder[r] # "none" => pagerPromise[r] = "resolved"
         /\ r \notin DOMAIN priority' => pagerPromise[r] = "pending"
  BY <1>3 DEF QueueInv
<1>11. /\ pagerHolder \in [QueueCallers -> {"none", "registered", "dropped", "unreachable", "finalized"}]
       /\ currentlyServing \in QueueCallers \cup {0} /\ Len(priority') <= NumPagers
  BY <1>2, <1>3 DEF QueueTypes
<1>14. QueueReady(q, currentlyServing, pagerHolder, priority')
  BY <1>3, <1>8, <1>9, <1>10, <1>11 DEF QueueReady
<1>12. QueueInv'
  BY <1>1, <1>2, <1>14, QueueAdvances
<1>13. ASSUME NEW r \in DOMAIN priority PROVE ~ (pagerPromise[r] = "pending" /\ pagerPromise'[r] = "resolved")
  <2>1. CASE currentlyServing = 0
    <3>1. pagers = <<>> /\ q = <<p>> /\ Head(q) = p
      BY <1>8, <2>1 DEF QueueInv
    <3>2. pagerPromise' = [pagerPromise EXCEPT ![p] = "resolved"] /\ r # p /\ r \in QueueCallers
      BY <1>1, <1>3, <1>4, <2>1, <3>1 DEF Queue!TryAdvancingQueue, Queue!Nobody
    <3> QED
      BY <1>2, <3>2 DEF QueueTypes
  <2>2. CASE currentlyServing # 0
    BY <1>1, <2>2 DEF Queue!TryAdvancingQueue, Queue!Nobody
  <2> QED
    BY <2>1, <2>2
<1> QED
  BY <1>12, <1>13 DEF QueueServesInOrder, QueueServes

(* The holder is prios back, by whoever drops it or in the end by the      *)
(* garbage collector.                                                      *)
LEMMA QueueGivesBack ==
    ASSUME QueueInv, NEW p \in QueueCallers, NEW end \in {"dropped", "finalized"},
           pagerHolder[p] \in {"registered", "unreachable"},
           Queue!TryAdvancingQueue(pagers, 0, [pagerHolder EXCEPT ![p] = end]),
           priority' = priority
    PROVE  QueueInv' /\ QueueServesInOrder
<1> DEFINE holders == [pagerHolder EXCEPT ![p] = end]
<1>1. QueueTypes /\ QueueSorted(pagers, priority) /\ QueueOf(pagers, PagersWaiting(priority, pagerPromise))
  BY DEF QueueInv
<1>2. holders \in [QueueCallers -> {"none", "registered", "dropped", "unreachable", "finalized"}]
  BY <1>1 DEF QueueTypes
<1>3. \A r \in QueueCallers :
         /\ holders[r] \in {"registered", "unreachable"} <=> r = 0
         /\ holders[r] # "none" => pagerPromise[r] = "resolved"
         /\ r \notin DOMAIN priority' => pagerPromise[r] = "pending"
  BY <1>1, QueueConstants DEF QueueInv, QueueTypes
<1>4. pagers \in Seq(QueueCallers) /\ priority' \in Seq(Priorities) /\ Len(priority') <= NumPagers
  BY <1>1 DEF QueueTypes
<1> HIDE DEF holders
<1>5. Queue!TryAdvancingQueue(pagers, 0, holders)
  BY DEF holders
<1>6. QueueReady(pagers, 0, holders, priority')
  BY <1>1, <1>2, <1>3, <1>4 DEF QueueReady
<1> QED
  BY <1>1, <1>5, <1>6, QueueAdvances DEF QueueServesInOrder

(* A pager leaves: the ones before and behind it keep their order.         *)
EachOnce(waiting) == \A i, j \in DOMAIN waiting : waiting[i] = waiting[j] => i = j

IsWithout(r, waiting, p) ==
    \A q : (\E k \in DOMAIN r : r[k] = q) <=> q # p /\ \E k \in DOMAIN waiting : waiting[k] = q

LEMMA QueueWithout ==
    ASSUME NEW waiting \in Seq(QueueCallers), NEW prios, NEW p, QueueSorted(waiting, prios),
           EachOnce(waiting)
    PROVE  /\ Queue!Without(waiting, p) \in Seq(QueueCallers)
           /\ QueueSorted(Queue!Without(waiting, p), prios)
           /\ IsWithout(Queue!Without(waiting, p), waiting, p)
<1> DEFINE r == Queue!Without(waiting, p)
<1>1. CASE ~ \E k \in DOMAIN waiting : waiting[k] = p
  BY <1>1 DEF Queue!Without, IsWithout
<1>2. CASE \E k \in DOMAIN waiting : waiting[k] = p
  <2> DEFINE spot == CHOOSE k \in DOMAIN waiting : waiting[k] = p
  <2>1. spot \in DOMAIN waiting /\ waiting[spot] = p
    BY <1>2
  <2> DEFINE l == Len(waiting) - 1
             From(k) == IF k < spot THEN k ELSE k + 1
  <2>2. r = [k \in 1..l |-> waiting[From(k)]]
    BY <1>2 DEF Queue!Without
  <2> HIDE DEF spot, r
  <2>3. l \in Nat /\ DOMAIN waiting = 1..(l + 1) /\ spot \in 1..(l + 1)
    BY <2>1
  <2> HIDE DEF l
  <2>4. \A k \in 1..l : From(k) \in DOMAIN waiting /\ From(k) # spot
    BY <2>3
  <2>5. \A i, j \in 1..l : i < j => From(i) < From(j)
    BY <2>3
  <2>6. \A k \in DOMAIN waiting : k # spot => \E i \in 1..l : From(i) = k
    <3> SUFFICES ASSUME NEW k \in DOMAIN waiting, k # spot PROVE \E i \in 1..l : From(i) = k
      OBVIOUS
    <3>1. CASE k < spot
      BY <2>3, <3>1
    <3>2. CASE k > spot
      <4>1. k - 1 \in 1..l /\ From(k - 1) = k
        BY <2>3, <3>2
      <4> QED
        BY <4>1
    <3> QED
      BY <2>3, <3>1, <3>2
  <2> HIDE DEF From
  <2>7. r \in Seq(QueueCallers) /\ DOMAIN r = 1..l
    BY <2>2, <2>3, <2>4
  <2>8. QueueSorted(r, prios)
    BY <2>2, <2>4, <2>5, <2>7 DEF QueueSorted
  <2>9. ASSUME NEW q PROVE (\E k \in DOMAIN r : r[k] = q) <=> q # p /\ \E k \in DOMAIN waiting : waiting[k] = q
    BY <2>1, <2>2, <2>4, <2>6, <2>7 DEF EachOnce
  <2> QED
    BY <2>7, <2>8, <2>9 DEF r, IsWithout
<1> QED
  BY <1>1, <1>2

LEMMA QueueEachOnce ==
    ASSUME QueueInv PROVE EachOnce(pagers)
<1> SUFFICES ASSUME NEW i \in DOMAIN pagers, NEW j \in DOMAIN pagers, i < j PROVE pagers[i] # pagers[j]
  BY DEF QueueInv, QueueTypes, EachOnce
<1>1. Before(priority, pagers[i], pagers[j]) /\ pagers[i] \in QueueCallers
  BY DEF QueueInv, QueueSorted, QueueTypes
<1>2. pagers[i] \in DOMAIN priority
  BY <1>1 DEF QueueInv, QueueOf, PagersWaiting
<1>4. \A k \in DOMAIN priority : priority[k] \in Priorities
  BY DEF QueueInv, QueueTypes
<1>3. priority[pagers[i]] \in Int
  BY <1>2, <1>4, QueueConstants
<1>5. ~ Before(priority, pagers[i], pagers[i])
  BY <1>1, <1>3, NotBeforeItself, QueueConstants
<1> QED
  BY <1>1, <1>5

LEMMA QueueExitsInv ==
    ASSUME QueueInv, NEW p \in QueueCallers, Queue!Exit(p) PROVE QueueInv' /\ QueueServesInOrder
<1>1. QueueTypes /\ QueueSorted(pagers, priority) /\ QueueOf(pagers, PagersWaiting(priority, pagerPromise))
  BY DEF QueueInv
<1>2. /\ p \in DOMAIN priority /\ pagerPromise[p] # "rejected"
      /\ pagerPromise' = [pagerPromise EXCEPT ![p] = IF @ = "pending" THEN "rejected" ELSE @]
      /\ pagers' = Queue!Without(pagers, p)
      /\ queueLength' = Len(pagers') + (IF currentlyServing = 0 THEN 0 ELSE 1)
      /\ pagerHolder' = [pagerHolder EXCEPT ![p] = IF @ = "registered" THEN "unreachable" ELSE @]
      /\ UNCHANGED <<currentlyServing, priority>>
  BY DEF Queue!Exit, Queue!Entered, Queue!Nobody
<1>3. /\ pagers' \in Seq(QueueCallers) /\ QueueSorted(pagers', priority)
      /\ \A q : (\E k \in DOMAIN pagers' : pagers'[k] = q) <=> q # p /\ \E k \in DOMAIN pagers : pagers[k] = q
  <2>1. pagers \in Seq(QueueCallers) /\ EachOnce(pagers)
    BY <1>1, QueueEachOnce DEF QueueTypes
  <2>2. pagers' \in Seq(QueueCallers) /\ QueueSorted(pagers', priority) /\ IsWithout(pagers', pagers, p)
    BY <1>1, <1>2, <2>1, QueueWithout
  <2> QED
    BY <2>2 DEF IsWithout
<1>4. QueueTypes'
  BY <1>1, <1>2, <1>3 DEF QueueTypes
<1>5. QueueOf(pagers', PagersWaiting(priority', pagerPromise'))
  BY <1>1, <1>2, <1>3 DEF QueueOf, PagersWaiting, QueueTypes
<1>6. pagers' # <<>> => currentlyServing' # 0
  <2> SUFFICES ASSUME pagers' # <<>> PROVE currentlyServing # 0
    BY <1>2
  <2>1. 1 \in DOMAIN pagers'
    BY <1>3
  <2>2. \E k \in DOMAIN pagers : TRUE
    BY <1>3, <2>1
  <2>3. pagers # <<>>
    BY <2>2
  <2> QED
    BY <2>3 DEF QueueInv
<1>7. \A r \in QueueCallers :
         /\ pagerHolder'[r] \in {"registered", "unreachable"} <=> r = currentlyServing'
         /\ pagerHolder'[r] # "none" => pagerPromise'[r] = "resolved"
         /\ r \notin DOMAIN priority' => pagerPromise'[r] = "pending"
  BY <1>1, <1>2 DEF QueueInv, QueueTypes
<1>8. QueueInv'
  BY <1>2, <1>3, <1>4, <1>5, <1>6, <1>7 DEF QueueInv
<1>9. DOMAIN priority \subseteq QueueCallers
  BY <1>1, QueueConstants DEF QueueTypes, QueueCallers
<1> QED
  BY <1>1, <1>2, <1>8, <1>9 DEF QueueServesInOrder, QueueServes, QueueTypes

LEMMA QueueClearedInv == ASSUME QueueInv, Queue!ClearQueue PROVE QueueInv' /\ QueueServesInOrder
<1>1. QueueTypes /\ QueueSorted(pagers, priority) /\ QueueOf(pagers, PagersWaiting(priority, pagerPromise))
  BY DEF QueueInv
<1>2. /\ pagerPromise' = [p \in QueueCallers |-> IF \E k \in DOMAIN pagers : pagers[k] = p
                                              THEN "rejected" ELSE pagerPromise[p]]
      /\ pagers' = <<>> /\ queueLength' = IF currentlyServing = 0 THEN 0 ELSE 1
      /\ UNCHANGED <<currentlyServing, priority, pagerHolder>>
  BY DEF Queue!ClearQueue, Queue!Nobody, QueueCallers
<1>3. QueueTypes'
  BY <1>1, <1>2 DEF QueueTypes
<1>4. \A p \in QueueCallers : p \in PagersWaiting(priority, pagerPromise) <=> \E k \in DOMAIN pagers : pagers[k] = p
  BY <1>1 DEF QueueOf
<1>5. QueueOf(pagers', PagersWaiting(priority', pagerPromise')) /\ QueueSorted(pagers', priority')
  BY <1>2, <1>4 DEF QueueOf, PagersWaiting, QueueSorted
<1>6. \A r \in QueueCallers :
         /\ pagerHolder'[r] \in {"registered", "unreachable"} <=> r = currentlyServing'
         /\ pagerHolder'[r] # "none" => pagerPromise'[r] = "resolved"
         /\ r \notin DOMAIN priority' => pagerPromise'[r] = "pending"
  BY <1>2, <1>4 DEF QueueInv, PagersWaiting
<1>7. QueueInv'
  BY <1>2, <1>3, <1>5, <1>6 DEF QueueInv
<1>8. DOMAIN priority \subseteq QueueCallers
  BY <1>1, QueueConstants DEF QueueTypes, QueueCallers
<1> QED
  BY <1>2, <1>7, <1>8 DEF QueueServesInOrder, QueueServes

LEMMA QueueInvKept ==
    ASSUME QueueInv, [Queue!Next]_waitQueueVars PROVE QueueInv' /\ [QueueServesInOrder]_waitQueueVars
<1>1. CASE UNCHANGED waitQueueVars
  BY <1>1 DEF waitQueueVars, QueueInv, QueueTypes, QueueSorted, QueueOf, PagersWaiting, Before
<1>2. ASSUME NEW p \in 1..NumPagers, Queue!Drop(p) \/ Queue!Finalize(p) PROVE QueueInv' /\ QueueServesInOrder
  <2>1. \E end \in {"dropped", "finalized"} :
          Queue!TryAdvancingQueue(pagers, 0, [pagerHolder EXCEPT ![p] = end])
    BY <1>2 DEF Queue!Drop, Queue!Finalize, Queue!Nobody
  <2>2. pagerHolder[p] \in {"registered", "unreachable"} /\ priority' = priority /\ p \in QueueCallers
    BY <1>2 DEF Queue!Drop, Queue!Finalize, QueueCallers
  <2> QED
    BY <2>1, <2>2, QueueGivesBack
<1> QED
  BY <1>1, <1>2, QueueEntersInv, QueueExitsInv, QueueClearedInv DEF Queue!Next, QueueCallers

(* What the run checks follows. *)
LEMMA QueueInvHolds == QueueInv => Queue!OneHolder
<1> SUFFICES ASSUME QueueInv PROVE Queue!OneHolder
  OBVIOUS
<1> DEFINE InUse == {p \in 1..NumPagers : pagerHolder[p] \in {"registered", "unreachable"}}
           PendingPagers == {p \in Queue!Entered : pagerPromise[p] = "pending"}
<1>1. InUse = {currentlyServing} \ {0}
  BY QueueConstants DEF QueueInv, QueueTypes, QueueCallers
<1>2. Cardinality(InUse) = IF currentlyServing = 0 THEN 0 ELSE 1
  BY <1>1, FS_Singleton, FS_EmptySet
<1>3. Cardinality(PendingPagers) = Len(pagers)
  <2> DEFINE n == Len(pagers)
  <2>1. n \in Nat /\ DOMAIN pagers = 1..n /\ pagers \in Seq(QueueCallers)
    BY DEF QueueInv, QueueTypes
  <2>2. DOMAIN priority \subseteq QueueCallers
    BY QueueConstants DEF QueueInv, QueueTypes, QueueCallers
  <2>3. \A p : p \in PendingPagers <=> \E k \in 1..n : pagers[k] = p
    <3>1. \A p \in QueueCallers : p \in PendingPagers <=> \E k \in 1..n : pagers[k] = p
      BY <2>1 DEF QueueInv, QueueOf, PagersWaiting, Queue!Entered
    <3>2. PendingPagers \subseteq QueueCallers /\ \A k \in 1..n : pagers[k] \in QueueCallers
      BY <2>1, <2>2 DEF Queue!Entered
    <3> QED
      BY <3>1, <3>2
  <2> HIDE DEF PendingPagers
  <2>4. pagers \in [1..n -> PendingPagers]
    BY <2>1, <2>3
  <2> HIDE DEF n
  <2>5. pagers \in Bijection(1..n, PendingPagers)
    <3>1. \A i, j \in 1..n : pagers[i] = pagers[j] => i = j
      BY <2>1, QueueEachOnce DEF EachOnce
    <3>2. \A p \in PendingPagers : \E k \in 1..n : pagers[k] = p
      BY <2>3
    <3> QED
      BY <2>4, <3>1, <3>2 DEF Bijection, Injection, Surjection, IsInjective
  <2>6. ExistsBijection(1..n, PendingPagers)
    BY <2>5 DEF ExistsBijection
  <2>8. IsFiniteSet(1..n) /\ Cardinality(1..n) = n
    BY <2>1, FS_Interval
  <2>7. Cardinality(PendingPagers) = Cardinality(1..n)
    BY <2>6, <2>8, FS_Bijection
  <2> QED
    BY <2>7, <2>8 DEF n
<1> QED
  BY <1>1, <1>2, <1>3, QueueCardinality DEF Queue!OneHolder, Queue!Nobody, QueueInv

-----------------------------------------------------------------------------
(* Buffered events.                                                        *)

(* A queue with the events from heard + 1 to emitted, behind a mark or not. *)
MarksOf(q, heards, emitted) == Len(q) - (emitted - heards)

HasAllOf(q, heards, emitted) ==
    /\ heards <= emitted
    /\ MarksOf(q, heards, emitted) \in {0, 1}
    /\ MarksOf(q, heards, emitted) = 1 => q[1] = 0
    /\ \A k \in 1..(emitted - heards) : q[k + MarksOf(q, heards, emitted)] = heards + k

BufferedInv ==
    /\ queued \in Seq(Nat) /\ size \in Seq(Nat) /\ eventHeard \in Seq(Nat)
    /\ subscriber \in Nat /\ eventSubscribed \in Nat
    /\ queuedItemsCount \in Int
    /\ ~ overflowed =>
         /\ HasAllOf(queued, Len(eventHeard), Len(size))
         /\ queuedItemsCount = Len(size) - Len(eventHeard)
         /\ ~ isNotifying /\ subscriber # 0 => queued = <<>>

LEMMA BufferedInitInv == Buffered!Init => BufferedInv
BY DEF Buffered!Init, BufferedInv, HasAllOf, MarksOf

LEMMA BufferedCardinality == ASSUME NEW S PROVE Buffered!Cardinality(S) = Cardinality(S)
BY DEF Buffered!Cardinality, Cardinality

(* The events of such a queue. *)
LEMMA EventsOfQueue ==
    ASSUME NEW q \in Seq(Nat), NEW heards \in Nat, NEW emitted \in Nat, HasAllOf(q, heards, emitted)
    PROVE  Buffered!Events(q) = [k \in 1..(emitted - heards) |-> heards + k]
<1> DEFINE m == MarksOf(q, heards, emitted)
           n == emitted - heards
           EventsTo(i) == {j \in 1..i : q[j] # 0}
           place(k) == CHOOSE i \in EventsTo(Len(q)) : Buffered!Cardinality(EventsTo(i)) = k
<1>1. m \in {0, 1} /\ n \in Nat /\ Len(q) = n + m
  BY DEF HasAllOf, MarksOf
<1>2. (m = 1 => q[1] = 0) /\ \A k \in 1..n : q[k + m] = heards + k
  BY DEF HasAllOf
<1>3. Buffered!Events(q) = [k \in 1..Buffered!Cardinality(EventsTo(Len(q))) |-> q[place(k)]]
  BY DEF Buffered!Events, Buffered!WaitForNextMicroTask
<1> HIDE DEF m, n
<1>4. \A j \in (m + 1)..(n + m) : q[j] # 0
  <2> SUFFICES ASSUME NEW j \in (m + 1)..(n + m) PROVE q[j] # 0
    OBVIOUS
  <2>1. j - m \in 1..n /\ (j - m) + m = j
    BY <1>1
  <2>2. q[j] = heards + (j - m)
    BY <1>2, <2>1
  <2> QED
    BY <1>1, <2>1, <2>2
<1>5. ASSUME NEW i \in m..(n + m) PROVE EventsTo(i) = (m + 1)..i /\ Buffered!Cardinality(EventsTo(i)) = i - m
  <2>1. EventsTo(i) = (m + 1)..i
    BY <1>1, <1>2, <1>4
  <2>2. /\ m + 1 \in Int /\ i \in Int
        /\ (IF m + 1 > i THEN 0 ELSE i - (m + 1) + 1) = i - m
    BY <1>1
  <2>3. Cardinality((m + 1)..i) = IF m + 1 > i THEN 0 ELSE i - (m + 1) + 1
    BY <2>2, FS_Interval
  <2> QED
    BY <2>1, <2>2, <2>3, BufferedCardinality
<1> HIDE DEF EventsTo
<1>6. EventsTo(Len(q)) = (m + 1)..(n + m) /\ Buffered!Cardinality(EventsTo(Len(q))) = n
  BY <1>1, <1>5
<1>7. ASSUME NEW k \in 1..n PROVE place(k) = k + m
  <2>1. k + m \in EventsTo(Len(q)) /\ Buffered!Cardinality(EventsTo(k + m)) = k
    <3>1. k + m \in m..(n + m) /\ k + m \in (m + 1)..(n + m) /\ (k + m) - m = k
      BY <1>1
    <3> QED
      BY <1>5, <1>6, <3>1
  <2>2. ASSUME NEW i \in EventsTo(Len(q))
        PROVE  Buffered!Cardinality(EventsTo(i)) = i - m /\ i \in Int
    <3>1. i \in m..(n + m)
      BY <1>1, <1>6
    <3> QED
      BY <1>1, <1>5, <3>1
  <2>3. place(k) \in EventsTo(Len(q)) /\ Buffered!Cardinality(EventsTo(place(k))) = k
    BY <2>1
  <2> QED
    BY <1>1, <2>2, <2>3
<1> HIDE DEF place
<1>8. \A k \in 1..n : q[place(k)] = heards + k
  BY <1>2, <1>7
<1>9. Buffered!Events(q) = [k \in 1..n |-> heards + k]
  BY <1>3, <1>6, <1>8
<1> QED
  BY <1>9 DEF n

LEMMA EventEmitted ==
    ASSUME BufferedInv, NEW itemSize \in 0..1, Buffered!Emit(itemSize) PROVE BufferedInv'
<1>1. /\ ~ overflowed /\ size' = Append(size, itemSize) /\ overflowed' = Buffered!Overflows(itemSize)
      /\ UNCHANGED <<subscriber, eventSubscribed, eventHeard>>
      /\ IF Buffered!Overflows(itemSize) THEN Buffered!Overflow ELSE Buffered!Accept(itemSize)
  BY DEF Buffered!Emit
<1>2. size' \in Seq(Nat) /\ Len(size') = Len(size) + 1 /\ Len(size) \in Nat /\ Len(eventHeard) \in Nat
  BY <1>1 DEF BufferedInv
<1>3. CASE Buffered!Overflows(itemSize)
  BY <1>1, <1>2, <1>3 DEF Buffered!Overflow, BufferedInv
<1>4. CASE ~ Buffered!Overflows(itemSize)
  <2> DEFINE q == Append(Buffered!Marked, Len(size) + 1)
             h == Len(eventHeard)
             s == Len(size)
  <2>1. queuedItemsCount' = queuedItemsCount + 1
    BY <1>1, <1>4 DEF Buffered!Accept
  <2>2. \/ queued' = q /\ UNCHANGED <<isNotifying, notifier>> /\ (isNotifying \/ subscriber' = 0)
        \/ ~ isNotifying /\ subscriber' # 0 /\ queued' = Tail(q) /\ isNotifying' = TRUE
    BY <1>1, <1>4 DEF Buffered!Accept, Buffered!Notify
  <2>3. /\ Buffered!Marked \in Seq(Nat) /\ HasAllOf(Buffered!Marked, h, s)
        /\ queued = <<>> => Buffered!Marked = <<0>> /\ h = s
    <3>1. queued \in Seq(Nat) /\ HasAllOf(queued, h, s)
      BY <1>1 DEF BufferedInv
    <3>2. CASE queued = <<>>
      <4>1. h = s
        BY <1>2, <3>1, <3>2 DEF HasAllOf, MarksOf
      <4>2. Buffered!Marked = <<0>>
        BY <3>2 DEF Buffered!Marked, Buffered!WaitForNextMicroTask
      <4>3. HasAllOf(<<0>>, h, s)
        BY <1>2, <4>1 DEF HasAllOf, MarksOf
      <4> QED
        BY <4>1, <4>2, <4>3
    <3>3. CASE queued # <<>>
      BY <3>1, <3>3 DEF Buffered!Marked
    <3> QED
      BY <3>2, <3>3
  <2> DEFINE p == Buffered!Marked
  <2> HIDE DEF p
  <2>4. q \in Seq(Nat) /\ Len(q) = Len(p) + 1 /\ (\A k \in 1..Len(p) : q[k] = p[k]) /\ q[Len(p) + 1] = s + 1
    BY <1>2, <2>3 DEF p
  <2>5. p \in Seq(Nat) /\ HasAllOf(p, h, s) /\ h \in Nat /\ s \in Nat
    BY <1>2, <2>3 DEF p
  <2> HIDE DEF q, h, s
  <2>6. HasAllOf(q, h, s + 1)
    <3> DEFINE m == MarksOf(p, h, s)
    <3>1. m \in {0, 1} /\ Len(p) = (s - h) + m /\ h <= s
      BY <2>5 DEF HasAllOf, MarksOf
    <3>2. MarksOf(q, h, s + 1) = m
      BY <2>4, <2>5 DEF MarksOf
    <3>3. m = 1 => q[1] = 0
      BY <2>4, <2>5, <3>1 DEF HasAllOf
    <3>4. ASSUME NEW k \in 1..((s + 1) - h) PROVE q[k + m] = h + k
      <4>1. CASE k = (s + 1) - h
        <5>1. k + m = Len(p) + 1 /\ h + k = s + 1
          BY <2>5, <3>1, <4>1
        <5> QED
          BY <2>4, <5>1
      <4>2. CASE k # (s + 1) - h
        <5>1. k \in 1..(s - h) /\ k + m \in 1..Len(p)
          BY <2>5, <3>1, <4>2
        <5>2. p[k + m] = h + k
          BY <2>5, <5>1 DEF HasAllOf
        <5> QED
          BY <2>4, <5>1, <5>2
      <4> QED
        BY <4>1, <4>2
    <3>5. h <= s + 1
      BY <2>5, <3>1
    <3> HIDE DEF m
    <3> QED
      BY <3>1, <3>2, <3>3, <3>4, <3>5 DEF HasAllOf
  <2>7. CASE queued' = q /\ UNCHANGED <<isNotifying, notifier>> /\ (isNotifying \/ subscriber' = 0)
    BY <1>1, <1>2, <1>4, <2>1, <2>4, <2>6, <2>7 DEF BufferedInv, h, s
  <2>8. CASE ~ isNotifying /\ subscriber' # 0 /\ queued' = Tail(q) /\ isNotifying' = TRUE
    <3>1. queued = <<>>
      BY <1>1, <2>8 DEF BufferedInv
    <3>2. p = <<0>> /\ h = s
      BY <2>3, <3>1 DEF p, h, s
    <3>6. Len(p) = 1
      BY <3>2
    <3>3. Len(q) = 2 /\ q[2] = s + 1 /\ q \in Seq(Nat)
      BY <2>4, <3>6
    <3> DEFINE t == Tail(q)
    <3>4. t \in Seq(Nat) /\ Len(t) = 1 /\ t[1] = s + 1
      <4>1. q # <<>>
        BY <3>3
      <4>2. /\ t \in Seq(Nat) /\ Len(t) = Len(q) - 1
            /\ \A k \in 1..Len(t) : t[k] = q[k + 1]
        BY <3>3, <4>1, HeadTailProperties
      <4> HIDE DEF t
      <4>3. Len(t) = 1 /\ 1 \in 1..Len(t) /\ 1 + 1 = 2
        BY <3>3, <4>2
      <4> QED
        BY <3>3, <4>2, <4>3
    <3>7. queued' = t
      BY <2>8
    <3> HIDE DEF t
    <3>5. HasAllOf(t, h, s + 1)
      <4>1. (s + 1) - h = 1 /\ MarksOf(t, h, s + 1) = 0
        BY <2>5, <3>2, <3>4 DEF MarksOf
      <4>2. \A k \in 1..1 : t[k + 0] = h + k
        BY <2>5, <3>2, <3>4
      <4>3. h <= s + 1
        BY <2>5, <3>2
      <4> QED
        BY <4>1, <4>2, <4>3 DEF HasAllOf
    <3>8. ~ overflowed' => HasAllOf(queued', Len(eventHeard'), Len(size'))
      BY <1>1, <1>2, <3>5, <3>7 DEF h, s
    <3>9. queuedItemsCount' = Len(size') - Len(eventHeard') /\ queuedItemsCount' \in Int
      BY <1>1, <1>2, <2>1 DEF BufferedInv
    <3>10. /\ queued' \in Seq(Nat) /\ size' \in Seq(Nat) /\ eventHeard' \in Seq(Nat)
           /\ subscriber' \in Nat /\ eventSubscribed' \in Nat
      BY <1>1, <1>2, <3>4, <3>7 DEF BufferedInv
    <3>11. isNotifying'
      BY <2>8
    <3> QED
      BY <3>8, <3>9, <3>10, <3>11, Zenon DEF BufferedInv
  <2> QED
    BY <2>2, <2>7, <2>8
<1> QED
  BY <1>3, <1>4

LEMMA EventsSubscribed == ASSUME BufferedInv, Buffered!Subscribe PROVE BufferedInv'
<1>1. /\ ~ overflowed /\ subscriber = 0
      /\ eventSubscribed' = eventSubscribed + 1 /\ subscriber' = eventSubscribed + 1
      /\ UNCHANGED <<queuedItemsCount, overflowed, size, eventHeard>>
  BY DEF Buffered!Subscribe
<1>2. CASE isNotifying \/ queued = <<>>
  BY <1>1, <1>2 DEF Buffered!Subscribe, BufferedInv
<1>3. CASE ~ (isNotifying \/ queued = <<>>)
  <2> DEFINE e == Buffered!Events(queued)
             h == Len(eventHeard)
             s == Len(size)
  <2>1. queued' = Tail(<<0>> \o e) /\ isNotifying' = TRUE
    BY <1>1, <1>3 DEF Buffered!Subscribe, Buffered!Notify, BufferedInv, Buffered!WaitForNextMicroTask
  <2>2. queued \in Seq(Nat) /\ h \in Nat /\ s \in Nat /\ HasAllOf(queued, h, s)
    BY <1>1 DEF BufferedInv
  <2>3. e = [k \in 1..(s - h) |-> h + k]
    BY <2>2, EventsOfQueue
  <2> HIDE DEF e, h, s
  <2>4. s - h \in Nat
    BY <2>2 DEF HasAllOf
  <2>5. e \in Seq(Nat) /\ Len(e) = s - h /\ \A k \in 1..(s - h) : e[k] = h + k
    <3> DEFINE n == s - h
    <3>1. e = [k \in 1..n |-> h + k] /\ n \in Nat
      BY <2>3, <2>4
    <3> HIDE DEF n
    <3>2. e \in Seq(Nat) /\ Len(e) = n /\ \A k \in 1..n : e[k] = h + k
      BY <2>2, <3>1
    <3> QED
      BY <3>2 DEF n
  <2>6. HasAllOf(e, h, s)
    BY <2>2, <2>4, <2>5 DEF HasAllOf, MarksOf
  <2>7. Tail(<<0>> \o e) = e
    BY <2>5
  <2>8. queued' = e /\ isNotifying' = TRUE
    BY <2>1, <2>7
  <2>9. Len(eventHeard') = h /\ Len(size') = s
    BY <1>1 DEF h, s
  <2>10. ~ overflowed' => HasAllOf(queued', Len(eventHeard'), Len(size'))
    BY <2>6, <2>8, <2>9
  <2> QED
    BY <1>1, <2>5, <2>8, <2>10 DEF BufferedInv
<1> QED
  BY <1>2, <1>3

(* The notifier takes an item from the queue, a mark or the next event. *)
LEMMA EventTaken ==
    ASSUME NEW q \in Seq(Nat), NEW h \in Nat, NEW s \in Nat, HasAllOf(q, h, s), q # <<>>
    PROVE  /\ Tail(q) \in Seq(Nat)
           /\ q[1] = 0 => HasAllOf(Tail(q), h, s)
           /\ q[1] # 0 => HasAllOf(Tail(q), h + 1, s)
<1> DEFINE m == MarksOf(q, h, s)
           t == Tail(q)
<1>1. m \in {0, 1} /\ Len(q) = (s - h) + m /\ h <= s
  BY DEF HasAllOf, MarksOf
<1>2. (m = 1 => q[1] = 0) /\ \A k \in 1..(s - h) : q[k + m] = h + k
  BY DEF HasAllOf
<1>3. t \in Seq(Nat) /\ Len(t) = Len(q) - 1 /\ (\A k \in 1..Len(t) : t[k] = q[k + 1]) /\ Len(q) \in Nat \ {0}
  BY HeadTailProperties
<1> HIDE DEF m, t
<1>4. ASSUME q[1] = 0 PROVE HasAllOf(t, h, s)
  <2>1. m = 1
    <3> SUFFICES ASSUME m = 0 PROVE FALSE
      BY <1>1
    <3>1. 1 \in 1..(s - h) /\ 1 + m = 1
      BY <1>1, <1>3
    <3>2. q[1] = h + 1
      BY <1>2, <3>1
    <3> QED
      BY <1>4, <3>2
  <2>2. MarksOf(t, h, s) = 0
    BY <1>1, <1>3, <2>1 DEF MarksOf
  <2>3. \A k \in 1..(s - h) : t[k] = h + k
    BY <1>1, <1>2, <1>3, <2>1
  <2> QED
    BY <1>1, <2>2, <2>3 DEF HasAllOf
<1>5. ASSUME q[1] # 0 PROVE HasAllOf(t, h + 1, s)
  <2>1. m = 0
    BY <1>1, <1>2, <1>5
  <2>2. MarksOf(t, h + 1, s) = 0 /\ h + 1 <= s
    BY <1>1, <1>3, <2>1 DEF MarksOf
  <2>3. ASSUME NEW k \in 1..(s - (h + 1)) PROVE t[k] = h + 1 + k
    <3>1. k + 1 \in 1..(s - h) /\ k \in 1..Len(t) /\ (k + 1) + m = k + 1 /\ h + (k + 1) = h + 1 + k
      BY <1>1, <1>3, <2>1
    <3> QED
      BY <1>2, <1>3, <3>1
  <2> QED
    BY <2>2, <2>3 DEF HasAllOf
<1> QED
  BY <1>3, <1>4, <1>5 DEF t

LEMMA BufferedInvKept == ASSUME BufferedInv, [Buffered!Next]_bufferedVars PROVE BufferedInv'
<1>1. CASE UNCHANGED bufferedVars
  BY <1>1 DEF bufferedVars, BufferedInv, HasAllOf, MarksOf
<1>2. CASE Buffered!Resume \/ Buffered!Return \/ Buffered!Throw
  <2>1. UNCHANGED <<queued, size, eventHeard, subscriber, eventSubscribed, queuedItemsCount,
                    overflowed, isNotifying>>
    BY <1>2 DEF Buffered!Resume, Buffered!Return, Buffered!Throw, Buffered!queueVars
  <2> QED
    BY <2>1 DEF BufferedInv, HasAllOf, MarksOf
<1>6. CASE Buffered!Unsubscribe
  BY <1>6 DEF Buffered!Unsubscribe, Buffered!queueVars, BufferedInv, HasAllOf, MarksOf
<1>3. CASE Buffered!Stop
  BY <1>3 DEF Buffered!Stop, Buffered!queueVars, BufferedInv, HasAllOf, MarksOf
<1>4. CASE Buffered!Call
  <2>1. /\ queued # <<>> /\ Head(queued) # 0 /\ queued' = Tail(queued)
        /\ queuedItemsCount' = queuedItemsCount - 1
        /\ eventHeard' = Append(eventHeard, subscriber)
        /\ UNCHANGED <<isNotifying, overflowed, subscriber, eventSubscribed, size>>
    BY <1>4 DEF Buffered!Call, Buffered!WaitForNextMicroTask
  <2>2. /\ eventHeard' \in Seq(Nat) /\ Len(eventHeard') = Len(eventHeard) + 1
        /\ queued[1] # 0 /\ Len(eventHeard) \in Nat /\ Len(size) \in Nat
    BY <2>1 DEF BufferedInv
  <2>3. Tail(queued) \in Seq(Nat)
    BY <2>1 DEF BufferedInv
  <2>4. ~ overflowed => HasAllOf(Tail(queued), Len(eventHeard) + 1, Len(size))
    BY <2>1, <2>2, EventTaken DEF BufferedInv
  <2>5. ~ overflowed /\ ~ isNotifying /\ subscriber # 0 => FALSE
    BY <2>1 DEF BufferedInv
  <2> QED
    BY <2>1, <2>2, <2>3, <2>4, <2>5 DEF BufferedInv
<1>5. CASE Buffered!Suspend
  <2>1. /\ queued # <<>> /\ Head(queued) = 0 /\ queued' = Tail(queued)
        /\ UNCHANGED <<queuedItemsCount, eventHeard, isNotifying, overflowed, subscriber,
                       eventSubscribed, size>>
    BY <1>5 DEF Buffered!Suspend, Buffered!WaitForNextMicroTask
  <2>2. queued[1] = 0 /\ Len(eventHeard) \in Nat /\ Len(size) \in Nat
    BY <2>1 DEF BufferedInv
  <2>3. Tail(queued) \in Seq(Nat)
    BY <2>1 DEF BufferedInv
  <2>4. ~ overflowed => HasAllOf(Tail(queued), Len(eventHeard), Len(size))
    BY <2>1, <2>2, EventTaken DEF BufferedInv
  <2>5. ~ overflowed /\ ~ isNotifying /\ subscriber # 0 => FALSE
    BY <2>1 DEF BufferedInv
  <2> QED
    BY <2>1, <2>3, <2>4, <2>5 DEF BufferedInv
<1> QED
  BY <1>1, <1>2, <1>3, <1>4, <1>5, <1>6, EventEmitted, EventsSubscribed DEF Buffered!Next

LEMMA BufferedInvHolds == BufferedInv => Buffered!HeardOnceInOrder
<1> SUFFICES ASSUME BufferedInv, ~ overflowed
             PROVE  /\ Buffered!Events(queued)
                         = [k \in 1..(Len(size) - Len(eventHeard)) |-> Len(eventHeard) + k]
                    /\ queuedItemsCount = Len(size) - Len(eventHeard)
  BY DEF Buffered!HeardOnceInOrder
<1>1. Len(size) \in Nat /\ Len(eventHeard) \in Nat
  BY DEF BufferedInv
<1> QED
  BY <1>1, EventsOfQueue DEF BufferedInv

-----------------------------------------------------------------------------
(* The methods that await a channel.                                       *)

AwaitedTypes ==
    /\ method \in Awaited!Methods
    /\ promise \in {"none", "pending", "thrown", "resolved", "reason", "error"}
    /\ awaitedChannel \in {"none", "open", "errored", "closed"}
    /\ awaitedToServer \in Seq({"cancel", "end"})

AwaitedInv ==
    /\ AwaitedTypes
    /\ promise = "none" => awaitedChannel = "none" /\ ~ awaitedFinished
    /\ promise = "pending" => awaitedChannel # "none" /\ ~ awaitedFinished
    /\ awaitedAborted => method \in Awaited!Signalled
    /\ promise = "pending" /\ method \in Awaited!Signalled /\ ~ awaitedAborted => awaitedListening
    /\ promise = "pending" /\ awaitedAborted =>
         /\ method \in {"downloadArtifact", "downloadModel", "downloadRuntime"}
         /\ awaitedChannel = "open" /\ method = "downloadRuntime" =>
              \E k \in DOMAIN awaitedToServer : awaitedToServer[k] = "cancel"
    /\ Awaited!RejectionsAreHandled
    /\ Awaited!LeftWaitingOnlyIfDeaf

(* The rows of the table. *)
LEMMA AwaitedMethods ==
    /\ Awaited!Methods = {"load", "model", "retrieve", "parseDocument", "downloadArtifact",
                          "downloadModel", "downloadRuntime", "pushArtifact",
                          "ensureAuthenticated", "whenDisconnected", "registerDevelopmentPlugin"}
    /\ Awaited!Handling["load"] = Awaited!Load
    /\ Awaited!Handling["model"] = Awaited!GetOrLoad
    /\ Awaited!Handling["retrieve"] = Awaited!Retrieve
    /\ Awaited!Handling["parseDocument"] = Awaited!ParseDocument
    /\ Awaited!Handling["downloadArtifact"] = Awaited!DownloadArtifact
    /\ Awaited!Handling["downloadModel"] = Awaited!DownloadModel
    /\ Awaited!Handling["downloadRuntime"] = Awaited!DownloadRuntime
    /\ Awaited!Handling["pushArtifact"] = Awaited!PushArtifact
    /\ Awaited!Handling["ensureAuthenticated"] = Awaited!EnsureAuthenticated
    /\ Awaited!Handling["whenDisconnected"] = Awaited!WhenDisconnected
    /\ Awaited!Handling["registerDevelopmentPlugin"] = Awaited!RegisterDevelopmentPlugin
BY DEF Awaited!Methods, Awaited!Handling

(* What a method does with its signal and with the end of its channel. *)
AwaitedRow(m) ==
    LET r == Awaited!Handling[m] IN
    /\ m \in Awaited!Signalled <=> m \in {"load", "model", "retrieve", "parseDocument",
                                          "downloadArtifact", "downloadModel", "downloadRuntime"}
    /\ m \in {"load", "model", "retrieve"} => "reject" \in r.before /\ "throw" \notin r.before
    /\ m = "parseDocument" => "throw" \in r.before
    /\ m = "downloadRuntime" => "cancel" \in r.before /\ "cancel" \in r.during
    /\ m \in {"load", "model", "retrieve", "parseDocument"} => "reject" \in r.during
    /\ r.stops = "finally" => m \in {"downloadArtifact", "downloadModel"}
    /\ "unlessFinished" \in r.during <=> m = "parseDocument"
    /\ r.error \in {"rejects", "reasonIfAborted", "resolves", "unheard"}
    /\ r.close \in {"rejects", "reasonIfAborted", "resolves", "unheard"}
    /\ r.error = "unheard" => m = "registerDevelopmentPlugin"
    /\ r.close = "unheard" => m \in {"load", "model", "retrieve", "ensureAuthenticated",
                                     "registerDevelopmentPlugin"}
    /\ m \in {"downloadModel", "downloadRuntime"} =>
         r.error = "reasonIfAborted" /\ r.close = "reasonIfAborted"

LEMMA AwaitedRows == \A m \in Awaited!Methods : AwaitedRow(m)
<1> USE AwaitedMethods DEF Awaited!Row, AwaitedRow, Awaited!Signalled
<1>1. AwaitedRow("load")
  BY DEF Awaited!Load
<1>2. AwaitedRow("model")
  BY DEF Awaited!GetOrLoad
<1>3. AwaitedRow("retrieve")
  BY DEF Awaited!Retrieve
<1>4. AwaitedRow("parseDocument")
  BY DEF Awaited!ParseDocument
<1>5. AwaitedRow("downloadArtifact")
  BY DEF Awaited!DownloadArtifact
<1>6. AwaitedRow("downloadModel")
  BY DEF Awaited!DownloadModel
<1>7. AwaitedRow("downloadRuntime")
  BY DEF Awaited!DownloadRuntime
<1>8. AwaitedRow("pushArtifact")
  BY DEF Awaited!PushArtifact
<1>9. AwaitedRow("ensureAuthenticated")
  BY DEF Awaited!EnsureAuthenticated
<1>10. AwaitedRow("whenDisconnected")
  BY DEF Awaited!WhenDisconnected
<1>11. AwaitedRow("registerDevelopmentPlugin")
  BY DEF Awaited!RegisterDevelopmentPlugin
<1> HIDE DEF AwaitedRow
<1> QED
  BY <1>1, <1>2, <1>3, <1>4, <1>5, <1>6, <1>7, <1>8, <1>9, <1>10, <1>11

LEMMA AwaitedInitInv == Awaited!Init => AwaitedInv
BY DEF Awaited!Init, AwaitedInv, AwaitedTypes, Awaited!RejectionsAreHandled,
       Awaited!LeftWaitingOnlyIfDeaf

AwaitedReasonWins ==
    promise = "pending" /\ awaitedAborted /\ promise' # promise
        => promise' \in {"resolved", "reason"} \/ method = "downloadArtifact"

(* A message by itself. *)
LEMMA OneMessage == ASSUME NEW S, NEW m \in S PROVE <<m>> \in Seq(S)
OBVIOUS

LEMMA AwaitedMessages ==
    \A s : s \in {<<>>, <<"cancel">>, <<"end">>} => s \in Seq({"cancel", "end"})
<1> DEFINE S == {"cancel", "end"}
<1>1. "cancel" \in S /\ "end" \in S
  OBVIOUS
<1>2. <<>> \in Seq(S)
  OBVIOUS
<1> HIDE DEF S
<1>3. <<"cancel">> \in Seq(S)
  BY <1>1, OneMessage
<1>4. <<"end">> \in Seq(S)
  BY <1>1, OneMessage
<1>5. \A s : s \in {<<>>, <<"cancel">>, <<"end">>} => s \in Seq(S)
  BY <1>2, <1>3, <1>4, Zenon
<1> QED
  BY <1>5 DEF S

LEMMA AwaitedSends ==
    ASSUME AwaitedTypes, NEW msgs \in Seq({"cancel", "end"}), Awaited!Sends(msgs)
    PROVE  /\ awaitedToServer' \in Seq({"cancel", "end"})
           /\ (\E k \in DOMAIN awaitedToServer : awaitedToServer[k] = "cancel")
              \/ (awaitedChannel \in {"none", "open"} /\ \E k \in DOMAIN msgs : msgs[k] = "cancel")
                => \E k \in DOMAIN awaitedToServer' : awaitedToServer'[k] = "cancel"
<1>1. awaitedToServer \in Seq({"cancel", "end"})
  BY DEF AwaitedTypes
<1>2. CASE awaitedChannel \in {"none", "open"}
  <2> DEFINE s == awaitedToServer \o msgs
  <2>1. /\ s \in Seq({"cancel", "end"}) /\ Len(s) = Len(awaitedToServer) + Len(msgs)
        /\ \A i \in 1..(Len(awaitedToServer) + Len(msgs)) :
             s[i] = IF i <= Len(awaitedToServer) THEN awaitedToServer[i]
                    ELSE msgs[i - Len(awaitedToServer)]
    BY <1>1, ConcatProperties
  <2>2. awaitedToServer' = s
    BY <1>2 DEF Awaited!Sends
  <2> HIDE DEF s
  <2>3. ASSUME NEW k \in DOMAIN awaitedToServer PROVE k \in DOMAIN s /\ s[k] = awaitedToServer[k]
    BY <1>1, <2>1
  <2>4. ASSUME NEW k \in DOMAIN msgs
        PROVE  \E i \in DOMAIN s : s[i] = msgs[k]
    <3> DEFINE i == Len(awaitedToServer) + k
    <3>1. i \in DOMAIN s /\ i \in 1..(Len(awaitedToServer) + Len(msgs))
          /\ ~ i <= Len(awaitedToServer) /\ i - Len(awaitedToServer) = k
      BY <1>1, <2>1
    <3> QED
      BY <2>1, <3>1
  <2> QED
    BY <2>1, <2>2, <2>3, <2>4
<1>3. CASE awaitedChannel \notin {"none", "open"}
  BY <1>1, <1>3 DEF Awaited!Sends
<1> QED
  BY <1>2, <1>3

LEMMA AwaitedCalled == ASSUME AwaitedInv, Awaited!Call PROVE AwaitedInv' /\ AwaitedReasonWins
<1> USE DEF AwaitedInv
<1>1. AwaitedRow(method)
  BY AwaitedRows DEF AwaitedTypes
<1>2. /\ promise = "none" /\ awaitedChannel = "none" /\ ~ awaitedFinished
      /\ UNCHANGED <<method, awaitedAborted, unhandled, awaitedFinished>>
  BY DEF Awaited!Call
<1>3. CASE awaitedAborted /\ "throw" \in Awaited!Handling[method].before
  <2>1. promise' = "thrown" /\ UNCHANGED <<awaitedChannel, awaitedToServer, awaitedListening>>
    BY <1>3 DEF Awaited!Call, Awaited!rules
  <2> QED
    BY <1>2, <2>1 DEF AwaitedTypes, Awaited!RejectionsAreHandled,
       Awaited!LeftWaitingOnlyIfDeaf, AwaitedReasonWins
<1>4. CASE ~ (awaitedAborted /\ "throw" \in Awaited!Handling[method].before)
  <2> DEFINE msgs == IF awaitedAborted THEN Awaited!IfIn("cancel", Awaited!Handling[method].before)
                     ELSE <<>>
  <2>1. /\ awaitedChannel' = "open"
        /\ promise' = IF awaitedAborted /\ "reject" \in Awaited!Handling[method].before
                      THEN "reason" ELSE "pending"
        /\ Awaited!Sends(msgs)
        /\ awaitedListening' = (method \in Awaited!Signalled /\ ~ awaitedAborted)
    BY <1>4 DEF Awaited!Call, Awaited!rules
  <2>2. msgs \in Seq({"cancel", "end"})
    <3>1. msgs = <<>> \/ msgs = <<"cancel">>
      BY DEF Awaited!IfIn
    <3> HIDE DEF msgs
    <3> QED
      BY <3>1, AwaitedMessages
  <2>3. awaitedAborted /\ "cancel" \in Awaited!Handling[method].before
          => \E k \in DOMAIN msgs : msgs[k] = "cancel"
    <3> SUFFICES ASSUME awaitedAborted, "cancel" \in Awaited!Handling[method].before
                 PROVE  \E k \in DOMAIN msgs : msgs[k] = "cancel"
      OBVIOUS
    <3>1. msgs = <<"cancel">> /\ 1 \in DOMAIN msgs
      BY DEF Awaited!IfIn
    <3> QED
      BY <3>1
  <2> HIDE DEF msgs
  <2>4. /\ awaitedToServer' \in Seq({"cancel", "end"})
        /\ awaitedAborted /\ "cancel" \in Awaited!Handling[method].before
             => \E k \in DOMAIN awaitedToServer' : awaitedToServer'[k] = "cancel"
    BY <1>2, <2>1, <2>2, <2>3, AwaitedSends
  <2>5. AwaitedTypes'
    BY <1>2, <2>1, <2>4 DEF AwaitedTypes
  <2> QED
    BY <1>1, <1>2, <1>4, <2>1, <2>4, <2>5 DEF AwaitedRow, Awaited!RejectionsAreHandled,
       Awaited!LeftWaitingOnlyIfDeaf, AwaitedReasonWins
<1> QED
  BY <1>3, <1>4

LEMMA AwaitedAborts == ASSUME AwaitedInv, Awaited!Abort PROVE AwaitedInv' /\ AwaitedReasonWins
<1> USE DEF AwaitedInv
<1>1. AwaitedRow(method)
  BY AwaitedRows DEF AwaitedTypes
<1>2. /\ method \in Awaited!Signalled /\ ~ awaitedAborted /\ awaitedAborted' = TRUE
      /\ UNCHANGED <<method, awaitedListening, unhandled, awaitedFinished, awaitedChannel>>
  BY DEF Awaited!Abort
<1> DEFINE hears == awaitedListening
                      /\ ~ ("unlessFinished" \in Awaited!Handling[method].during /\ awaitedFinished)
<1>3. CASE hears
  <2> DEFINE msgs == Awaited!IfIn("cancel", Awaited!Handling[method].during)
  <2>1. /\ Awaited!Sends(msgs)
        /\ promise' = IF "reject" \in Awaited!Handling[method].during
                      THEN Awaited!SettledAs("reason") ELSE promise
    BY <1>3 DEF Awaited!Abort, Awaited!rules
  <2>2. msgs \in Seq({"cancel", "end"})
    <3>1. msgs = <<>> \/ msgs = <<"cancel">>
      BY DEF Awaited!IfIn
    <3> HIDE DEF msgs
    <3> QED
      BY <3>1, AwaitedMessages
  <2>3. "cancel" \in Awaited!Handling[method].during => \E k \in DOMAIN msgs : msgs[k] = "cancel"
    <3> SUFFICES ASSUME "cancel" \in Awaited!Handling[method].during
                 PROVE  \E k \in DOMAIN msgs : msgs[k] = "cancel"
      OBVIOUS
    <3>1. msgs = <<"cancel">> /\ 1 \in DOMAIN msgs
      BY DEF Awaited!IfIn
    <3> QED
      BY <3>1
  <2> HIDE DEF msgs
  <2>4. /\ awaitedToServer' \in Seq({"cancel", "end"})
        /\ awaitedChannel = "open" /\ "cancel" \in Awaited!Handling[method].during
             => \E k \in DOMAIN awaitedToServer' : awaitedToServer'[k] = "cancel"
    BY <2>1, <2>2, <2>3, AwaitedSends
  <2>5. AwaitedTypes'
    BY <1>2, <2>1, <2>4 DEF AwaitedTypes, Awaited!SettledAs
  <2> QED
    BY <1>1, <1>2, <2>1, <2>4, <2>5 DEF AwaitedRow, Awaited!RejectionsAreHandled,
       Awaited!LeftWaitingOnlyIfDeaf, AwaitedReasonWins, Awaited!SettledAs
<1>4. CASE ~ hears
  <2>1. promise' = promise /\ awaitedToServer' = awaitedToServer
    BY <1>4 DEF Awaited!Abort, Awaited!rules
  <2>2. promise # "pending"
    BY <1>2, <1>4
  <2> QED
    BY <1>2, <2>1, <2>2 DEF AwaitedTypes, Awaited!RejectionsAreHandled,
       Awaited!LeftWaitingOnlyIfDeaf, AwaitedReasonWins
<1> QED
  BY <1>3, <1>4

AwaitedEnding ==
    /\ awaitedChannel = "open" /\ (Awaited!OnError \/ Awaited!OnClose)
    /\ UNCHANGED <<method, awaitedAborted, awaitedListening, unhandled, awaitedToServer>>

LEMMA AwaitedEnds ==
    ASSUME AwaitedInv, AwaitedEnding
    PROVE  AwaitedInv' /\ AwaitedReasonWins
<1> USE DEF AwaitedEnding, AwaitedInv, Awaited!EndOfChannel, Awaited!SettledAs, Awaited!rules, AwaitedTypes,
            Awaited!RejectionsAreHandled, Awaited!LeftWaitingOnlyIfDeaf, AwaitedReasonWins
<1>1. AwaitedRow(method)
  BY AwaitedRows
<1>2. CASE Awaited!OnError
  BY <1>1, <1>2 DEF Awaited!OnError, AwaitedRow
<1>3. CASE Awaited!OnClose
  BY <1>1, <1>3 DEF Awaited!OnClose, AwaitedRow
<1> QED
  BY <1>2, <1>3

(* What comes from LM Studio. *)
AwaitedComing == awaitedToClient \in Seq({"report", "result", "error", "close"})

LEMMA AwaitedInitComing == Awaited!Init => AwaitedComing
<1>1. <<>> \in Seq({"report", "result", "error", "close"})
  OBVIOUS
<1> QED
  BY <1>1 DEF AwaitedComing, Awaited!Init

LEMMA AwaitedComingKept ==
    ASSUME AwaitedComing, [Awaited!Next]_awaitedVars PROVE AwaitedComing'
<1> DEFINE S == {"report", "result", "error", "close"}
<1>0. awaitedToClient \in Seq(S) /\ "report" \in S /\ "result" \in S /\ "error" \in S /\ "close" \in S
  BY DEF AwaitedComing
<1> HIDE DEF S
<1>1. \A s \in Seq(S), m \in S : Append(s, m) \in Seq(S)
  BY AppendProperties
<1>2. awaitedToClient # <<>> => Tail(awaitedToClient) \in Seq(S)
  BY <1>0, HeadTailProperties
<1>3. <<>> \in Seq(S)
  OBVIOUS
<1>4. \/ UNCHANGED awaitedToClient
      \/ awaitedToClient # <<>> /\ awaitedToClient' = Tail(awaitedToClient)
      \/ awaitedToClient' = <<>>
      \/ awaitedToClient' = Append(awaitedToClient, "report")
      \/ awaitedToClient' = Append(awaitedToClient, "result")
      \/ \E end \in {"error", "close"} : awaitedToClient' = Append(awaitedToClient, end)
  BY DEF Awaited!Next, awaitedVars, Awaited!Call, Awaited!Abort, Awaited!StopsListening,
         Awaited!Unregister, Awaited!Receive, Awaited!ConnectionLost, Awaited!ServerReports,
         Awaited!ServerAnswers, Awaited!ServerEnds
<1>5. awaitedToClient' \in Seq(S)
  BY <1>0, <1>1, <1>2, <1>3, <1>4
<1> QED
  BY <1>5 DEF AwaitedComing, S

LEMMA AwaitedInvKept ==
    ASSUME AwaitedInv, AwaitedComing, [Awaited!Next]_awaitedVars
    PROVE  AwaitedInv' /\ [AwaitedReasonWins]_awaitedVars
<1> USE DEF AwaitedTypes, Awaited!RejectionsAreHandled,
            Awaited!LeftWaitingOnlyIfDeaf, AwaitedReasonWins
<1>1. CASE UNCHANGED awaitedVars
  BY <1>1 DEF awaitedVars, AwaitedInv
<1>2. CASE Awaited!StopsListening
  <2>1. AwaitedRow(method)
    BY AwaitedRows DEF AwaitedInv
  <2> QED
    BY <1>2, <2>1 DEF Awaited!StopsListening, Awaited!rules, AwaitedRow, AwaitedInv
<1>3. ASSUME NEW c \in {"first", "later"}, Awaited!Unregister(c) PROVE AwaitedInv' /\ AwaitedReasonWins
  <2> DEFINE msgs == IF c = "first" THEN <<"end">> ELSE <<>>
  <2>1. Awaited!Sends(msgs) /\ promise = "resolved"
        /\ UNCHANGED <<method, Awaited!callVars, awaitedChannel>>
    BY <1>3 DEF Awaited!Unregister
  <2>2. msgs \in Seq({"cancel", "end"})
    <3>1. msgs = <<>> \/ msgs = <<"end">>
      OBVIOUS
    <3> HIDE DEF msgs
    <3> QED
      BY <3>1, AwaitedMessages
  <2>3. awaitedToServer' \in Seq({"cancel", "end"})
    BY <2>1, <2>2, AwaitedSends DEF AwaitedInv
  <2> QED
    BY <2>1, <2>3 DEF Awaited!callVars, AwaitedInv
<1>4. CASE Awaited!Receive
  <2>1. CASE UNCHANGED <<promise, awaitedFinished, awaitedChannel, unregister>>
    BY <1>4, <2>1 DEF Awaited!Receive, AwaitedInv
  <2>2. CASE Awaited!OnResult
    BY <1>4, <2>2 DEF Awaited!Receive, Awaited!OnResult, Awaited!SettledAs, AwaitedInv
  <2>4. Head(awaitedToClient) \in {"report", "result", "error", "close"}
    <3> DEFINE S == {"report", "result", "error", "close"}
    <3>1. awaitedToClient \in Seq(S) /\ awaitedToClient # <<>>
      BY <1>4 DEF AwaitedComing, Awaited!Receive
    <3> HIDE DEF S
    <3>2. Head(awaitedToClient) \in S
      BY <3>1, HeadTailProperties
    <3> QED
      BY <3>2 DEF S
  <2>3. CASE Awaited!OnError \/ Awaited!OnClose
    <3>1. AwaitedEnding
      BY <1>4, <2>3 DEF Awaited!Receive, AwaitedEnding
    <3> HIDE DEF AwaitedTypes, Awaited!RejectionsAreHandled,
            Awaited!LeftWaitingOnlyIfDeaf, AwaitedReasonWins
    <3> QED
      BY <3>1, AwaitedEnds
  <2> QED
    BY <1>4, <2>1, <2>2, <2>3, <2>4 DEF Awaited!Receive
<1>5. CASE Awaited!ConnectionLost
  <2>1. AwaitedEnding
    BY <1>5 DEF Awaited!ConnectionLost, AwaitedEnding
  <2> HIDE DEF AwaitedTypes, Awaited!RejectionsAreHandled,
            Awaited!LeftWaitingOnlyIfDeaf, AwaitedReasonWins
  <2> QED
    BY <2>1, AwaitedEnds
<1>6. CASE Awaited!ServerReports \/ Awaited!ServerAnswers \/ Awaited!ServerEnds
  <2>1. UNCHANGED <<method, Awaited!callVars, awaitedChannel, awaitedToServer>>
    BY <1>6 DEF Awaited!ServerReports, Awaited!ServerAnswers, Awaited!ServerEnds
  <2> QED
    BY <2>1 DEF Awaited!callVars, AwaitedInv
<1> QED
  BY <1>1, <1>2, <1>3, <1>4, <1>5, <1>6, AwaitedCalled, AwaitedAborts DEF Awaited!Next

LEMMA AwaitedInvHolds == AwaitedInv => CallsOfClient
<1> SUFFICES ASSUME AwaitedInv PROVE CallsOfClient
  OBVIOUS
<1>1. Awaited!AbortIsPassedOn
  BY DEF AwaitedInv, Awaited!AbortIsPassedOn, Awaited!ServerWorks, Awaited!ToSet, AwaitedTypes
<1> QED
  BY <1>1 DEF CallsOfClient, AwaitedInv

-----------------------------------------------------------------------------
(* The tasks of a plugin.                                                  *)

ToPluginMessages == {"start", "abort"} \X Tasks
ToStudioMessages == Hosts!Sent \X Tasks
HeardOfTask == {"update"} \cup Hosts!Answers

HostsTypes ==
    /\ host \in Hosts!Hosts
    /\ asked \in [Tasks -> {"none", "started", "aborted"}]
    /\ heard \in [Tasks -> Seq(HeardOfTask)]
    /\ pluginToPlugin \in Seq(ToPluginMessages)
    /\ toStudio \in Seq(ToStudioMessages)
    /\ tasks \in SUBSET Tasks
    /\ pluginAborted \in [Tasks -> BOOLEAN]
    /\ handler \in [Tasks -> {"none", "running", "confirming", "ended", "threwAtOnce", "unanswered"}]
    /\ verdict \in [Tasks -> {"none", "given", "AbortError"}]

(* A task is started once, and not before LM Studio asked for it. *)
IsAbout(s, t) == \E i \in DOMAIN s : s[i][2] = t
Starts(s, t) == \E i \in DOMAIN s : s[i][1] = "start" /\ s[i][2] = t
StartsOnce(s) ==
    \A i, j \in DOMAIN s : s[i][1] = "start" /\ s[j][1] = "start" /\ s[i][2] = s[j][2] => i = j

(* The answers under way to LM Studio. *)
HasAnswer(s, t) == \E i \in DOMAIN s : s[i][2] = t /\ s[i][1] \in Hosts!Answers
AnswersLast(s) ==
    \A i, j \in DOMAIN s : i < j /\ s[i][1] \in Hosts!Answers => s[j][2] # s[i][2]
HearsAnswer(s) == \E i \in DOMAIN s : s[i] \in Hosts!Answers
LastOfHeard(s) == \A i \in DOMAIN s : s[i] \in Hosts!Answers => i = Len(s)

HostsInv ==
    /\ HostsTypes
    /\ StartsOnce(pluginToPlugin)
    /\ \A t \in Tasks : Starts(pluginToPlugin, t) => handler[t] = "none"
    /\ \A t \in Tasks : asked[t] = "none" => handler[t] = "none" /\ ~ Starts(pluginToPlugin, t)
    /\ Hosts!TasksAreAbortable
    /\ \A t \in Tasks : pluginAborted[t] => handler[t] # "none"
    /\ \A t \in Tasks : handler[t] = "confirming" => verdict[t] = "none"
    /\ AnswersLast(toStudio)
    /\ \A t \in Tasks : HasAnswer(toStudio, t) \/ HearsAnswer(heard[t]) => handler[t] = "ended"
    /\ \A t \in Tasks : HearsAnswer(heard[t]) => ~ IsAbout(toStudio, t)
    /\ \A t \in Tasks : LastOfHeard(heard[t])

HostsVerdictStays == \A t \in Tasks : verdict[t] = "AbortError" => verdict'[t] = "AbortError"

LEMMA HostsInitInv == Hosts!Init => HostsInv
<1> SUFFICES ASSUME Hosts!Init PROVE HostsInv
  OBVIOUS
<1>1. pluginToPlugin = <<>> /\ toStudio = <<>> /\ \A t \in Tasks : heard[t] = <<>>
  BY DEF Hosts!Init
<1>2. HostsTypes
  <2>1. /\ <<>> \in Seq(ToPluginMessages) /\ <<>> \in Seq(ToStudioMessages)
        /\ <<>> \in Seq(HeardOfTask)
    OBVIOUS
  <2> QED
    BY <2>1 DEF HostsTypes, Hosts!Init
<1> QED
  BY <1>1, <1>2 DEF HostsInv, Hosts!Init, StartsOnce, Starts, AnswersLast, HasAnswer,
     HearsAnswer, LastOfHeard, IsAbout, Hosts!TasksAreAbortable

-----------------------------------------------------------------------------
(* Sequences of messages that grow by one and lose their first.            *)

LEMMA GrowsByOne ==
    ASSUME NEW S, NEW s \in Seq(S), NEW x \in S
    PROVE  /\ Append(s, x) \in Seq(S) /\ Len(Append(s, x)) = Len(s) + 1
           /\ DOMAIN s = 1..Len(s) /\ DOMAIN Append(s, x) = 1..(Len(s) + 1) /\ Len(s) \in Nat
           /\ \A i \in 1..Len(s) : Append(s, x)[i] = s[i]
           /\ Append(s, x)[Len(s) + 1] = x
  BY AppendProperties

LEMMA LosesFirst ==
    ASSUME NEW S, NEW s \in Seq(S), s # <<>>
    PROVE  /\ Tail(s) \in Seq(S) /\ Len(Tail(s)) = Len(s) - 1
           /\ DOMAIN s = 1..Len(s) /\ DOMAIN Tail(s) = 1..(Len(s) - 1) /\ Len(s) \in Nat \ {0}
           /\ \A i \in 1..(Len(s) - 1) : Tail(s)[i] = s[i + 1]
           /\ Head(s) = s[1] /\ Head(s) \in S
  BY HeadTailProperties, EmptySeq, LenProperties

(* What an appended message changes of the wire to LM Studio ... *)
StudioGrows(s, r, m) ==
    /\ r \in Seq(ToStudioMessages)
    /\ AnswersLast(s) /\ ~ HasAnswer(s, m[2]) => AnswersLast(r)
    /\ \A t : HasAnswer(r, t) <=> HasAnswer(s, t) \/ (t = m[2] /\ m[1] \in Hosts!Answers)
    /\ \A t : IsAbout(r, t) <=> IsAbout(s, t) \/ t = m[2]

LEMMA StudioAppends ==
    ASSUME NEW s \in Seq(ToStudioMessages), NEW m \in ToStudioMessages
    PROVE  StudioGrows(s, Append(s, m), m)
<1> DEFINE r == Append(s, m)
           n == Len(s)
<1>1. /\ r \in Seq(ToStudioMessages)
      /\ DOMAIN s = 1..n /\ DOMAIN r = 1..(n + 1) /\ n \in Nat
      /\ \A i \in 1..n : r[i] = s[i]
      /\ r[n + 1] = m
  BY GrowsByOne
<1> HIDE DEF r, n
<1>2. AnswersLast(s) /\ ~ HasAnswer(s, m[2]) => AnswersLast(r)
  BY <1>1 DEF AnswersLast, HasAnswer
<1>3. \A t : HasAnswer(r, t) <=> HasAnswer(s, t) \/ (t = m[2] /\ m[1] \in Hosts!Answers)
  BY <1>1 DEF HasAnswer
<1>4. \A t : IsAbout(r, t) <=> IsAbout(s, t) \/ t = m[2]
  BY <1>1 DEF IsAbout
<1> QED
  BY <1>1, <1>2, <1>3, <1>4 DEF StudioGrows, r

(* ... and one that arrived. *)
StudioShrinks(s, r) ==
    /\ r \in Seq(ToStudioMessages) /\ Head(s) \in ToStudioMessages
    /\ AnswersLast(s) => AnswersLast(r)
    /\ \A t : HasAnswer(r, t) => HasAnswer(s, t)
    /\ \A t : IsAbout(r, t) => IsAbout(s, t)
    /\ IsAbout(s, Head(s)[2])
    /\ Head(s)[1] \in Hosts!Answers => HasAnswer(s, Head(s)[2])
    /\ AnswersLast(s) /\ Head(s)[1] \in Hosts!Answers => ~ IsAbout(r, Head(s)[2])

LEMMA StudioTails ==
    ASSUME NEW s \in Seq(ToStudioMessages), s # <<>> PROVE StudioShrinks(s, Tail(s))
<1> DEFINE r == Tail(s)
           n == Len(s)
           m == Head(s)
<1>1. /\ r \in Seq(ToStudioMessages)
      /\ DOMAIN s = 1..n /\ DOMAIN r = 1..(n - 1) /\ n \in Nat \ {0}
      /\ \A i \in 1..(n - 1) : r[i] = s[i + 1]
      /\ m = s[1] /\ m \in ToStudioMessages
  BY LosesFirst
<1> HIDE DEF r, n, m
<1>2. \A i \in DOMAIN r : i + 1 \in DOMAIN s /\ r[i] = s[i + 1] /\ i + 1 > 1 /\ i \in Int
  BY <1>1
<1>3. 1 \in DOMAIN s
  BY <1>1
<1>4. AnswersLast(s) => AnswersLast(r)
  BY <1>2 DEF AnswersLast
<1>5. \A t : HasAnswer(r, t) => HasAnswer(s, t)
  BY <1>2 DEF HasAnswer
<1>6. \A t : IsAbout(r, t) => IsAbout(s, t)
  BY <1>2 DEF IsAbout
<1>7. IsAbout(s, m[2]) /\ (m[1] \in Hosts!Answers => HasAnswer(s, m[2]))
  BY <1>1, <1>3 DEF IsAbout, HasAnswer
<1>8. AnswersLast(s) /\ m[1] \in Hosts!Answers => ~ IsAbout(r, m[2])
  BY <1>1, <1>2, <1>3 DEF AnswersLast, IsAbout
<1> QED
  BY <1>1, <1>4, <1>5, <1>6, <1>7, <1>8 DEF StudioShrinks, r, m

(* The same of the wire to the plugin. *)
PluginGrows(s, r, m) ==
    /\ r \in Seq(ToPluginMessages)
    /\ StartsOnce(s) /\ (m[1] = "start" => ~ Starts(s, m[2])) => StartsOnce(r)
    /\ \A t : Starts(r, t) <=> Starts(s, t) \/ (t = m[2] /\ m[1] = "start")

LEMMA PluginAppends ==
    ASSUME NEW s \in Seq(ToPluginMessages), NEW m \in ToPluginMessages
    PROVE  PluginGrows(s, Append(s, m), m)
<1> DEFINE r == Append(s, m)
           n == Len(s)
<1>1. /\ r \in Seq(ToPluginMessages)
      /\ DOMAIN s = 1..n /\ DOMAIN r = 1..(n + 1) /\ n \in Nat
      /\ \A i \in 1..n : r[i] = s[i]
      /\ r[n + 1] = m
  BY GrowsByOne
<1> HIDE DEF r, n
<1>2. StartsOnce(s) /\ (m[1] = "start" => ~ Starts(s, m[2])) => StartsOnce(r)
  BY <1>1 DEF StartsOnce, Starts
<1>3. \A t : Starts(r, t) <=> Starts(s, t) \/ (t = m[2] /\ m[1] = "start")
  BY <1>1 DEF Starts
<1> QED
  BY <1>1, <1>2, <1>3 DEF PluginGrows, r

PluginShrinks(s, r) ==
    /\ r \in Seq(ToPluginMessages) /\ Head(s) \in ToPluginMessages
    /\ StartsOnce(s) => StartsOnce(r)
    /\ \A t : Starts(r, t) => Starts(s, t)
    /\ Head(s)[1] = "start" => Starts(s, Head(s)[2])
    /\ StartsOnce(s) /\ Head(s)[1] = "start" => ~ Starts(r, Head(s)[2])

LEMMA PluginTails ==
    ASSUME NEW s \in Seq(ToPluginMessages), s # <<>> PROVE PluginShrinks(s, Tail(s))
<1> DEFINE r == Tail(s)
           n == Len(s)
           m == Head(s)
<1>1. /\ r \in Seq(ToPluginMessages)
      /\ DOMAIN s = 1..n /\ DOMAIN r = 1..(n - 1) /\ n \in Nat \ {0}
      /\ \A i \in 1..(n - 1) : r[i] = s[i + 1]
      /\ m = s[1] /\ m \in ToPluginMessages
  BY LosesFirst
<1> HIDE DEF r, n, m
<1>2. \A i \in DOMAIN r : i + 1 \in DOMAIN s /\ r[i] = s[i + 1] /\ i + 1 > 1 /\ i \in Int
  BY <1>1
<1>3. 1 \in DOMAIN s
  BY <1>1
<1>4. StartsOnce(s) => StartsOnce(r)
  BY <1>2 DEF StartsOnce
<1>5. \A t : Starts(r, t) => Starts(s, t)
  BY <1>2 DEF Starts
<1>6. m[1] = "start" => Starts(s, m[2])
  BY <1>1, <1>3 DEF Starts
<1>7. StartsOnce(s) /\ m[1] = "start" => ~ Starts(r, m[2])
  <2> SUFFICES ASSUME StartsOnce(s), s[1][1] = "start", NEW i \in DOMAIN r,
                      r[i][1] = "start", r[i][2] = s[1][2]
               PROVE  FALSE
    BY <1>1 DEF Starts
  <2>1. i + 1 \in DOMAIN s /\ s[i + 1][1] = "start" /\ s[i + 1][2] = s[1][2] /\ i + 1 # 1
    BY <1>2
  <2> QED
    BY <2>1, <1>3 DEF StartsOnce
<1> QED
  BY <1>1, <1>4, <1>5, <1>6, <1>7 DEF PluginShrinks, r, m

(* What is heard of a task. *)
HeardGrows(s, r, a) ==
    /\ r \in Seq(HeardOfTask)
    /\ ~ HearsAnswer(s) => LastOfHeard(r)
    /\ HearsAnswer(r) <=> HearsAnswer(s) \/ a \in Hosts!Answers

LEMMA HeardAppends ==
    ASSUME NEW s \in Seq(HeardOfTask), NEW a \in HeardOfTask PROVE HeardGrows(s, Append(s, a), a)
<1> DEFINE r == Append(s, a)
           n == Len(s)
           l == Len(r)
<1>1. /\ r \in Seq(HeardOfTask) /\ l = n + 1
      /\ DOMAIN s = 1..n /\ DOMAIN r = 1..(n + 1) /\ n \in Nat
      /\ \A i \in 1..n : r[i] = s[i]
      /\ r[n + 1] = a
  BY GrowsByOne
<1>2. LastOfHeard(r) <=> \A i \in DOMAIN r : r[i] \in Hosts!Answers => i = l
  BY DEF LastOfHeard
<1> HIDE DEF r, n, l
<1>3. ~ HearsAnswer(s) => LastOfHeard(r)
  BY <1>1, <1>2 DEF HearsAnswer
<1>4. HearsAnswer(r) <=> HearsAnswer(s) \/ a \in Hosts!Answers
  BY <1>1 DEF HearsAnswer
<1> QED
  BY <1>1, <1>3, <1>4 DEF HeardGrows, r

-----------------------------------------------------------------------------
(* The steps.                                                              *)

HostsStep == HostsInv' /\ HostsVerdictStays

LEMMA StudioStartsKeeps ==
    ASSUME HostsInv, NEW t \in Tasks, Hosts!StudioStarts(t) PROVE HostsStep
<1> USE DEF HostsInv
<1>1. /\ asked[t] = "none" /\ asked' = [asked EXCEPT ![t] = "started"]
      /\ UNCHANGED <<host, heard, toStudio, tasks, pluginAborted, handler, verdict>>
  BY DEF Hosts!StudioStarts, Hosts!pluginVars
<1> DEFINE m == <<"start", t>>
<1>2. m \in ToPluginMessages /\ m[1] = "start" /\ m[2] = t
  BY DEF ToPluginMessages
<1>3. pluginToPlugin' = Append(pluginToPlugin, m)
  BY DEF Hosts!StudioStarts
<1> HIDE DEF m
<1>4. PluginGrows(pluginToPlugin, pluginToPlugin', m)
  BY <1>2, <1>3, PluginAppends DEF HostsTypes
<1>5. HostsTypes'
  BY <1>1, <1>4 DEF HostsTypes, PluginGrows
<1>6. Hosts!TasksAreAbortable'
  BY <1>1 DEF Hosts!TasksAreAbortable
<1> QED
  BY <1>1, <1>2, <1>4, <1>5, <1>6 DEF HostsStep, HostsVerdictStays, PluginGrows, HostsTypes

LEMMA StudioAbortsKeeps ==
    ASSUME HostsInv, NEW t \in Tasks, Hosts!StudioAborts(t) PROVE HostsStep
<1> USE DEF HostsInv
<1>1. /\ asked[t] = "started" /\ asked' = [asked EXCEPT ![t] = "aborted"]
      /\ UNCHANGED <<host, heard, toStudio, tasks, pluginAborted, handler, verdict>>
  BY DEF Hosts!StudioAborts, Hosts!pluginVars
<1> DEFINE m == <<"abort", t>>
<1>2. m \in ToPluginMessages /\ m[1] # "start" /\ m[2] = t
  BY DEF ToPluginMessages
<1>3. pluginToPlugin' = Append(pluginToPlugin, m)
  BY DEF Hosts!StudioAborts
<1> HIDE DEF m
<1>4. PluginGrows(pluginToPlugin, pluginToPlugin', m)
  BY <1>2, <1>3, PluginAppends DEF HostsTypes
<1>5. HostsTypes'
  BY <1>1, <1>4 DEF HostsTypes, PluginGrows
<1>6. Hosts!TasksAreAbortable'
  BY <1>1 DEF Hosts!TasksAreAbortable
<1> QED
  BY <1>1, <1>2, <1>4, <1>5, <1>6 DEF HostsStep, HostsVerdictStays, PluginGrows, HostsTypes

LEMMA StudioReceivesKeeps == ASSUME HostsInv, Hosts!StudioReceives PROVE HostsStep
<1> USE DEF HostsInv
<1> DEFINE msg == Head(toStudio)
<1>1. /\ toStudio # <<>> /\ toStudio' = Tail(toStudio)
      /\ UNCHANGED <<host, asked, pluginToPlugin, tasks, pluginAborted, handler, verdict>>
      /\ IF msg[1] = "confirmToolCall" THEN UNCHANGED heard
         ELSE heard' = [heard EXCEPT ![msg[2]] = Append(@, msg[1])]
  BY DEF Hosts!StudioReceives, Hosts!pluginVars
<1>2. StudioShrinks(toStudio, toStudio')
  BY <1>1, StudioTails DEF HostsTypes
<1>3. Hosts!TasksAreAbortable'
  BY <1>1 DEF Hosts!TasksAreAbortable
<1>4. CASE msg[1] = "confirmToolCall"
  <2>1. UNCHANGED heard
    BY <1>1, <1>4
  <2>2. HostsTypes'
    BY <1>1, <1>2, <2>1 DEF HostsTypes, StudioShrinks
  <2> QED
    BY <1>1, <1>2, <1>3, <2>1, <2>2 DEF HostsStep, HostsVerdictStays, StudioShrinks
<1>5. CASE msg[1] # "confirmToolCall"
  <2> DEFINE t == msg[2]
             a == msg[1]
  <2>1. t \in Tasks /\ a \in HeardOfTask
    BY <1>2, <1>5 DEF StudioShrinks, ToStudioMessages, Hosts!Sent, HeardOfTask
  <2>2. heard' = [heard EXCEPT ![t] = Append(heard[t], a)]
    BY <1>1, <1>5, <2>1 DEF HostsTypes
  <2>3. /\ AnswersLast(toStudio') /\ (\A u : HasAnswer(toStudio', u) => HasAnswer(toStudio, u))
        /\ (\A u : IsAbout(toStudio', u) => IsAbout(toStudio, u))
        /\ IsAbout(toStudio, t)
        /\ a \in Hosts!Answers => HasAnswer(toStudio, t) /\ ~ IsAbout(toStudio', t)
    BY <1>2 DEF StudioShrinks
  <2>4. toStudio' \in Seq(ToStudioMessages)
    BY <1>2 DEF StudioShrinks
  <2> HIDE DEF t, a, msg
  <2>5. heard[t] \in Seq(HeardOfTask)
    BY <2>1 DEF HostsTypes
  <2>6. HeardGrows(heard[t], Append(heard[t], a), a)
    BY <2>1, <2>5, HeardAppends
  <2>7. heard'[t] = Append(heard[t], a) /\ \A u \in Tasks \ {t} : heard'[u] = heard[u]
    BY <2>1, <2>2 DEF HostsTypes
  <2>8. HeardGrows(heard[t], heard'[t], a)
    BY <2>6, <2>7
  <2>9. HostsTypes'
    BY <1>1, <2>1, <2>2, <2>4, <2>7, <2>8 DEF HostsTypes, HeardGrows
  <2>10. ~ HearsAnswer(heard[t])
    BY <2>1, <2>3
  <2>11. \A u \in Tasks : LastOfHeard(heard'[u])
    BY <2>7, <2>8, <2>10 DEF HeardGrows
  <2>12. \A u \in Tasks : HearsAnswer(heard'[u])
           => HearsAnswer(heard[u]) \/ (u = t /\ a \in Hosts!Answers)
    BY <2>7, <2>8 DEF HeardGrows
  <2>13. \A u \in Tasks : HearsAnswer(heard'[u]) => ~ IsAbout(toStudio', u)
    BY <2>3, <2>12
  <2>14. \A u \in Tasks : HasAnswer(toStudio', u) \/ HearsAnswer(heard'[u]) => handler[u] = "ended"
    BY <2>1, <2>3, <2>12
  <2> QED
    BY <1>1, <1>3, <2>3, <2>9, <2>11, <2>13, <2>14 DEF HostsStep, HostsVerdictStays
<1> QED
  BY <1>4, <1>5

LEMMA PluginReceivesKeeps == ASSUME HostsInv, Hosts!PluginReceives PROVE HostsStep
<1> USE DEF HostsInv
<1> DEFINE msg == Head(pluginToPlugin)
           t == msg[2]
<1>1. /\ pluginToPlugin # <<>> /\ pluginToPlugin' = Tail(pluginToPlugin)
      /\ UNCHANGED <<host, asked, heard, toStudio>>
      /\ (msg[1] = "start" /\ Hosts!StartTask(t)) \/ (msg[1] = "abort" /\ Hosts!AbortTask(t))
  BY DEF Hosts!PluginReceives, Hosts!studioVars, Hosts!StartTask, Hosts!AbortTask
<1>2. PluginShrinks(pluginToPlugin, pluginToPlugin')
  BY <1>1, PluginTails DEF HostsTypes
<1>3. t \in Tasks
  BY <1>2 DEF PluginShrinks, ToPluginMessages
<1>4. /\ pluginToPlugin' \in Seq(ToPluginMessages)
      /\ StartsOnce(pluginToPlugin')
      /\ \A u : Starts(pluginToPlugin', u) => Starts(pluginToPlugin, u)
      /\ msg[1] = "start" => Starts(pluginToPlugin, t) /\ ~ Starts(pluginToPlugin', t)
  BY <1>2 DEF PluginShrinks
<1> HIDE DEF t
<1>5. CASE msg[1] = "start" /\ Hosts!StartTask(t)
  <2>1. PICK h \in {"running", "threwAtOnce"} :
          /\ handler' = [handler EXCEPT ![t] = h]
          /\ tasks' = tasks \cup {t}
          /\ UNCHANGED <<pluginAborted, verdict>>
    BY <1>5 DEF Hosts!StartTask
  <2>2. handler[t] = "none" /\ asked[t] # "none" /\ ~ pluginAborted[t]
    BY <1>3, <1>4, <1>5 DEF HostsTypes
  <2>3. HostsTypes'
    BY <1>1, <1>3, <1>4, <2>1 DEF HostsTypes
  <2>4. Hosts!TasksAreAbortable'
    BY <1>3, <2>1, <2>2 DEF Hosts!TasksAreAbortable, HostsTypes
  <2>5. handler'[t] = h /\ \A u \in Tasks \ {t} : handler'[u] = handler[u]
    BY <1>3, <2>1 DEF HostsTypes
  <2> QED
    BY <1>1, <1>3, <1>4, <1>5, <2>1, <2>2, <2>3, <2>4, <2>5 DEF HostsStep, HostsVerdictStays
<1>6. CASE msg[1] = "abort" /\ Hosts!AbortTask(t)
  <2>1. /\ tasks' = tasks \ {t}
        /\ pluginAborted' = [pluginAborted EXCEPT ![t] = pluginAborted[t] \/ t \in tasks]
    BY <1>3, <1>6 DEF Hosts!AbortTask, HostsTypes
  <2>2. \/ /\ t \in tasks /\ handler[t] = "confirming"
           /\ handler' = [handler EXCEPT ![t] = "running"]
           /\ verdict' = [verdict EXCEPT ![t] = "AbortError"]
        \/ UNCHANGED <<handler, verdict>>
    BY <1>6 DEF Hosts!AbortTask
  <2>3. HostsTypes'
    BY <1>1, <1>3, <1>4, <2>1, <2>2 DEF HostsTypes
  <2>4. Hosts!TasksAreAbortable'
    BY <1>3, <2>1, <2>2 DEF Hosts!TasksAreAbortable, HostsTypes
  <2>5. \A u \in Tasks : pluginAborted'[u] => handler'[u] # "none"
    BY <1>3, <2>1, <2>2 DEF Hosts!TasksAreAbortable, HostsTypes
  <2>6. \A u \in Tasks :
          /\ handler'[u] = "none" <=> handler[u] = "none"
          /\ handler'[u] = "ended" <=> handler[u] = "ended"
          /\ handler'[u] = "confirming" => handler[u] = "confirming" /\ verdict'[u] = verdict[u]
          /\ verdict[u] = "AbortError" => verdict'[u] = "AbortError"
    BY <1>3, <2>2 DEF HostsTypes
  <2> QED
    BY <1>1, <1>4, <2>3, <2>4, <2>5, <2>6 DEF HostsStep, HostsVerdictStays
<1> QED
  BY <1>1, <1>5, <1>6

(* What a handler sends of its task while it runs. *)
LEMMA HandlerSendsKeeps ==
    ASSUME HostsInv, NEW t \in Tasks, handler[t] = "running",
           NEW a \in {"update", "confirmToolCall"}, toStudio' = Append(toStudio, <<a, t>>)
    PROVE  /\ toStudio' \in Seq(ToStudioMessages) /\ AnswersLast(toStudio')
           /\ \A u \in Tasks : HasAnswer(toStudio', u) => HasAnswer(toStudio, u)
           /\ \A u \in Tasks : IsAbout(toStudio', u) => IsAbout(toStudio, u) \/ u = t
           /\ ~ HearsAnswer(heard[t])
<1> DEFINE m == <<a, t>>
<1>1. m \in ToStudioMessages /\ m[1] = a /\ m[2] = t
  BY DEF ToStudioMessages, Hosts!Sent
<1>2. a \notin Hosts!Answers
  BY DEF Hosts!Answers
<1> HIDE DEF m
<1>3. StudioGrows(toStudio, Append(toStudio, m), m)
  BY <1>1, StudioAppends DEF HostsInv, HostsTypes
<1>4. toStudio' = Append(toStudio, m)
  BY DEF m
<1>5. ~ HasAnswer(toStudio, t) /\ ~ HearsAnswer(heard[t]) /\ AnswersLast(toStudio)
  BY DEF HostsInv
<1> QED
  BY <1>1, <1>2, <1>3, <1>4, <1>5 DEF StudioGrows

LEMMA UpdateKeeps == ASSUME HostsInv, NEW t \in Tasks, Hosts!Update(t) PROVE HostsStep
<1>1. /\ handler[t] = "running" /\ toStudio' = Append(toStudio, <<"update", t>>)
      /\ UNCHANGED <<host, asked, heard, pluginToPlugin, tasks, pluginAborted, handler, verdict>>
  BY DEF Hosts!Update, Hosts!MaySend, Hosts!HandleUpdate, Hosts!SendGenerated, Hosts!studioVars,
         Hosts!pluginVars
<1>2. /\ toStudio' \in Seq(ToStudioMessages) /\ AnswersLast(toStudio')
      /\ \A u \in Tasks : HasAnswer(toStudio', u) => HasAnswer(toStudio, u)
      /\ \A u \in Tasks : IsAbout(toStudio', u) => IsAbout(toStudio, u) \/ u = t
      /\ ~ HearsAnswer(heard[t])
  BY <1>1, HandlerSendsKeeps
<1>3. HostsTypes'
  BY <1>1, <1>2 DEF HostsInv, HostsTypes
<1>4. Hosts!TasksAreAbortable'
  BY <1>1 DEF HostsInv, Hosts!TasksAreAbortable
<1> QED
  BY <1>1, <1>2, <1>3, <1>4 DEF HostsInv, HostsStep, HostsVerdictStays

LEMMA RequestConfirmKeeps ==
    ASSUME HostsInv, NEW t \in Tasks, Hosts!RequestConfirmToolCall(t) PROVE HostsStep
<1> USE DEF HostsInv
<1>1. /\ handler[t] = "running" /\ verdict[t] = "none"
      /\ toStudio' = Append(toStudio, <<"confirmToolCall", t>>)
      /\ UNCHANGED <<host, asked, heard, pluginToPlugin, tasks, pluginAborted>>
      /\ \/ pluginAborted[t] /\ verdict' = [verdict EXCEPT ![t] = "AbortError"] /\ UNCHANGED handler
         \/ ~ pluginAborted[t] /\ handler' = [handler EXCEPT ![t] = "confirming"] /\ UNCHANGED verdict
  BY DEF Hosts!RequestConfirmToolCall, Hosts!studioVars
<1>2. /\ toStudio' \in Seq(ToStudioMessages) /\ AnswersLast(toStudio')
      /\ \A u \in Tasks : HasAnswer(toStudio', u) => HasAnswer(toStudio, u)
      /\ \A u \in Tasks : IsAbout(toStudio', u) => IsAbout(toStudio, u) \/ u = t
      /\ ~ HearsAnswer(heard[t])
  BY <1>1, HandlerSendsKeeps
<1>3. HostsTypes'
  BY <1>1, <1>2 DEF HostsTypes
<1>4. Hosts!TasksAreAbortable'
  BY <1>1 DEF Hosts!TasksAreAbortable, HostsTypes
<1>5. \A u \in Tasks :
        /\ handler'[u] = "none" <=> handler[u] = "none"
        /\ handler'[u] = "ended" <=> handler[u] = "ended"
        /\ handler'[u] = "confirming" => verdict'[u] = "none"
        /\ verdict[u] = "AbortError" => verdict'[u] = "AbortError"
  BY <1>1 DEF HostsTypes
<1> QED
  BY <1>1, <1>2, <1>3, <1>4, <1>5 DEF HostsStep, HostsVerdictStays

LEMMA ConfirmedKeeps == ASSUME HostsInv, NEW t \in Tasks, Hosts!Confirmed(t) PROVE HostsStep
<1> USE DEF HostsInv
<1>1. /\ UNCHANGED <<host, asked, heard, pluginToPlugin, toStudio, tasks, pluginAborted>>
      /\ \/ /\ handler[t] = "confirming"
            /\ handler' = [handler EXCEPT ![t] = "running"]
            /\ verdict' = [verdict EXCEPT ![t] = "given"]
         \/ UNCHANGED <<handler, verdict>>
  BY DEF Hosts!Confirmed, Hosts!wireVars
<1>2. HostsTypes'
  BY <1>1 DEF HostsTypes
<1>3. Hosts!TasksAreAbortable'
  BY <1>1 DEF Hosts!TasksAreAbortable, HostsTypes
<1>4. \A u \in Tasks :
        /\ handler'[u] = "none" <=> handler[u] = "none"
        /\ handler'[u] = "ended" <=> handler[u] = "ended"
        /\ handler'[u] = "confirming" => handler[u] = "confirming" /\ verdict'[u] = verdict[u]
        /\ verdict[u] = "AbortError" => verdict'[u] = "AbortError"
  BY <1>1 DEF HostsTypes
<1> QED
  BY <1>1, <1>2, <1>3, <1>4 DEF HostsStep, HostsVerdictStays

(* A handler that ends answers once, or not at all. *)
LEMMA AnswersOnce ==
    ASSUME HostsInv, NEW t \in Tasks, NEW outcome \in Hosts!Outcomes, Hosts!HandlerEnds(t, outcome)
    PROVE  \/ UNCHANGED toStudio /\ handler' = [handler EXCEPT ![t] = "unanswered"]
           \/ \E a \in Hosts!Answers : /\ toStudio' = Append(toStudio, <<a, t>>)
                                       /\ handler' = [handler EXCEPT ![t] = "ended"]
<1> DEFINE none == <<>>
           reply == Hosts!AnswerTo(outcome)
           tail == [i \in DOMAIN reply |-> <<reply[i], t>>]
<1>1. /\ handler' = [handler EXCEPT ![t] = IF reply = none THEN "unanswered" ELSE "ended"]
      /\ toStudio' = toStudio \o tail
  BY DEF Hosts!HandlerEnds
<1>2. reply \in {<<>>, <<"complete">>, <<"aborted">>, <<"error">>}
  <2>1. Hosts!Caught(outcome) \in {<<>>, <<"complete">>, <<"aborted">>, <<"error">>}
        \/ outcome \in {"returns", "returnsInvalid"}
    BY DEF Hosts!Caught, Hosts!Outcomes
  <2> HIDE DEF reply
  <2>2. \/ reply = Hosts!Preprocessed(outcome) \/ reply = Hosts!LoopHandled(outcome)
        \/ reply = Hosts!Generated(outcome)
    BY DEF reply, Hosts!AnswerTo, HostsInv, HostsTypes, Hosts!Hosts
  <2>3. Hosts!Preprocessed(outcome) \in {<<>>, <<"complete">>, <<"aborted">>, <<"error">>}
    <3>1. CASE outcome = "returns"
      BY <3>1 DEF Hosts!Preprocessed
    <3>2. CASE outcome = "returnsInvalid"
      BY <3>2 DEF Hosts!Preprocessed
    <3>3. CASE outcome \notin {"returns", "returnsInvalid"}
      <4>1. Hosts!Preprocessed(outcome) = Hosts!Caught(outcome)
        BY <3>3 DEF Hosts!Preprocessed
      <4> QED
        BY <2>1, <3>3, <4>1
    <3> QED
      BY <3>1, <3>2, <3>3
  <2>4. Hosts!LoopHandled(outcome) \in {<<>>, <<"complete">>, <<"aborted">>, <<"error">>}
    BY <2>1 DEF Hosts!LoopHandled
  <2>5. Hosts!Generated(outcome) \in {<<>>, <<"complete">>, <<"aborted">>, <<"error">>}
    BY <2>1 DEF Hosts!Generated
  <2> QED
    BY <2>2, <2>3, <2>4, <2>5
<1>3. toStudio \in Seq(ToStudioMessages)
  BY DEF HostsInv, HostsTypes
<1> HIDE DEF reply
<1>4. CASE reply = <<>>
  <2>1. tail = <<>>
    BY <1>4
  <2>2. toStudio \o <<>> = toStudio
    BY <1>3, ConcatEmptySeq
  <2>3. toStudio' = toStudio
    BY <1>1, <2>1, <2>2
  <2> QED
    BY <1>1, <1>4, <2>3
<1>5. ASSUME NEW a \in Hosts!Answers, reply = <<a>>
      PROVE  toStudio' = Append(toStudio, <<a, t>>) /\ handler' = [handler EXCEPT ![t] = "ended"]
  <2>1. reply # none
    BY <1>5
  <2> DEFINE m == <<a, t>>
  <2>2. tail = <<m>>
    BY <1>5
  <2>3. m \in ToStudioMessages
    BY DEF ToStudioMessages, Hosts!Sent
  <2> HIDE DEF m, none, tail
  <2>4. Append(toStudio, m) = toStudio \o <<m>>
    BY <1>3, <2>3, AppendIsConcat
  <2>5. toStudio' = Append(toStudio, m)
    BY <1>1, <2>2, <2>4
  <2> QED
    BY <1>1, <2>1, <2>5 DEF m
<1>6. {"complete", "aborted", "error"} = Hosts!Answers
  BY DEF Hosts!Answers
<1> QED
  BY <1>2, <1>4, <1>5, <1>6

LEMMA HandlerEndsKeeps ==
    ASSUME HostsInv, NEW t \in Tasks, NEW outcome \in Hosts!Outcomes, Hosts!HandlerEnds(t, outcome)
    PROVE  HostsStep
<1>1. /\ handler[t] = "running" /\ tasks' = tasks \ {t}
      /\ UNCHANGED <<host, asked, heard, pluginToPlugin, pluginAborted, verdict>>
  BY DEF Hosts!HandlerEnds, Hosts!studioVars, Hosts!Forgotten
<1>2. ASSUME NEW h \in {"ended", "unanswered"}, handler' = [handler EXCEPT ![t] = h],
             toStudio' \in Seq(ToStudioMessages)
      PROVE  /\ HostsTypes' /\ Hosts!TasksAreAbortable'
             /\ handler'[t] = h /\ \A u \in Tasks \ {t} : handler'[u] = handler[u]
  BY <1>1, <1>2 DEF HostsInv, HostsTypes, Hosts!TasksAreAbortable
<1>3. CASE UNCHANGED toStudio /\ handler' = [handler EXCEPT ![t] = "unanswered"]
  <2>1. toStudio' \in Seq(ToStudioMessages)
    BY <1>3 DEF HostsInv, HostsTypes
  <2>2. /\ HostsTypes' /\ Hosts!TasksAreAbortable'
        /\ handler'[t] = "unanswered" /\ \A u \in Tasks \ {t} : handler'[u] = handler[u]
    BY <1>2, <1>3, <2>1
  <2> QED
    BY <1>1, <1>3, <2>2 DEF HostsInv, HostsStep, HostsVerdictStays
<1>4. ASSUME NEW a \in Hosts!Answers, toStudio' = Append(toStudio, <<a, t>>),
             handler' = [handler EXCEPT ![t] = "ended"]
      PROVE  HostsStep
  <2> DEFINE m == <<a, t>>
  <2>1. m \in ToStudioMessages /\ m[1] = a /\ m[2] = t
    BY DEF ToStudioMessages, Hosts!Sent
  <2>2. toStudio' = Append(toStudio, m)
    BY <1>4
  <2> HIDE DEF m
  <2>3. StudioGrows(toStudio, toStudio', m)
    BY <2>1, <2>2, StudioAppends DEF HostsInv, HostsTypes
  <2>4. /\ HostsTypes' /\ Hosts!TasksAreAbortable'
        /\ handler'[t] = "ended" /\ \A u \in Tasks \ {t} : handler'[u] = handler[u]
    BY <1>2, <1>4, <2>3 DEF StudioGrows
  <2>5. ~ HasAnswer(toStudio, t) /\ ~ HearsAnswer(heard[t])
    BY <1>1 DEF HostsInv
  <2>6. /\ AnswersLast(toStudio')
        /\ \A u \in Tasks : HasAnswer(toStudio', u) => HasAnswer(toStudio, u) \/ u = t
        /\ \A u \in Tasks : IsAbout(toStudio', u) => IsAbout(toStudio, u) \/ u = t
    BY <2>1, <2>3, <2>5 DEF StudioGrows, HostsInv
  <2> QED
    BY <1>1, <2>4, <2>5, <2>6 DEF HostsInv, HostsStep, HostsVerdictStays
<1> QED
  BY <1>3, <1>4, AnswersOnce

LEMMA HostsInvKept ==
    ASSUME HostsInv, [Hosts!Next]_hostsVars PROVE HostsInv' /\ [HostsVerdictStays]_hostsVars
<1>1. CASE UNCHANGED hostsVars
  <2>1. UNCHANGED <<host, asked, heard, pluginToPlugin, toStudio, tasks, pluginAborted, handler,
                    verdict>>
    BY <1>1 DEF hostsVars
  <2>2. Hosts!TasksAreAbortable'
    BY <2>1 DEF HostsInv, Hosts!TasksAreAbortable
  <2> QED
    BY <1>1, <2>1, <2>2 DEF HostsInv, HostsTypes
<1>2. ASSUME NEW t \in Tasks, Hosts!StudioResponds(t) PROVE HostsStep
  <2>1. UNCHANGED <<host, asked, heard, pluginToPlugin, toStudio, tasks, pluginAborted, handler,
                    verdict>>
    BY <1>2 DEF Hosts!StudioResponds, Hosts!wireVars, Hosts!pluginVars
  <2>2. Hosts!TasksAreAbortable'
    BY <2>1 DEF HostsInv, Hosts!TasksAreAbortable
  <2> QED
    BY <2>1, <2>2 DEF HostsInv, HostsTypes, HostsStep, HostsVerdictStays
<1>3. ASSUME Hosts!Next PROVE HostsStep
  <2>1. \/ Hosts!StudioReceives \/ Hosts!PluginReceives
        \/ \E t \in Tasks : \/ Hosts!StudioStarts(t) \/ Hosts!StudioAborts(t)
                            \/ Hosts!StudioResponds(t) \/ Hosts!Update(t)
                            \/ Hosts!RequestConfirmToolCall(t) \/ Hosts!Confirmed(t)
                            \/ \E outcome \in Hosts!Outcomes : Hosts!HandlerEnds(t, outcome)
    BY <1>3 DEF Hosts!Next, Hosts!HandlerStep
  <2> QED
    BY <2>1, <1>2, StudioReceivesKeeps, PluginReceivesKeeps, StudioStartsKeeps, StudioAbortsKeeps,
       UpdateKeeps, RequestConfirmKeeps, ConfirmedKeeps, HandlerEndsKeeps
<1> QED
  BY <1>1, <1>3 DEF HostsStep

LEMMA HostsInvHolds == HostsInv => Hosts!TasksAreAbortable /\ Hosts!AnswerIsLast
BY DEF HostsInv, LastOfHeard, Hosts!AnswerIsLast

-----------------------------------------------------------------------------
(* The theorems.  A step of NextSessions is, for each component, a step of *)
(* its own or none.                                                        *)

LEMMA StepOfComponent ==
    ASSUME [NextSessions]_all
    PROVE  /\ [Auth!Next]_authVars /\ [Queue!Next]_waitQueueVars /\ [Buffered!Next]_bufferedVars
           /\ [Awaited!Next]_awaitedVars /\ [Hosts!Next]_hostsVars /\ [Derived!Next]_derivedVars
           /\ [Sessions!Next]_sessionsVars
BY DEF NextSessions, all

(* (fcfsAuthenticator.ts).                                                 *)
THEOREM HoldersAgreeHolds == FairSessions => []HoldersAgree
<1>1. InitSessions => AuthInv
  BY AuthInitInv DEF InitSessions
<1>2. AuthInv /\ [NextSessions]_all => AuthInv'
  BY StepOfComponent, AuthInvKept
<1>3. AuthInv => HoldersAgree
  BY AuthInvHolds
<1> QED
  BY <1>1, <1>2, <1>3, PTL DEF FairSessions

(* of a wait queue is in use (WaitQueue.ts).                               *)
THEOREM QueuesAgreeHolds == FairSessions => []QueuesAgree
<1>1. InitSessions => QueueInv /\ BufferedInv
  BY QueueInitInv, BufferedInitInv DEF InitSessions
<1>2. QueueInv /\ [NextSessions]_all => QueueInv'
  BY StepOfComponent, QueueInvKept
<1>3. BufferedInv /\ [NextSessions]_all => BufferedInv'
  BY StepOfComponent, BufferedInvKept
<1>4. QueueInv /\ BufferedInv => QueuesAgree
  BY QueueInvHolds, BufferedInvHolds DEF QueuesAgree
<1> QED
  BY <1>1, <1>2, <1>3, <1>4, PTL DEF FairSessions

(* ... wait for).                                                          *)
THEOREM CallsOfClientHolds == FairSessions => []CallsOfClient
<1>1. InitSessions => AwaitedInv /\ AwaitedComing
  BY AwaitedInitInv, AwaitedInitComing DEF InitSessions
<1>2. AwaitedInv /\ AwaitedComing /\ [NextSessions]_all => AwaitedInv' /\ AwaitedComing'
  BY StepOfComponent, AwaitedInvKept, AwaitedComingKept
<1>3. AwaitedInv => CallsOfClient
  BY AwaitedInvHolds
<1> QED
  BY <1>1, <1>2, <1>3, PTL DEF FairSessions

(* comes after its answer (PluginSelfRegistrationHost.ts).                 *)
THEOREM TasksAgreeHolds == FairSessions => []TasksAgree
<1>1. InitSessions => HostsInv
  BY HostsInitInv DEF InitSessions
<1>2. HostsInv /\ [NextSessions]_all => HostsInv'
  BY StepOfComponent, HostsInvKept
<1>3. HostsInv => TasksAgree
  BY HostsInvHolds DEF TasksAgree
<1> QED
  BY <1>1, <1>2, <1>3, PTL DEF FairSessions
=============================================================================
