------------------------ MODULE SessionsToolsProofs -------------------------
(***************************************************************************)
(* More of the proofs of SessionsProofs: tool use sessions and derived     *)
(* signals, and that no step undoes what a component promised.             *)
(***************************************************************************)
EXTENDS SessionsProofs

-----------------------------------------------------------------------------
(* Tool sessions.                                                          *)

CallStates == {"none", "refused", "ongoing", "resolved", "rejected"}
ToolAnswers == {"toolCallComplete", "toolCallError"}
ToolOrders == {"callTool", "abortToolCall"}

(* A call its caller waits for is on one of the wires, once, or under way. *)
One(A) == \E k \in A : A = {k}

OnePlace(A, B, on, i) ==
    \/ i \in on /\ A = {} /\ B = {}
    \/ i \notin on /\ One(A) /\ B = {}
    \/ i \notin on /\ A = {} /\ One(B)

CallPlaced(c, A, B, on, i) ==
    /\ c = "none" => A = {} /\ B = {} /\ i \notin on
    /\ c = "ongoing" => OnePlace(A, B, on, i)

(* The wires of a session that is ready.                                   *)
ReadyWires(cl, v, w, on) ==
    /\ \A k \in DOMAIN v : v[k][1] \in ToolOrders
    /\ \A k \in DOMAIN w : w[k][1] \in ToolAnswers
    /\ \A i \in Sessions!Calls :
         /\ CallPlaced(cl[i], Sessions!About(v, i), Sessions!About(w, i), on, i)
         /\ cl[i] = "ongoing" => \A k \in Sessions!About(v, i) : v[k][1] = "callTool"

(* How far a session is that is being created.                             *)
StartingWires(v, w, se, tl, pr) ==
    \/ v = <<<<"initSession">>>> /\ w = <<>> /\ se = "none" /\ pr = "none"
    \/ v = <<>> /\ w = <<>> /\ se = "open" /\ pr = "running"
    \/ v = <<>> /\ w = <<<<"sessionReady">>>> /\ se = "open" /\ pr = "returned" /\ tl
    \/ v = <<>> /\ w = <<<<"channelError">>>> /\ se = "discarded" /\ pr = "returned"

Uncalled(cl, on) == on = {} /\ \A i \in Sessions!Calls : cl[i] = "none"

ToolTypes(st, po, cl, v, w, ch, tl, on) ==
    /\ st \in {"none", "initializing", "ready", "disposed"}
    /\ {po, ch, tl} \subseteq BOOLEAN
    /\ cl \in [Sessions!Calls -> CallStates]
    /\ v \in Seq(Sessions!ToPluginMsg) /\ w \in Seq(Sessions!ToClientMsg)
    /\ on \subseteq Sessions!Calls

GoodSession(st, po, cl, v, w, ch, se, tl, pr, on) ==
    /\ ToolTypes(st, po, cl, v, w, ch, tl, on)
    /\ \A k \in DOMAIN v : v[k][1] = "callTool" => tl
    /\ st = "none" => ~ po /\ ~ ch /\ v = <<>> /\ w = <<>> /\ se = "none" /\ pr = "none" /\ Uncalled(cl, on)
    /\ st = "initializing" => ~ po /\ ch /\ Uncalled(cl, on) /\ StartingWires(v, w, se, tl, pr)
    /\ st = "ready" => ~ po /\ ch /\ se = "open" /\ tl /\ pr = "returned" /\ ReadyWires(cl, v, w, on)
    /\ st = "disposed" => \A i \in Sessions!Calls : cl[i] # "ongoing"

(* Of a session of all plugins, each is ready or was.                      *)
GoodMulti(mu, st, po) ==
    /\ mu = "none" <=> st = "none"
    /\ mu \in {"ready", "disposed"} => st = "ready" \/ (st = "disposed" /\ po)

SessionAt(p) ==
    /\ GoodSession(status[p], sessionPoisoned[p], call[p], toPlugin[p], toClient[p], channel[p],
                   session[p], tools[p], provider[p], ongoing[p])
    /\ GoodMulti(multi, status[p], sessionPoisoned[p])

ToolDomains ==
    /\ DOMAIN status = Plugins /\ DOMAIN sessionPoisoned = Plugins /\ DOMAIN call = Plugins
    /\ DOMAIN toPlugin = Plugins /\ DOMAIN toClient = Plugins /\ DOMAIN channel = Plugins
    /\ DOMAIN session = Plugins /\ DOMAIN tools = Plugins /\ DOMAIN provider = Plugins
    /\ DOMAIN ongoing = Plugins

ToolsInv == ToolDomains /\ \A p \in Plugins : SessionAt(p)

(* The messages.                                                           *)
LEMMA ToolMessages ==
    /\ \A m \in Sessions!ToPluginMsg : m[1] \in ToolOrders =>
         m[2] \in Sessions!Calls /\ \A i : Sessions!Carries(m, i) <=> i = m[2]
    /\ \A m \in Sessions!ToClientMsg : m[1] \in ToolAnswers =>
         m[2] \in Sessions!Calls /\ \A i : Sessions!Carries(m, i) <=> i = m[2]
    /\ \A t \in ToolOrders, i \in Sessions!Calls :
         <<t, i>> \in Sessions!ToPluginMsg /\ <<t, i>>[1] = t /\ <<t, i>>[2] = i
    /\ \A t \in ToolAnswers, i \in Sessions!Calls :
         <<t, i>> \in Sessions!ToClientMsg /\ <<t, i>>[1] = t /\ <<t, i>>[2] = i
    /\ \A t \in {"initSession", "discardSession"} : <<t>> \in Sessions!ToPluginMsg /\ <<t>>[1] = t
    /\ \A t \in {"sessionReady", "channelError"} : <<t>> \in Sessions!ToClientMsg /\ <<t>>[1] = t
<1>1. ASSUME NEW m \in Sessions!ToPluginMsg, m[1] \in ToolOrders
      PROVE  m[2] \in Sessions!Calls /\ \A i : Sessions!Carries(m, i) <=> i = m[2]
  <2>1. m # <<"initSession">> /\ m # <<"discardSession">>
    BY <1>1 DEF ToolOrders
  <2>2. m \in ToolOrders \X Sessions!Calls
    BY <2>1 DEF Sessions!ToPluginMsg, ToolOrders
  <2> QED
    BY <2>2 DEF Sessions!Carries
<1>2. ASSUME NEW m \in Sessions!ToClientMsg, m[1] \in ToolAnswers
      PROVE  m[2] \in Sessions!Calls /\ \A i : Sessions!Carries(m, i) <=> i = m[2]
  <2>1. m # <<"sessionReady">> /\ m # <<"channelError">>
    BY <1>2 DEF ToolAnswers
  <2>2. m \in ToolAnswers \X Sessions!Calls
    BY <2>1 DEF Sessions!ToClientMsg, ToolAnswers
  <2> QED
    BY <2>2 DEF Sessions!Carries
<1>3. \A t \in ToolOrders, i \in Sessions!Calls :
        <<t, i>> \in Sessions!ToPluginMsg /\ <<t, i>>[1] = t /\ <<t, i>>[2] = i
  BY DEF Sessions!ToPluginMsg, ToolOrders
<1>4. \A t \in ToolAnswers, i \in Sessions!Calls :
        <<t, i>> \in Sessions!ToClientMsg /\ <<t, i>>[1] = t /\ <<t, i>>[2] = i
  BY DEF Sessions!ToClientMsg, ToolAnswers
<1>5. \A t \in {"initSession", "discardSession"} : <<t>> \in Sessions!ToPluginMsg /\ <<t>>[1] = t
  BY DEF Sessions!ToPluginMsg
<1>6. \A t \in {"sessionReady", "channelError"} : <<t>> \in Sessions!ToClientMsg /\ <<t>>[1] = t
  BY DEF Sessions!ToClientMsg
<1> QED
  BY <1>1, <1>2, <1>3, <1>4, <1>5, <1>6

(* The messages about a call, when one is sent ...                         *)
Appended(s, m, r, i) ==
    /\ \A k \in DOMAIN r : (k \in DOMAIN s /\ r[k] = s[k]) \/ r[k] = m
    /\ \A k \in Sessions!About(r, i) : (k \in Sessions!About(s, i) /\ r[k] = s[k]) \/ r[k] = m
    /\ ~ Sessions!Carries(m, i) => Sessions!About(r, i) = Sessions!About(s, i)
    /\ Sessions!Carries(m, i) /\ Sessions!About(s, i) = {} => One(Sessions!About(r, i))

LEMMA AboutAppends ==
    ASSUME NEW S, NEW s \in Seq(S), NEW m \in S, NEW r, r = Append(s, m)
    PROVE  r \in Seq(S) /\ \A i : Appended(s, m, r, i)
<1> SUFFICES ASSUME NEW i PROVE r \in Seq(S) /\ Appended(s, m, r, i)
  OBVIOUS
<1> DEFINE n == Len(s)
<1>1. /\ r \in Seq(S) /\ DOMAIN s = 1..n /\ DOMAIN r = 1..(n + 1) /\ n \in Nat
      /\ \A k \in 1..n : r[k] = s[k]
      /\ r[n + 1] = m
  OBVIOUS
<1> HIDE DEF n
<1>2. /\ \A k \in 1..(n + 1) : k \in 1..n \/ k = n + 1
      /\ 1..n \subseteq 1..(n + 1) /\ n + 1 \in 1..(n + 1)
  BY <1>1
<1>3. \A k \in DOMAIN r : (k \in DOMAIN s /\ r[k] = s[k]) \/ r[k] = m
  BY <1>1, <1>2
<1>4. \A k \in Sessions!About(r, i) : (k \in Sessions!About(s, i) /\ r[k] = s[k]) \/ r[k] = m
  BY <1>3 DEF Sessions!About
<1>5. ~ Sessions!Carries(m, i) => Sessions!About(r, i) = Sessions!About(s, i)
  BY <1>1, <1>2 DEF Sessions!About
<1>6. ASSUME Sessions!Carries(m, i), Sessions!About(s, i) = {}
      PROVE  One(Sessions!About(r, i))
  <2>1. n + 1 \in Sessions!About(r, i)
    BY <1>1, <1>2, <1>6 DEF Sessions!About
  <2>2. \A k \in Sessions!About(r, i) : k = n + 1
    BY <1>1, <1>2, <1>6 DEF Sessions!About
  <2> QED
    BY <2>1, <2>2 DEF One
<1> QED
  BY <1>1, <1>3, <1>4, <1>5, <1>6 DEF Appended

(* ... and when one arrives.                                               *)
Arrived(s, h, r, i) ==
    /\ 1 \in DOMAIN s /\ s[1] = h /\ (1 \in Sessions!About(s, i) <=> Sessions!Carries(h, i))
    /\ \A k \in DOMAIN r : \E l \in DOMAIN s : r[k] = s[l]
    /\ \A k \in Sessions!About(r, i) : \E l \in Sessions!About(s, i) : r[k] = s[l]
    /\ Sessions!About(s, i) = {} => Sessions!About(r, i) = {}
    /\ One(Sessions!About(s, i)) /\ Sessions!Carries(h, i) => Sessions!About(r, i) = {}
    /\ One(Sessions!About(s, i)) /\ ~ Sessions!Carries(h, i) => One(Sessions!About(r, i))

LEMMA AboutTails ==
    ASSUME NEW S, NEW s \in Seq(S), s # <<>>, NEW r, r = Tail(s), NEW h, h = Head(s)
    PROVE  r \in Seq(S) /\ h \in S /\ \A i : Arrived(s, h, r, i)
<1> SUFFICES ASSUME NEW i PROVE r \in Seq(S) /\ h \in S /\ Arrived(s, h, r, i)
  OBVIOUS
<1> DEFINE n == Len(s)
<1>1. /\ r \in Seq(S) /\ DOMAIN s = 1..n /\ DOMAIN r = 1..(n - 1) /\ n \in Nat \ {0}
      /\ \A k \in 1..(n - 1) : r[k] = s[k + 1]
      /\ s[1] = h /\ h \in S
  OBVIOUS
<1> HIDE DEF n
<1>2. /\ \A k \in DOMAIN r : k \in Int /\ k + 1 \in DOMAIN s /\ k + 1 # 1 /\ r[k] = s[k + 1]
      /\ \A l \in DOMAIN s : l \in Int /\ (l = 1 \/ (l - 1 \in DOMAIN r /\ (l - 1) + 1 = l))
      /\ 1 \in DOMAIN s
  BY <1>1
<1>3. \A k \in DOMAIN r : k \in Sessions!About(r, i) <=> k + 1 \in Sessions!About(s, i)
  BY <1>2 DEF Sessions!About
<1>4. 1 \in Sessions!About(s, i) <=> Sessions!Carries(h, i)
  BY <1>1, <1>2 DEF Sessions!About
<1>5. \A k \in Sessions!About(r, i) : k \in DOMAIN r
  BY DEF Sessions!About
<1>6. One(Sessions!About(s, i)) /\ Sessions!Carries(h, i) => Sessions!About(r, i) = {}
  <2> SUFFICES ASSUME One(Sessions!About(s, i)), Sessions!Carries(h, i), NEW k \in Sessions!About(r, i)
               PROVE  FALSE
    OBVIOUS
  <2> QED
    BY <1>2, <1>3, <1>4, <1>5 DEF One
<1>7. One(Sessions!About(s, i)) /\ ~ Sessions!Carries(h, i) => One(Sessions!About(r, i))
  <2> SUFFICES ASSUME One(Sessions!About(s, i)), ~ Sessions!Carries(h, i)
               PROVE  One(Sessions!About(r, i))
    OBVIOUS
  <2>1. PICK l \in Sessions!About(s, i) : Sessions!About(s, i) = {l}
    BY DEF One
  <2>2. l \in DOMAIN s /\ l # 1
    BY <1>4, <2>1 DEF Sessions!About
  <2>3. PICK k \in DOMAIN r : k + 1 = l
    BY <1>2, <2>2
  <2>4. k \in Sessions!About(r, i)
    BY <1>3, <2>1, <2>3
  <2>5. ASSUME NEW j \in Sessions!About(r, i) PROVE j = k
    BY <1>2, <1>3, <1>5, <2>1, <2>3
  <2> QED
    BY <2>4, <2>5 DEF One
<1>8. \A k \in Sessions!About(r, i) : \E l \in Sessions!About(s, i) : r[k] = s[l]
  BY <1>2, <1>3, <1>5
<1>9. \A k \in DOMAIN r : \E l \in DOMAIN s : r[k] = s[l]
  BY <1>2
<1>10. Sessions!About(s, i) = {} => Sessions!About(r, i) = {}
  BY <1>8
<1> QED
  BY <1>1, <1>2, <1>4, <1>6, <1>7, <1>8, <1>9, <1>10 DEF Arrived

(* A session ends: what comes of it is of no more concern.                 *)
SessionOver(cl, v, po2, cl2, v2, w2, ch2) ==
    /\ po2 \in BOOLEAN /\ ch2 \in BOOLEAN /\ w2 \in Seq(Sessions!ToClientMsg)
    /\ cl2 = [i \in Sessions!Calls |-> IF cl[i] = "ongoing" THEN "rejected" ELSE cl[i]]
    /\ v2 = v \/ v2 = Append(v, <<"discardSession">>)

LEMMA SessionEnds ==
    ASSUME NEW st, NEW po, NEW cl, NEW v, NEW w, NEW ch, NEW se, NEW tl, NEW pr, NEW on,
           GoodSession(st, po, cl, v, w, ch, se, tl, pr, on),
           NEW po2, NEW cl2, NEW v2, NEW w2, NEW ch2, SessionOver(cl, v, po2, cl2, v2, w2, ch2)
    PROVE  GoodSession("disposed", po2, cl2, v2, w2, ch2, se, tl, pr, on)
<1> PICK m : m = <<"discardSession">>
  OBVIOUS
<1>0. /\ po2 \in BOOLEAN /\ ch2 \in BOOLEAN /\ w2 \in Seq(Sessions!ToClientMsg)
      /\ cl2 = [i \in Sessions!Calls |-> IF cl[i] = "ongoing" THEN "rejected" ELSE cl[i]]
      /\ v2 = v \/ v2 = Append(v, m)
  BY DEF SessionOver
<1>1. m \in Sessions!ToPluginMsg /\ m[1] = "discardSession"
  BY ToolMessages
<1>2. v \in Seq(Sessions!ToPluginMsg) /\ cl \in [Sessions!Calls -> CallStates]
      /\ tl \in BOOLEAN /\ on \subseteq Sessions!Calls
      /\ \A k \in DOMAIN v : v[k][1] = "callTool" => tl
  BY DEF GoodSession, ToolTypes
<1>3. v2 \in Seq(Sessions!ToPluginMsg) /\ \A k \in DOMAIN v2 : v2[k][1] = "callTool" => tl
  <2>1. CASE v2 = v
    BY <1>2, <2>1
  <2>2. CASE v2 = Append(v, m)
    <3>1. v2 \in Seq(Sessions!ToPluginMsg)
          /\ \A k \in DOMAIN v2 : (k \in DOMAIN v /\ v2[k] = v[k]) \/ v2[k] = m
      BY <1>1, <1>2, <2>2, AboutAppends DEF Appended
    <3>2. \A k \in DOMAIN v2 : v2[k][1] = "callTool" => tl
      <4> SUFFICES ASSUME NEW k \in DOMAIN v2, v2[k][1] = "callTool" PROVE tl
        OBVIOUS
      <4>1. v2[k] # m
        BY <1>1
      <4> QED
        BY <1>2, <3>1, <4>1
    <3> QED
      BY <3>1, <3>2
  <2> QED
    BY <1>0, <2>1, <2>2
<1>4. cl2 \in [Sessions!Calls -> CallStates] /\ \A i \in Sessions!Calls : cl2[i] # "ongoing"
  BY <1>0, <1>2 DEF CallStates
<1> QED
  BY <1>0, <1>2, <1>3, <1>4 DEF GoodSession, ToolTypes

(* A session begins.                                                       *)
LEMMA SessionStarts ==
    ASSUME NEW po, NEW cl, NEW v, NEW w, NEW ch, NEW se, NEW tl, NEW pr, NEW on,
           GoodSession("none", po, cl, v, w, ch, se, tl, pr, on)
    PROVE  GoodSession("initializing", po, cl, <<<<"initSession">>>>, w, TRUE, se, tl, pr, on)
<1> PICK m, v2 : m = <<"initSession">> /\ v2 = <<m>>
  OBVIOUS
<1>1. m \in Sessions!ToPluginMsg /\ m[1] = "initSession"
  BY ToolMessages
<1>2. v2 \in Seq(Sessions!ToPluginMsg) /\ \A k \in DOMAIN v2 : v2[k] = m
  BY <1>1
<1>3. StartingWires(v2, w, se, tl, pr) /\ ~ po /\ Uncalled(cl, on)
  BY DEF GoodSession, StartingWires
<1>4. ToolTypes("initializing", po, cl, v2, w, TRUE, tl, on)
  BY <1>2 DEF GoodSession, ToolTypes
<1>5. \A k \in DOMAIN v2 : v2[k][1] # "callTool"
  BY <1>1, <1>2
<1> QED
  BY <1>3, <1>4, <1>5 DEF GoodSession

(* A tool is called, or a call is aborted.                                 *)
LEMMA CallRefused ==
    ASSUME NEW po, NEW st, NEW cl, NEW v, NEW w, NEW ch, NEW se, NEW tl, NEW pr, NEW on, NEW j, NEW cl2,
           GoodSession(st, po, cl, v, w, ch, se, tl, pr, on), st \in {"ready", "disposed"},
           j \in Sessions!Calls, cl2 = [cl EXCEPT ![j] = "refused"]
    PROVE  GoodSession(st, po, cl2, v, w, ch, se, tl, pr, on)
<1>1. cl \in [Sessions!Calls -> CallStates]
  BY DEF GoodSession, ToolTypes
<1>2. cl2 \in [Sessions!Calls -> CallStates]
      /\ \A i \in Sessions!Calls : cl2[i] = cl[i] \/ cl2[i] = "refused"
  BY <1>1 DEF CallStates
<1>3. ToolTypes(st, po, cl2, v, w, ch, tl, on)
  BY <1>2 DEF GoodSession, ToolTypes
<1>4. ReadyWires(cl, v, w, on) => ReadyWires(cl2, v, w, on)
  BY <1>2 DEF ReadyWires, CallPlaced
<1>5. st = "disposed" => \A i \in Sessions!Calls : cl2[i] # "ongoing"
  BY <1>2 DEF GoodSession
<1> QED
  BY <1>3, <1>4, <1>5 DEF GoodSession

LEMMA CallSent ==
    ASSUME NEW po, NEW st, NEW cl, NEW v, NEW w, NEW ch, NEW se, NEW tl, NEW pr, NEW on, NEW j, NEW cl2, NEW v2,
           GoodSession(st, po, cl, v, w, ch, se, tl, pr, on), st = "ready",
           j \in Sessions!Calls, cl[j] = "none", cl2 = [cl EXCEPT ![j] = "ongoing"],
           v2 = Append(v, <<"callTool", j>>)
    PROVE  GoodSession(st, po, cl2, v2, w, ch, se, tl, pr, on)
<1> PICK m : m = <<"callTool", j>>
  OBVIOUS
<1>1. m \in Sessions!ToPluginMsg /\ m[1] = "callTool" /\ \A i : Sessions!Carries(m, i) <=> i = j
  BY ToolMessages DEF ToolOrders
<1>2. /\ cl \in [Sessions!Calls -> CallStates] /\ v \in Seq(Sessions!ToPluginMsg) /\ tl
      /\ ReadyWires(cl, v, w, on)
  BY DEF GoodSession, ToolTypes
<1>3. cl2 \in [Sessions!Calls -> CallStates] /\ cl2[j] = "ongoing"
      /\ \A i \in Sessions!Calls : i # j => cl2[i] = cl[i]
  BY <1>2 DEF CallStates
<1>4. /\ v2 \in Seq(Sessions!ToPluginMsg)
      /\ \A k \in DOMAIN v2 : (k \in DOMAIN v /\ v2[k] = v[k]) \/ v2[k] = m
      /\ \A i : /\ \A k \in Sessions!About(v2, i) :
                     (k \in Sessions!About(v, i) /\ v2[k] = v[k]) \/ v2[k] = m
                /\ i # j => Sessions!About(v2, i) = Sessions!About(v, i)
                /\ i = j /\ Sessions!About(v, i) = {} => One(Sessions!About(v2, i))
  <2>1. v2 \in Seq(Sessions!ToPluginMsg) /\ \A i : Appended(v, m, v2, i)
    BY <1>1, <1>2, AboutAppends
  <2>2. \A k \in DOMAIN v2 : (k \in DOMAIN v /\ v2[k] = v[k]) \/ v2[k] = m
    BY <2>1 DEF Appended
  <2> QED
    BY <1>1, <2>1, <2>2 DEF Appended
<1>5. ToolTypes(st, po, cl2, v2, w, ch, tl, on)
  BY <1>3, <1>4 DEF GoodSession, ToolTypes
<1>6. ReadyWires(cl2, v2, w, on)
  <2>1. \A k \in DOMAIN v2 : v2[k][1] \in ToolOrders
    BY <1>1, <1>2, <1>4 DEF ReadyWires, ToolOrders
  <2>2. ASSUME NEW i \in Sessions!Calls
        PROVE  CallPlaced(cl2[i], Sessions!About(v2, i), Sessions!About(w, i), on, i)
    <3>1. CallPlaced(cl[i], Sessions!About(v, i), Sessions!About(w, i), on, i)
      BY <1>2 DEF ReadyWires
    <3>2. CASE i = j
      <4>1. Sessions!About(v, i) = {} /\ Sessions!About(w, i) = {} /\ i \notin on
        BY <3>1, <3>2 DEF CallPlaced
      <4> QED
        BY <1>3, <1>4, <3>2, <4>1 DEF CallPlaced, OnePlace
    <3>3. CASE i # j
      BY <1>3, <1>4, <3>1, <3>3
    <3> QED
      BY <3>2, <3>3
  <2>3. ASSUME NEW i \in Sessions!Calls, cl2[i] = "ongoing", NEW k \in Sessions!About(v2, i)
        PROVE  v2[k][1] = "callTool"
    <3>1. CASE v2[k] = m
      BY <1>1, <3>1
    <3>2. CASE k \in Sessions!About(v, i) /\ v2[k] = v[k] /\ i # j
      BY <1>2, <1>3, <2>3, <3>2 DEF ReadyWires
    <3>3. CASE k \in Sessions!About(v, i) /\ i = j
      <4>1. CallPlaced(cl[i], Sessions!About(v, i), Sessions!About(w, i), on, i)
        BY <1>2 DEF ReadyWires
      <4> QED
        BY <3>3, <4>1 DEF CallPlaced
    <3> QED
      BY <1>4, <3>1, <3>2, <3>3
  <2> QED
    BY <1>2, <2>1, <2>2, <2>3 DEF ReadyWires
<1>7. \A k \in DOMAIN v2 : v2[k][1] = "callTool" => tl
  BY <1>2
<1> QED
  BY <1>5, <1>6, <1>7 DEF GoodSession

LEMMA CallAborts ==
    ASSUME NEW po, NEW st, NEW cl, NEW v, NEW w, NEW ch, NEW se, NEW tl, NEW pr, NEW on, NEW j, NEW cl2, NEW v2,
           GoodSession(st, po, cl, v, w, ch, se, tl, pr, on), st # "disposed",
           j \in Sessions!Calls, cl[j] \in {"ongoing", "resolved", "rejected"},
           cl2 = [cl EXCEPT ![j] = IF @ = "ongoing" THEN "rejected" ELSE @],
           v2 = Append(v, <<"abortToolCall", j>>)
    PROVE  GoodSession(st, po, cl2, v2, w, ch, se, tl, pr, on)
<1> PICK m : m = <<"abortToolCall", j>>
  OBVIOUS
<1>1. m \in Sessions!ToPluginMsg /\ m[1] = "abortToolCall" /\ \A i : Sessions!Carries(m, i) <=> i = j
  BY ToolMessages DEF ToolOrders
<1>2. st = "ready"
  BY DEF GoodSession, ToolTypes, Uncalled
<1>3. /\ cl \in [Sessions!Calls -> CallStates] /\ v \in Seq(Sessions!ToPluginMsg) /\ tl
      /\ ReadyWires(cl, v, w, on)
  BY <1>2 DEF GoodSession, ToolTypes
<1>4. cl2 \in [Sessions!Calls -> CallStates] /\ cl2[j] \notin {"none", "ongoing"}
      /\ \A i \in Sessions!Calls : i # j => cl2[i] = cl[i]
  BY <1>3 DEF CallStates
<1>5. /\ v2 \in Seq(Sessions!ToPluginMsg)
      /\ \A k \in DOMAIN v2 : (k \in DOMAIN v /\ v2[k] = v[k]) \/ v2[k] = m
      /\ \A i : /\ i # j => Sessions!About(v2, i) = Sessions!About(v, i)
                /\ \A k \in Sessions!About(v2, i) :
                     (k \in Sessions!About(v, i) /\ v2[k] = v[k]) \/ v2[k] = m
  <2>1. v2 \in Seq(Sessions!ToPluginMsg) /\ \A i : Appended(v, m, v2, i)
    BY <1>1, <1>3, AboutAppends
  <2>2. \A k \in DOMAIN v2 : (k \in DOMAIN v /\ v2[k] = v[k]) \/ v2[k] = m
    BY <2>1 DEF Appended
  <2> QED
    BY <1>1, <2>1, <2>2 DEF Appended
<1>6. ToolTypes(st, po, cl2, v2, w, ch, tl, on)
  BY <1>4, <1>5 DEF GoodSession, ToolTypes
<1>7. ReadyWires(cl2, v2, w, on)
  <2>1. \A k \in DOMAIN v2 : v2[k][1] \in ToolOrders
    BY <1>1, <1>3, <1>5 DEF ReadyWires, ToolOrders
  <2>2. ASSUME NEW i \in Sessions!Calls
        PROVE  CallPlaced(cl2[i], Sessions!About(v2, i), Sessions!About(w, i), on, i)
    <3>1. CallPlaced(cl[i], Sessions!About(v, i), Sessions!About(w, i), on, i)
      BY <1>3 DEF ReadyWires
    <3>2. CASE i = j
      BY <1>4, <3>2 DEF CallPlaced
    <3>3. CASE i # j
      BY <1>4, <1>5, <3>1, <3>3
    <3> QED
      BY <3>2, <3>3
  <2>3. ASSUME NEW i \in Sessions!Calls, cl2[i] = "ongoing", NEW k \in Sessions!About(v2, i)
        PROVE  v2[k][1] = "callTool"
    <3>1. i # j /\ cl[i] = "ongoing"
      BY <1>4, <2>3
    <3>2. k \in Sessions!About(v, i) /\ k \in DOMAIN v2 /\ k \in DOMAIN v
      BY <1>5, <3>1 DEF Sessions!About
    <3>3. v2[k] = v[k]
      BY <1>1, <1>5, <3>1 DEF Sessions!About
    <3> QED
      BY <1>3, <3>1, <3>2, <3>3 DEF ReadyWires
  <2> QED
    BY <1>3, <2>1, <2>2, <2>3 DEF ReadyWires
<1>8. \A k \in DOMAIN v2 : v2[k][1] = "callTool" => tl
  BY <1>3
<1> QED
  BY <1>2, <1>6, <1>7, <1>8 DEF GoodSession

(* The client hears that a session is ready ...                            *)
LEMMA ReadyHeard ==
    ASSUME NEW po, NEW st, NEW cl, NEW v, NEW w, NEW ch, NEW se, NEW tl, NEW pr, NEW on, NEW st2, NEW w2,
           GoodSession(st, po, cl, v, w, ch, se, tl, pr, on), w # <<>>, Head(w)[1] = "sessionReady",
           w2 = Tail(w), st2 = IF st = "initializing" THEN "ready" ELSE st
    PROVE  GoodSession(st2, po, cl, v, w2, ch, se, tl, pr, on)
<1>1. ToolTypes(st, po, cl, v, w, ch, tl, on) /\ w \in Seq(Sessions!ToClientMsg)
  BY DEF GoodSession, ToolTypes
<1>2. w2 \in Seq(Sessions!ToClientMsg)
  BY <1>1
<1>3. st # "none"
  BY DEF GoodSession
<1>4. st # "ready"
  <2> SUFFICES ASSUME st = "ready" PROVE FALSE
    OBVIOUS
  <2>1. w[1][1] \in ToolAnswers
    BY <1>1 DEF GoodSession, ReadyWires
  <2> QED
    BY <1>1, <2>1 DEF ToolAnswers
<1>5. CASE st = "initializing"
  <2>1. v = <<>> /\ w = <<<<"sessionReady">>>> /\ se = "open" /\ pr = "returned" /\ tl
    <3>1. <<<<"channelError">>>>[1] # w[1]
      BY <1>1, ToolMessages
    <3> QED
      BY <1>5, <3>1 DEF GoodSession, StartingWires
  <2>2. w2 = <<>>
    BY <2>1
  <2>3. Uncalled(cl, on) /\ ~ po /\ ch
    BY <1>5 DEF GoodSession
  <2>4. ReadyWires(cl, v, w2, on)
    BY <2>1, <2>2, <2>3 DEF ReadyWires, Uncalled, CallPlaced, Sessions!About
  <2>5. ToolTypes("ready", po, cl, v, w2, ch, tl, on)
    BY <1>1, <1>2 DEF ToolTypes
  <2> QED
    BY <1>5, <2>1, <2>3, <2>4, <2>5 DEF GoodSession
<1>6. CASE st = "disposed"
  <2>1. ToolTypes(st, po, cl, v, w2, ch, tl, on)
    BY <1>1, <1>2 DEF ToolTypes
  <2> QED
    BY <1>6, <2>1 DEF GoodSession
<1> QED
  BY <1>1, <1>3, <1>4, <1>5, <1>6 DEF ToolTypes

(* ... or that a call was answered.                                        *)
AnswerOf(cl, w, m, cl2, w2) ==
    /\ w # <<>> /\ m = Head(w) /\ m[1] \in ToolAnswers /\ w2 = Tail(w)
    /\ cl2 = [cl EXCEPT ![m[2]] = IF @ = "ongoing" THEN Sessions!Outcome(m[1]) ELSE @]

LEMMA AnswerHeard ==
    ASSUME NEW po, NEW st, NEW cl, NEW v, NEW w, NEW ch, NEW se, NEW tl, NEW pr, NEW on, NEW m, NEW cl2, NEW w2,
           GoodSession(st, po, cl, v, w, ch, se, tl, pr, on), AnswerOf(cl, w, m, cl2, w2)
    PROVE  GoodSession(st, po, cl2, v, w2, ch, se, tl, pr, on)
<1> /\ w # <<>> /\ m = Head(w) /\ m[1] \in ToolAnswers /\ w2 = Tail(w)
    /\ cl2 = [cl EXCEPT ![m[2]] = IF @ = "ongoing" THEN Sessions!Outcome(m[1]) ELSE @]
  BY DEF AnswerOf
<1> PICK j : j = m[2]
  OBVIOUS
<1>1. /\ ToolTypes(st, po, cl, v, w, ch, tl, on) /\ w \in Seq(Sessions!ToClientMsg)
      /\ cl \in [Sessions!Calls -> CallStates]
  BY DEF GoodSession, ToolTypes
<1>2. /\ w2 \in Seq(Sessions!ToClientMsg) /\ m \in Sessions!ToClientMsg /\ \A i : Arrived(w, m, w2, i)
  BY <1>1, AboutTails
<1>3. j \in Sessions!Calls /\ \A i : Sessions!Carries(m, i) <=> i = j
  BY <1>2, ToolMessages
<1>4. /\ cl2 \in [Sessions!Calls -> CallStates] /\ cl2[j] # "ongoing"
      /\ cl[j] = "none" => cl2[j] = "none"
      /\ cl2[j] = "none" => cl[j] = "none"
      /\ \A i \in Sessions!Calls : i # j => cl2[i] = cl[i]
  BY <1>1, <1>3 DEF CallStates, Sessions!Outcome
<1>5. ToolTypes(st, po, cl2, v, w2, ch, tl, on)
  BY <1>1, <1>2, <1>4 DEF ToolTypes
<1>6. st # "none"
  BY DEF GoodSession
<1>7. st # "initializing"
  <2> SUFFICES ASSUME st = "initializing" PROVE FALSE
    OBVIOUS
  <2>1. w = <<<<"sessionReady">>>> \/ w = <<<<"channelError">>>>
    BY DEF GoodSession, StartingWires
  <2>2. m = <<"sessionReady">> \/ m = <<"channelError">>
    BY <2>1
  <2> QED
    BY <2>2, ToolMessages DEF ToolAnswers
<1>8. st = "ready" => ReadyWires(cl2, v, w2, on)
  <2> SUFFICES ASSUME st = "ready" PROVE ReadyWires(cl2, v, w2, on)
    OBVIOUS
  <2>1. ReadyWires(cl, v, w, on)
    BY DEF GoodSession
  <2>2. \A k \in DOMAIN w2 : w2[k][1] \in ToolAnswers
    BY <1>2, <2>1 DEF ReadyWires, Arrived
  <2>3. ASSUME NEW i \in Sessions!Calls
        PROVE  CallPlaced(cl2[i], Sessions!About(v, i), Sessions!About(w2, i), on, i)
    <3>1. CallPlaced(cl[i], Sessions!About(v, i), Sessions!About(w, i), on, i) /\ Arrived(w, m, w2, i)
      BY <1>2, <2>1 DEF ReadyWires
    <3>2. CASE i = j
      BY <1>4, <3>1, <3>2 DEF CallPlaced, Arrived
    <3>3. CASE i # j
      <4>1. ~ Sessions!Carries(m, i) /\ cl2[i] = cl[i]
        BY <1>3, <1>4, <3>3
      <4> QED
        BY <3>1, <4>1 DEF CallPlaced, OnePlace, Arrived
    <3> QED
      BY <3>2, <3>3
  <2>4. \A i \in Sessions!Calls : cl2[i] = "ongoing" => cl[i] = "ongoing"
    BY <1>4
  <2> QED
    BY <2>1, <2>2, <2>3, <2>4 DEF ReadyWires
<1>9. st = "disposed" => \A i \in Sessions!Calls : cl2[i] # "ongoing"
  BY <1>4 DEF GoodSession
<1> QED
  BY <1>5, <1>6, <1>7, <1>8, <1>9 DEF GoodSession

(* The plugin receives a message.                                          *)
LEMMA SessionInits ==
    ASSUME NEW po, NEW st, NEW cl, NEW v, NEW w, NEW ch, NEW se, NEW tl, NEW pr, NEW on, NEW v2,
           GoodSession(st, po, cl, v, w, ch, se, tl, pr, on), v # <<>>, v2 = Tail(v),
           Head(v)[1] = "initSession"
    PROVE  GoodSession(st, po, cl, v2, w, ch, "open", tl, "running", on)
<1> PICK m : m = Head(v)
  OBVIOUS
<1>1. ToolTypes(st, po, cl, v, w, ch, tl, on) /\ v \in Seq(Sessions!ToPluginMsg)
  BY DEF GoodSession, ToolTypes
<1>2. v2 \in Seq(Sessions!ToPluginMsg) /\ \A i : Arrived(v, m, v2, i)
  BY <1>1, AboutTails
<1>3. ToolTypes(st, po, cl, v2, w, ch, tl, on)
  BY <1>1, <1>2 DEF ToolTypes
<1>4. st # "none"
  BY DEF GoodSession
<1>5. st # "ready"
  <2> SUFFICES ASSUME st = "ready" PROVE FALSE
    OBVIOUS
  <2>1. v[1][1] \in ToolOrders /\ v[1] = m
    BY <1>2 DEF GoodSession, ReadyWires, Arrived
  <2> QED
    BY <2>1 DEF ToolOrders
<1>6. st = "initializing" => StartingWires(v2, w, "open", tl, "running")
  <2> SUFFICES ASSUME st = "initializing" PROVE v2 = <<>> /\ w = <<>>
    BY DEF StartingWires
  <2>1. v = <<<<"initSession">>>> /\ w = <<>>
    BY DEF GoodSession, StartingWires
  <2> QED
    BY <2>1
<1>7. \A k \in DOMAIN v2 : v2[k][1] = "callTool" => tl
  BY <1>2 DEF GoodSession, Arrived
<1> QED
  BY <1>3, <1>4, <1>5, <1>6, <1>7 DEF GoodSession

LEMMA SessionDiscards ==
    ASSUME NEW po, NEW st, NEW cl, NEW v, NEW w, NEW ch, NEW se, NEW tl, NEW pr, NEW on, NEW v2, NEW se2,
           GoodSession(st, po, cl, v, w, ch, se, tl, pr, on), v # <<>>, v2 = Tail(v),
           Head(v)[1] = "discardSession"
    PROVE  GoodSession(st, po, cl, v2, w, ch, se2, tl, pr, on)
<1> PICK m : m = Head(v)
  OBVIOUS
<1>1. ToolTypes(st, po, cl, v, w, ch, tl, on) /\ v \in Seq(Sessions!ToPluginMsg)
  BY DEF GoodSession, ToolTypes
<1>2. v2 \in Seq(Sessions!ToPluginMsg) /\ \A i : Arrived(v, m, v2, i)
  BY <1>1, AboutTails
<1>3. ToolTypes(st, po, cl, v2, w, ch, tl, on)
  BY <1>1, <1>2 DEF ToolTypes
<1>4. st # "none"
  BY DEF GoodSession
<1>5. st # "ready"
  <2> SUFFICES ASSUME st = "ready" PROVE FALSE
    OBVIOUS
  <2>1. v[1][1] \in ToolOrders /\ v[1] = m
    BY <1>2 DEF GoodSession, ReadyWires, Arrived
  <2> QED
    BY <2>1 DEF ToolOrders
<1>6. st # "initializing"
  <2> SUFFICES ASSUME st = "initializing" PROVE FALSE
    OBVIOUS
  <2>1. v = <<<<"initSession">>>>
    BY DEF GoodSession, StartingWires
  <2>2. m = <<"initSession">>
    BY <2>1
  <2> QED
    BY <2>2, ToolMessages
<1>7. \A k \in DOMAIN v2 : v2[k][1] = "callTool" => tl
  BY <1>2 DEF GoodSession, Arrived
<1> QED
  BY <1>3, <1>4, <1>5, <1>6, <1>7 DEF GoodSession

(* A tool runs or is aborted, if the session is there.                     *)
LEMMA ToolOrdered ==
    ASSUME NEW po, NEW st, NEW cl, NEW v, NEW w, NEW ch, NEW se, NEW tl, NEW pr, NEW on, NEW m, NEW v2, NEW on2,
           GoodSession(st, po, cl, v, w, ch, se, tl, pr, on), v # <<>>, m = Head(v), v2 = Tail(v),
           m[1] \in ToolOrders,
           IF se = "open" THEN on2 = IF m[1] = "callTool" THEN on \cup {m[2]} ELSE on \ {m[2]}
                          ELSE on2 = on
    PROVE  GoodSession(st, po, cl, v2, w, ch, se, tl, pr, on2)
<1> PICK j : j = m[2]
  OBVIOUS
<1>1. ToolTypes(st, po, cl, v, w, ch, tl, on) /\ v \in Seq(Sessions!ToPluginMsg) /\ on \subseteq Sessions!Calls
  BY DEF GoodSession, ToolTypes
<1>2. /\ v2 \in Seq(Sessions!ToPluginMsg) /\ m \in Sessions!ToPluginMsg /\ \A i : Arrived(v, m, v2, i)
  BY <1>1, AboutTails
<1>3. j \in Sessions!Calls /\ \A i : Sessions!Carries(m, i) <=> i = j
  BY <1>2, ToolMessages
<1>4. on2 \subseteq Sessions!Calls /\ \A i : i # j => (i \in on2 <=> i \in on)
  BY <1>1, <1>3
<1>5. ToolTypes(st, po, cl, v2, w, ch, tl, on2)
  BY <1>1, <1>2, <1>4 DEF ToolTypes
<1>6. st # "none"
  BY DEF GoodSession
<1>7. st # "initializing"
  <2> SUFFICES ASSUME st = "initializing" PROVE FALSE
    OBVIOUS
  <2>1. v = <<<<"initSession">>>>
    BY DEF GoodSession, StartingWires
  <2>2. m = <<"initSession">>
    BY <2>1
  <2> QED
    BY <2>2, ToolMessages DEF ToolOrders
<1>8. st = "ready" => ReadyWires(cl, v2, w, on2)
  <2> SUFFICES ASSUME st = "ready" PROVE ReadyWires(cl, v2, w, on2)
    OBVIOUS
  <2>1. ReadyWires(cl, v, w, on) /\ se = "open"
    BY DEF GoodSession
  <2>2. \A k \in DOMAIN v2 : v2[k][1] \in ToolOrders
    BY <1>2, <2>1 DEF ReadyWires, Arrived
  <2>3. ASSUME NEW i \in Sessions!Calls
        PROVE  CallPlaced(cl[i], Sessions!About(v2, i), Sessions!About(w, i), on2, i)
    <3>1. /\ CallPlaced(cl[i], Sessions!About(v, i), Sessions!About(w, i), on, i) /\ Arrived(v, m, v2, i)
          /\ cl[i] = "ongoing" => \A k \in Sessions!About(v, i) : v[k][1] = "callTool"
      BY <1>2, <2>1 DEF ReadyWires
    <3>2. CASE i = j
      <4>1. 1 \in Sessions!About(v, i) /\ v[1] = m /\ Sessions!Carries(m, i)
        BY <1>3, <3>1, <3>2 DEF Arrived
      <4>2. cl[i] # "none"
        BY <3>1, <4>1 DEF CallPlaced
      <4>3. cl[i] = "ongoing" => One(Sessions!About(v, i)) /\ Sessions!About(w, i) = {} /\ i \notin on
        BY <3>1, <4>1 DEF CallPlaced, OnePlace
      <4>4. cl[i] = "ongoing" => Sessions!About(v2, i) = {}
        BY <3>1, <4>1, <4>3 DEF Arrived
      <4>5. cl[i] = "ongoing" => i \in on2
        BY <2>1, <3>1, <3>2, <4>1
      <4> QED
        BY <4>2, <4>3, <4>4, <4>5 DEF CallPlaced, OnePlace
    <3>3. CASE i # j
      <4>1. ~ Sessions!Carries(m, i) /\ (i \in on2 <=> i \in on)
        BY <1>3, <1>4, <3>3
      <4> QED
        BY <3>1, <4>1 DEF CallPlaced, OnePlace, Arrived
    <3> QED
      BY <3>2, <3>3
  <2>4. ASSUME NEW i \in Sessions!Calls, cl[i] = "ongoing", NEW k \in Sessions!About(v2, i)
        PROVE  v2[k][1] = "callTool"
    <3>1. Arrived(v, m, v2, i) /\ \A l \in Sessions!About(v, i) : v[l][1] = "callTool"
      BY <1>2, <2>1, <2>4 DEF ReadyWires
    <3> QED
      BY <3>1 DEF Arrived
  <2> QED
    BY <2>1, <2>2, <2>3, <2>4 DEF ReadyWires
<1>9. \A k \in DOMAIN v2 : v2[k][1] = "callTool" => tl
  BY <1>2 DEF GoodSession, Arrived
<1> QED
  BY <1>5, <1>6, <1>7, <1>8, <1>9 DEF GoodSession

(* The tools provider returns or throws.                                   *)
ProviderTold(t, ch, w, se, tl, w2, se2, tl2) ==
    /\ t \in {"sessionReady", "channelError"} /\ tl2 \in BOOLEAN
    /\ IF se = "open"
       THEN /\ w2 = IF ch THEN Append(w, <<t>>) ELSE w
            /\ t = "sessionReady" => tl2 = TRUE /\ se2 = se
            /\ t = "channelError" => tl2 = tl /\ se2 = "discarded"
       ELSE w2 = w /\ tl2 = tl /\ se2 = se

LEMMA SessionReports ==
    ASSUME NEW po, NEW st, NEW cl, NEW v, NEW w, NEW ch, NEW se, NEW tl, NEW pr, NEW on,
           NEW t, NEW w2, NEW tl2, NEW se2,
           GoodSession(st, po, cl, v, w, ch, se, tl, pr, on), pr = "running",
           ProviderTold(t, ch, w, se, tl, w2, se2, tl2)
    PROVE  GoodSession(st, po, cl, v, w2, ch, se2, tl2, "returned", on)
<1> /\ t \in {"sessionReady", "channelError"} /\ tl2 \in BOOLEAN
    /\ IF se = "open"
       THEN /\ w2 = IF ch THEN Append(w, <<t>>) ELSE w
            /\ t = "sessionReady" => tl2 = TRUE /\ se2 = se
            /\ t = "channelError" => tl2 = tl /\ se2 = "discarded"
       ELSE w2 = w /\ tl2 = tl /\ se2 = se
  BY DEF ProviderTold
<1> PICK m : m = <<t>>
  OBVIOUS
<1>1. m \in Sessions!ToClientMsg
  BY ToolMessages
<1>2. ToolTypes(st, po, cl, v, w, ch, tl, on) /\ w \in Seq(Sessions!ToClientMsg)
  BY DEF GoodSession, ToolTypes
<1>3. w2 \in Seq(Sessions!ToClientMsg)
  BY <1>1, <1>2
<1>4. ToolTypes(st, po, cl, v, w2, ch, tl2, on)
  BY <1>2, <1>3 DEF ToolTypes
<1>5. tl => tl2
  OBVIOUS
<1>6. st # "none" /\ st # "ready"
  BY DEF GoodSession
<1>7. CASE st = "initializing"
  <2>1. ~ po /\ ch /\ Uncalled(cl, on) /\ v = <<>> /\ w = <<>> /\ se = "open"
    BY <1>7 DEF GoodSession, StartingWires
  <2>2. w2 = <<m>>
    BY <2>1
  <2>3. StartingWires(v, w2, se2, tl2, "returned")
    BY <2>1, <2>2 DEF StartingWires
  <2>4. \A k \in DOMAIN v : v[k][1] = "callTool" => tl2
    BY <2>1
  <2> QED
    BY <1>4, <1>7, <2>1, <2>3, <2>4 DEF GoodSession
<1>8. CASE st = "disposed"
  <2>1. \A k \in DOMAIN v : v[k][1] = "callTool" => tl2
    BY <1>5 DEF GoodSession
  <2>2. \A i \in Sessions!Calls : cl[i] # "ongoing"
    BY <1>8 DEF GoodSession
  <2> QED
    BY <1>4, <1>8, <2>1, <2>2 DEF GoodSession
<1> QED
  BY <1>2, <1>6, <1>7, <1>8 DEF ToolTypes

(* A tool returns.                                                         *)
LEMMA ToolAnswered ==
    ASSUME NEW po, NEW st, NEW cl, NEW v, NEW w, NEW ch, NEW se, NEW tl, NEW pr, NEW on,
           NEW t \in ToolAnswers, NEW j \in Sessions!Calls, NEW w2,
           GoodSession(st, po, cl, v, w, ch, se, tl, pr, on), j \in on,
           w2 = IF ch THEN Append(w, <<t, j>>) ELSE w
    PROVE  GoodSession(st, po, cl, v, w2, ch, se, tl, pr, on \ {j})
<1> PICK m, on2 : m = <<t, j>> /\ on2 = on \ {j}
  OBVIOUS
<1>1. m \in Sessions!ToClientMsg /\ m[1] = t /\ m[2] = j
  BY ToolMessages
<1>2. \A i : Sessions!Carries(m, i) <=> i = j
  BY <1>1, ToolMessages
<1>3. ToolTypes(st, po, cl, v, w, ch, tl, on) /\ w \in Seq(Sessions!ToClientMsg) /\ on \subseteq Sessions!Calls
  BY DEF GoodSession, ToolTypes
<1>4. w2 \in Seq(Sessions!ToClientMsg) /\ on2 \subseteq Sessions!Calls /\ j \notin on2
      /\ \A i : i # j => (i \in on2 <=> i \in on)
  BY <1>1, <1>3
<1>5. ToolTypes(st, po, cl, v, w2, ch, tl, on2)
  BY <1>3, <1>4 DEF ToolTypes
<1>6. st \notin {"none", "initializing"}
  BY DEF GoodSession, Uncalled
<1>7. st = "ready" => ReadyWires(cl, v, w2, on2)
  <2> SUFFICES ASSUME st = "ready" PROVE ReadyWires(cl, v, w2, on2)
    OBVIOUS
  <2>1. ReadyWires(cl, v, w, on) /\ w2 = Append(w, m)
    BY DEF GoodSession
  <2>2. \A i : Appended(w, m, w2, i)
    BY <1>1, <1>3, <2>1, AboutAppends
  <2>3. \A k \in DOMAIN w2 : w2[k][1] \in ToolAnswers
    <3>1. \A k \in DOMAIN w2 : (k \in DOMAIN w /\ w2[k] = w[k]) \/ w2[k] = m
      BY <2>2 DEF Appended
    <3> QED
      BY <1>1, <2>1, <3>1 DEF ReadyWires
  <2>4. ASSUME NEW i \in Sessions!Calls
        PROVE  CallPlaced(cl[i], Sessions!About(v, i), Sessions!About(w2, i), on2, i)
    <3>1. CallPlaced(cl[i], Sessions!About(v, i), Sessions!About(w, i), on, i) /\ Appended(w, m, w2, i)
      BY <2>1, <2>2 DEF ReadyWires
    <3>2. CASE i = j
      <4>1. cl[i] # "none" /\ (cl[i] = "ongoing" => Sessions!About(v, i) = {} /\ Sessions!About(w, i) = {})
        BY <3>1, <3>2 DEF CallPlaced, OnePlace
      <4>2. Sessions!Carries(m, i)
        BY <1>2, <3>2
      <4> QED
        BY <1>4, <3>1, <3>2, <4>1, <4>2 DEF CallPlaced, OnePlace, Appended
    <3>3. CASE i # j
      <4>1. ~ Sessions!Carries(m, i) /\ (i \in on2 <=> i \in on)
        BY <1>2, <1>4, <3>3
      <4> QED
        BY <3>1, <4>1 DEF CallPlaced, OnePlace, Appended
    <3> QED
      BY <3>2, <3>3
  <2> QED
    BY <2>1, <2>3, <2>4 DEF ReadyWires
<1> QED
  BY <1>5, <1>6, <1>7 DEF GoodSession

LEMMA ToolsInitInv == Sessions!Init => ToolsInv
<1> SUFFICES ASSUME Sessions!Init PROVE ToolsInv
  OBVIOUS
<1>1. ToolDomains
  BY DEF Sessions!Init, ToolDomains
<1>2. ASSUME NEW p \in Plugins PROVE SessionAt(p)
  <2> PICK cl : cl = [i \in Sessions!Calls |-> "none"]
    OBVIOUS
  <2>1. cl \in [Sessions!Calls -> CallStates] /\ \A i \in Sessions!Calls : cl[i] = "none"
    BY DEF CallStates
  <2>2. /\ status[p] = "none" /\ sessionPoisoned[p] = FALSE /\ call[p] = cl /\ toPlugin[p] = <<>>
        /\ toClient[p] = <<>> /\ channel[p] = FALSE /\ session[p] = "none" /\ tools[p] = FALSE
        /\ provider[p] = "none" /\ ongoing[p] = {} /\ multi = "none"
    BY DEF Sessions!Init
  <2>3. ToolTypes("none", FALSE, cl, <<>>, <<>>, FALSE, FALSE, {})
    BY <2>1 DEF ToolTypes
  <2>4. GoodSession("none", FALSE, cl, <<>>, <<>>, FALSE, "none", FALSE, "none", {})
    <3> PICK v : v = <<>>
      OBVIOUS
    <3>1. \A k \in DOMAIN v : v[k][1] = "callTool" => FALSE
      OBVIOUS
    <3>2. Uncalled(cl, {})
      BY <2>1 DEF Uncalled
    <3>3. GoodSession("none", FALSE, cl, v, v, FALSE, "none", FALSE, "none", {})
      BY <2>3, <3>1, <3>2 DEF GoodSession
    <3> QED
      BY <3>3
  <2> QED
    BY <2>2, <2>4 DEF SessionAt, GoodMulti
<1> QED
  BY <1>1, <1>2 DEF ToolsInv

(* A step of one session leaves the others alone.                          *)
OthersStay(p) ==
    /\ ToolDomains'
    /\ multi' = multi
    /\ \A q \in Plugins : q # p =>
         /\ status'[q] = status[q] /\ sessionPoisoned'[q] = sessionPoisoned[q] /\ call'[q] = call[q]
         /\ toPlugin'[q] = toPlugin[q] /\ toClient'[q] = toClient[q] /\ channel'[q] = channel[q]
         /\ session'[q] = session[q] /\ tools'[q] = tools[q] /\ provider'[q] = provider[q]
         /\ ongoing'[q] = ongoing[q]

LEMMA OneSessionMoves ==
    ASSUME ToolsInv, NEW p \in Plugins, OthersStay(p), SessionAt(p)'
    PROVE  ToolsInv'
<1>1. ASSUME NEW q \in Plugins, q # p PROVE SessionAt(q)'
  BY <1>1 DEF ToolsInv, OthersStay, SessionAt
<1> QED
  BY <1>1 DEF ToolsInv, OthersStay

LEMMA ToolCalled ==
    ASSUME ToolsInv, NEW p \in Plugins, NEW j \in Sessions!Calls, Sessions!CallTool(p, j)
    PROVE  ToolsInv'
<1> PICK st, po, cl, v, w, ch, se, tl, pr, on :
        /\ st = status[p] /\ po = sessionPoisoned[p] /\ cl = call[p] /\ v = toPlugin[p]
        /\ w = toClient[p] /\ ch = channel[p] /\ se = session[p] /\ tl = tools[p]
        /\ pr = provider[p] /\ on = ongoing[p]
  OBVIOUS
<1>1. GoodSession(st, po, cl, v, w, ch, se, tl, pr, on) /\ GoodMulti(multi, st, po)
  BY DEF ToolsInv, SessionAt
<1>2. /\ st \in {"ready", "disposed"} /\ (~ po => st = "ready") /\ cl[j] = "none"
  BY <1>1 DEF Sessions!CallTool, GoodMulti
<1>3. /\ UNCHANGED <<multi, status, sessionPoisoned, toClient, channel, session, tools, provider, ongoing>>
      /\ \/ call' = [call EXCEPT ![p][j] = "refused"] /\ UNCHANGED toPlugin
         \/ /\ ~ po /\ call' = [call EXCEPT ![p][j] = "ongoing"]
            /\ toPlugin' = [toPlugin EXCEPT ![p] = Append(@, <<"callTool", j>>)]
  BY DEF Sessions!CallTool, Sessions!pluginVars
<1>4. ToolDomains
  BY DEF ToolsInv
<1>5. OthersStay(p)
  BY <1>3, <1>4 DEF OthersStay, ToolDomains
<1>6. \E cl2, v2 :
        /\ call'[p] = cl2 /\ toPlugin'[p] = v2
        /\ GoodSession(st, po, cl2, v2, w, ch, se, tl, pr, on)
  <2>1. CASE call' = [call EXCEPT ![p][j] = "refused"] /\ UNCHANGED toPlugin
    <3> PICK cl2 : cl2 = [cl EXCEPT ![j] = "refused"]
      OBVIOUS
    <3>1. call'[p] = cl2
      BY <1>4, <2>1 DEF ToolDomains
    <3>2. GoodSession(st, po, cl2, v, w, ch, se, tl, pr, on)
      BY ONLY <1>1, <1>2, j \in Sessions!Calls, cl2 = [cl EXCEPT ![j] = "refused"], CallRefused
    <3> QED
      BY <2>1, <3>1, <3>2
  <2>2. CASE /\ ~ po /\ call' = [call EXCEPT ![p][j] = "ongoing"]
             /\ toPlugin' = [toPlugin EXCEPT ![p] = Append(@, <<"callTool", j>>)]
    <3> PICK cl2, v2 : cl2 = [cl EXCEPT ![j] = "ongoing"] /\ v2 = Append(v, <<"callTool", j>>)
      OBVIOUS
    <3>1. call'[p] = cl2 /\ toPlugin'[p] = v2
      BY <1>4, <2>2 DEF ToolDomains
    <3>2. GoodSession(st, po, cl2, v2, w, ch, se, tl, pr, on)
      BY <1>1, <1>2, <2>2, CallSent
    <3> QED
      BY <3>1, <3>2
  <2> QED
    BY <1>3, <2>1, <2>2
<1>7. SessionAt(p)'
  BY <1>1, <1>3, <1>6 DEF SessionAt
<1> QED
  BY <1>5, <1>7, OneSessionMoves

LEMMA ToolCallAborts ==
    ASSUME ToolsInv, NEW p \in Plugins, NEW j \in Sessions!Calls, Sessions!Abort(p, j)
    PROVE  ToolsInv'
<1> PICK st, po, cl, v, w, ch, se, tl, pr, on :
        /\ st = status[p] /\ po = sessionPoisoned[p] /\ cl = call[p] /\ v = toPlugin[p]
        /\ w = toClient[p] /\ ch = channel[p] /\ se = session[p] /\ tl = tools[p]
        /\ pr = provider[p] /\ on = ongoing[p]
  OBVIOUS
<1>1. GoodSession(st, po, cl, v, w, ch, se, tl, pr, on) /\ GoodMulti(multi, st, po)
  BY DEF ToolsInv, SessionAt
<1>2. /\ UNCHANGED <<multi, status, sessionPoisoned, toClient, channel, session, tools, provider, ongoing>>
      /\ \/ UNCHANGED <<call, toPlugin>>
         \/ /\ st # "disposed" /\ cl[j] \in {"ongoing", "resolved", "rejected"}
            /\ toPlugin' = [toPlugin EXCEPT ![p] = Append(@, <<"abortToolCall", j>>)]
            /\ call' = [call EXCEPT ![p][j] = IF @ = "ongoing" THEN "rejected" ELSE @]
  BY DEF Sessions!Abort, Sessions!pluginVars
<1>3. ToolDomains
  BY DEF ToolsInv
<1>4. OthersStay(p)
  BY <1>2, <1>3 DEF OthersStay, ToolDomains
<1>5. \E cl2, v2 :
        /\ call'[p] = cl2 /\ toPlugin'[p] = v2
        /\ GoodSession(st, po, cl2, v2, w, ch, se, tl, pr, on)
  <2>1. CASE UNCHANGED <<call, toPlugin>>
    BY <1>1, <2>1
  <2>2. CASE /\ st # "disposed" /\ cl[j] \in {"ongoing", "resolved", "rejected"}
             /\ toPlugin' = [toPlugin EXCEPT ![p] = Append(@, <<"abortToolCall", j>>)]
             /\ call' = [call EXCEPT ![p][j] = IF @ = "ongoing" THEN "rejected" ELSE @]
    <3> PICK cl2, v2 : /\ cl2 = [cl EXCEPT ![j] = IF @ = "ongoing" THEN "rejected" ELSE @]
                       /\ v2 = Append(v, <<"abortToolCall", j>>)
      OBVIOUS
    <3>1. call'[p] = cl2 /\ toPlugin'[p] = v2
      BY <1>3, <2>2 DEF ToolDomains
    <3>2. GoodSession(st, po, cl2, v2, w, ch, se, tl, pr, on)
      BY <1>1, <2>2, CallAborts
    <3> QED
      BY <3>1, <3>2
  <2> QED
    BY <1>2, <2>1, <2>2
<1>6. SessionAt(p)'
  BY <1>1, <1>2, <1>5 DEF SessionAt
<1> QED
  BY <1>4, <1>6, OneSessionMoves

(* A channel ends.                                                         *)
LEMMA ToolChannelEnds ==
    ASSUME ToolsInv, NEW p \in Plugins, Sessions!ChannelEnds(p), channel[p] \/ toClient[p] # <<>>,
           UNCHANGED <<multi, session, tools, provider, ongoing>>,
           \/ UNCHANGED toPlugin
           \/ toPlugin' = [toPlugin EXCEPT ![p] = Append(@, <<"discardSession">>)]
    PROVE  ToolsInv'
<1> PICK st, po, cl, v, w, ch, se, tl, pr, on :
        /\ st = status[p] /\ po = sessionPoisoned[p] /\ cl = call[p] /\ v = toPlugin[p]
        /\ w = toClient[p] /\ ch = channel[p] /\ se = session[p] /\ tl = tools[p]
        /\ pr = provider[p] /\ on = ongoing[p]
  OBVIOUS
<1> PICK po2, cl2, v2 :
        /\ po2 = sessionPoisoned'[p] /\ v2 = toPlugin'[p]
        /\ cl2 = [i \in Sessions!Calls |-> IF cl[i] = "ongoing" THEN "rejected" ELSE cl[i]]
  OBVIOUS
<1>1. GoodSession(st, po, cl, v, w, ch, se, tl, pr, on) /\ GoodMulti(multi, st, po) /\ ToolDomains
  BY DEF ToolsInv, SessionAt
<1>2. /\ po2 = (st # "initializing") /\ status'[p] = "disposed" /\ channel'[p] = FALSE
      /\ toClient'[p] = <<>> /\ (v2 = v \/ v2 = Append(v, <<"discardSession">>))
  BY <1>1 DEF Sessions!ChannelEnds, ToolDomains
<1>3. call'[p] = cl2
  BY <1>1 DEF Sessions!ChannelEnds, Sessions!CallsRejected, ToolDomains
<1>4. po2 \in BOOLEAN /\ (st # "initializing" => po2) /\ st # "none"
  BY <1>1, <1>2 DEF GoodSession
<1>5. GoodSession("disposed", po2, cl2, v2, <<>>, FALSE, se, tl, pr, on)
  <2> PICK w2, ch2 : w2 = <<>> /\ ch2 = FALSE
    OBVIOUS
  <2>1. w2 \in Seq(Sessions!ToClientMsg) /\ ch2 \in BOOLEAN
    <3>1. \A S : <<>> \in Seq(S)
      OBVIOUS
    <3> QED
      BY ONLY w2 = <<>>, ch2 = FALSE, <3>1
  <2>2. SessionOver(cl, v, po2, cl2, v2, w2, ch2)
    BY <1>2, <1>4, <2>1 DEF SessionOver
  <2>3. GoodSession("disposed", po2, cl2, v2, w2, ch2, se, tl, pr, on)
    BY ONLY <1>1, <2>2, SessionEnds
  <2> QED
    BY <2>3
<1>6. GoodMulti(multi, "disposed", po2)
  BY <1>1, <1>4 DEF GoodMulti
<1>7. SessionAt(p)'
  BY <1>2, <1>3, <1>5, <1>6 DEF SessionAt
<1>8. OthersStay(p)
  BY <1>1 DEF OthersStay, ToolDomains, Sessions!ChannelEnds
<1> QED
  BY <1>7, <1>8, OneSessionMoves

LEMMA ClientHears ==
    ASSUME ToolsInv, NEW p \in Plugins, Sessions!ChannelLost(p) \/ Sessions!ClientReceives(p)
    PROVE  ToolsInv'
<1> PICK st, po, cl, v, w, ch, se, tl, pr, on, m :
        /\ st = status[p] /\ po = sessionPoisoned[p] /\ cl = call[p] /\ v = toPlugin[p]
        /\ w = toClient[p] /\ ch = channel[p] /\ se = session[p] /\ tl = tools[p]
        /\ pr = provider[p] /\ on = ongoing[p] /\ m = Head(toClient[p])
  OBVIOUS
<1>1. GoodSession(st, po, cl, v, w, ch, se, tl, pr, on) /\ GoodMulti(multi, st, po) /\ ToolDomains
  BY DEF ToolsInv, SessionAt
<1>2. CASE Sessions!ChannelLost(p)
  BY <1>2, ToolChannelEnds DEF Sessions!ChannelLost, Sessions!pluginVars
<1>3. CASE Sessions!ClientReceives(p)
  <2>1. w # <<>> /\ UNCHANGED <<multi, toPlugin, session, tools, provider, ongoing>>
    BY <1>3 DEF Sessions!ClientReceives, Sessions!pluginVars
  <2>2. CASE Sessions!ChannelEnds(p)
    BY <2>1, <2>2, ToolChannelEnds
  <2>3. CASE /\ m[1] = "sessionReady"
             /\ status' = [status EXCEPT ![p] = IF @ = "initializing" THEN "ready" ELSE @]
             /\ toClient' = [toClient EXCEPT ![p] = Tail(@)]
             /\ UNCHANGED <<sessionPoisoned, call, channel>>
    <3> PICK st2, w2 : st2 = (IF st = "initializing" THEN "ready" ELSE st) /\ w2 = Tail(w)
      OBVIOUS
    <3>1. status'[p] = st2 /\ toClient'[p] = w2
      BY <1>1, <2>3 DEF ToolDomains
    <3>2. GoodSession(st2, po, cl, v, w2, ch, se, tl, pr, on)
      BY <1>1, <2>1, <2>3, ReadyHeard
    <3>3. GoodMulti(multi, st2, po)
      BY <1>1 DEF GoodMulti
    <3>4. SessionAt(p)'
      BY <2>1, <2>3, <3>1, <3>2, <3>3 DEF SessionAt
    <3>5. OthersStay(p)
      BY <1>1, <2>1, <2>3 DEF OthersStay, ToolDomains
    <3> QED
      BY <3>4, <3>5, OneSessionMoves
  <2>4. CASE /\ m[1] \in ToolAnswers
             /\ call' = [call EXCEPT ![p][m[2]] = IF @ = "ongoing" THEN Sessions!Outcome(m[1]) ELSE @]
             /\ toClient' = [toClient EXCEPT ![p] = Tail(@)]
             /\ UNCHANGED <<status, sessionPoisoned, channel>>
    <3> PICK cl2, w2 : /\ cl2 = [cl EXCEPT ![m[2]] = IF @ = "ongoing" THEN Sessions!Outcome(m[1]) ELSE @]
                       /\ w2 = Tail(w)
      OBVIOUS
    <3>1. call'[p] = cl2 /\ toClient'[p] = w2
      BY <1>1, <2>4 DEF ToolDomains
    <3>2. GoodSession(st, po, cl2, v, w2, ch, se, tl, pr, on)
      <4>1. AnswerOf(cl, w, m, cl2, w2)
        BY <2>1, <2>4 DEF AnswerOf
      <4> QED
        BY ONLY <1>1, <4>1, AnswerHeard
    <3>3. SessionAt(p)'
      BY <1>1, <2>1, <2>4, <3>1, <3>2 DEF SessionAt
    <3>4. OthersStay(p)
      BY <1>1, <2>1, <2>4 DEF OthersStay, ToolDomains
    <3> QED
      BY <3>3, <3>4, OneSessionMoves
  <2> QED
    BY <1>3, <2>2, <2>3, <2>4 DEF Sessions!ClientReceives, ToolAnswers
<1> QED
  BY <1>2, <1>3

(* A message reaches the plugin.                                           *)
LEMMA PluginHears ==
    ASSUME ToolsInv, NEW p \in Plugins, Sessions!PluginReceives(p)
    PROVE  ToolsInv'
<1> PICK st, po, cl, v, w, ch, se, tl, pr, on, m, v2 :
        /\ st = status[p] /\ po = sessionPoisoned[p] /\ cl = call[p] /\ v = toPlugin[p]
        /\ w = toClient[p] /\ ch = channel[p] /\ se = session[p] /\ tl = tools[p]
        /\ pr = provider[p] /\ on = ongoing[p] /\ m = Head(toPlugin[p]) /\ v2 = Tail(toPlugin[p])
  OBVIOUS
<1>1. GoodSession(st, po, cl, v, w, ch, se, tl, pr, on) /\ GoodMulti(multi, st, po) /\ ToolDomains
  BY DEF ToolsInv, SessionAt
<1>2. /\ v # <<>> /\ toPlugin' = [toPlugin EXCEPT ![p] = Tail(@)]
      /\ UNCHANGED <<multi, status, sessionPoisoned, call, toClient, channel>>
      /\ \/ m[1] = "initSession" /\ Sessions!InitSession(p)
         \/ m[1] = "discardSession" /\ Sessions!DiscardSession(p)
         \/ m[1] = "callTool" /\ Sessions!RunTool(p, m[2])
         \/ m[1] = "abortToolCall" /\ Sessions!AbortToolCall(p, m[2])
  BY DEF Sessions!PluginReceives, Sessions!clientVars
<1>3. toPlugin'[p] = v2
  BY <1>1, <1>2 DEF ToolDomains
<1>4. OthersStay(p) /\ \E se2, pr2, on2 :
        /\ session'[p] = se2 /\ provider'[p] = pr2 /\ ongoing'[p] = on2 /\ tools' = tools
        /\ GoodSession(st, po, cl, v2, w, ch, se2, tl, pr2, on2)
  <2>1. CASE m[1] = "initSession" /\ Sessions!InitSession(p)
    <3>1. session'[p] = "open" /\ provider'[p] = "running" /\ ongoing' = ongoing /\ tools' = tools
      BY <1>1, <2>1 DEF Sessions!InitSession, ToolDomains
    <3>2. OthersStay(p)
      BY <1>1, <1>2, <2>1 DEF OthersStay, ToolDomains, Sessions!InitSession
    <3>3. GoodSession(st, po, cl, v2, w, ch, "open", tl, "running", on)
      BY <1>1, <1>2, <2>1, SessionInits
    <3> QED
      BY <3>1, <3>2, <3>3
  <2>2. CASE m[1] = "discardSession" /\ Sessions!DiscardSession(p)
    <3> PICK se2 : se2 = session'[p]
      OBVIOUS
    <3>1. provider' = provider /\ ongoing' = ongoing /\ tools' = tools
      BY <1>1, <2>2 DEF Sessions!DiscardSession, ToolDomains
    <3>2. OthersStay(p)
      BY <1>1, <1>2, <2>2 DEF OthersStay, ToolDomains, Sessions!DiscardSession
    <3>3. GoodSession(st, po, cl, v2, w, ch, se2, tl, pr, on)
      BY <1>1, <1>2, <2>2, SessionDiscards
    <3> QED
      BY <3>1, <3>2, <3>3
  <2>3. CASE \/ m[1] = "callTool" /\ Sessions!RunTool(p, m[2])
             \/ m[1] = "abortToolCall" /\ Sessions!AbortToolCall(p, m[2])
    <3> PICK on2 : on2 = ongoing'[p]
      OBVIOUS
    <3>1. provider' = provider /\ session' = session /\ tools' = tools
      BY <1>1, <2>3 DEF Sessions!RunTool, Sessions!AbortToolCall
    <3>2. OthersStay(p)
      BY <1>1, <1>2, <2>3 DEF OthersStay, ToolDomains, Sessions!RunTool, Sessions!AbortToolCall
    <3>3. IF se = "open" THEN on2 = IF m[1] = "callTool" THEN on \cup {m[2]} ELSE on \ {m[2]}
                         ELSE on2 = on
      <4>1. CASE m[1] = "callTool" /\ Sessions!RunTool(p, m[2])
        BY <1>1, <4>1 DEF Sessions!RunTool, ToolDomains
      <4>2. CASE m[1] = "abortToolCall" /\ Sessions!AbortToolCall(p, m[2])
        <5>1. IF se = "open" /\ m[2] \in on THEN on2 = on \ {m[2]} ELSE on2 = on
          BY <1>1, <4>2 DEF Sessions!AbortToolCall, ToolDomains
        <5> QED
          BY <4>2, <5>1
      <4> QED
        BY <2>3, <4>1, <4>2
    <3>4. m[1] \in ToolOrders
      BY <2>3 DEF ToolOrders
    <3>5. GoodSession(st, po, cl, v2, w, ch, se, tl, pr, on2)
      BY ONLY <1>1, <1>2, <3>3, <3>4, v = toPlugin[p], m = Head(toPlugin[p]), v2 = Tail(toPlugin[p]), ToolOrdered
    <3> QED
      BY <3>1, <3>2, <3>5
  <2> QED
    BY <1>2, <2>1, <2>2, <2>3
<1>5. SessionAt(p)'
  BY <1>1, <1>2, <1>3, <1>4 DEF SessionAt
<1> QED
  BY <1>4, <1>5, OneSessionMoves

(* The tools provider settles, or a tool.                                  *)
LEMMA ProviderSettles ==
    ASSUME ToolsInv, NEW p \in Plugins, Sessions!ProviderReturns(p) \/ Sessions!ProviderThrows(p)
    PROVE  ToolsInv'
<1> PICK st, po, cl, v, w, ch, se, tl, pr, on :
        /\ st = status[p] /\ po = sessionPoisoned[p] /\ cl = call[p] /\ v = toPlugin[p]
        /\ w = toClient[p] /\ ch = channel[p] /\ se = session[p] /\ tl = tools[p]
        /\ pr = provider[p] /\ on = ongoing[p]
  OBVIOUS
<1> PICK w2, se2, tl2 : w2 = toClient'[p] /\ se2 = session'[p] /\ tl2 = tools'[p]
  OBVIOUS
<1>1. GoodSession(st, po, cl, v, w, ch, se, tl, pr, on) /\ GoodMulti(multi, st, po) /\ ToolDomains
  BY DEF ToolsInv, SessionAt
<1>2. /\ UNCHANGED <<multi, status, sessionPoisoned, call, toPlugin, channel, ongoing>>
      /\ provider' = [provider EXCEPT ![p] = "returned"] /\ pr = "running"
  BY DEF Sessions!ProviderReturns, Sessions!ProviderThrows, Sessions!clientVars
<1>3. tl \in BOOLEAN
  BY <1>1 DEF GoodSession, ToolTypes
<1>4. OthersStay(p) /\ provider'[p] = "returned"
  BY <1>1, <1>2 DEF OthersStay, ToolDomains, Sessions!ProviderReturns, Sessions!ProviderThrows,
                    Sessions!SentToClient
<1>5. PICK t : ProviderTold(t, ch, w, se, tl, w2, se2, tl2)
  <2>1. CASE Sessions!ProviderReturns(p)
    <3>1. ProviderTold("sessionReady", ch, w, se, tl, w2, se2, tl2)
      BY <1>1, <1>3, <2>1 DEF Sessions!ProviderReturns, Sessions!SentToClient, Sessions!Announced,
                              ToolDomains, ProviderTold
    <3> QED
      BY <3>1
  <2>2. CASE Sessions!ProviderThrows(p)
    <3>1. ProviderTold("channelError", ch, w, se, tl, w2, se2, tl2)
      BY <1>1, <1>3, <2>2 DEF Sessions!ProviderThrows, Sessions!SentToClient, Sessions!Announced,
                              ToolDomains, ProviderTold
    <3> QED
      BY <3>1
  <2> QED
    BY <2>1, <2>2
<1>7. GoodSession(st, po, cl, v, w2, ch, se2, tl2, "returned", on)
  BY ONLY <1>1, <1>2, <1>5, SessionReports
<1>8. SessionAt(p)'
  BY <1>1, <1>2, <1>4, <1>7 DEF SessionAt
<1> QED
  BY <1>4, <1>8, OneSessionMoves

LEMMA ToolSettles ==
    ASSUME ToolsInv, NEW p \in Plugins, NEW j \in Sessions!Calls, NEW t \in ToolAnswers,
           Sessions!ToolReturns(p, j, t)
    PROVE  ToolsInv'
<1> PICK st, po, cl, v, w, ch, se, tl, pr, on :
        /\ st = status[p] /\ po = sessionPoisoned[p] /\ cl = call[p] /\ v = toPlugin[p]
        /\ w = toClient[p] /\ ch = channel[p] /\ se = session[p] /\ tl = tools[p]
        /\ pr = provider[p] /\ on = ongoing[p]
  OBVIOUS
<1> PICK w2, on2 : w2 = toClient'[p] /\ on2 = ongoing'[p]
  OBVIOUS
<1>1. GoodSession(st, po, cl, v, w, ch, se, tl, pr, on) /\ GoodMulti(multi, st, po) /\ ToolDomains
  BY DEF ToolsInv, SessionAt
<1>2. UNCHANGED <<multi, status, sessionPoisoned, call, toPlugin, channel, session, tools, provider>>
  BY DEF Sessions!ToolReturns, Sessions!clientVars
<1>3. OthersStay(p)
  BY <1>1, <1>2 DEF OthersStay, ToolDomains, Sessions!ToolReturns, Sessions!SentToClient,
                    Sessions!CallEnds
<1>4. GoodSession(st, po, cl, v, w2, ch, se, tl, pr, on2)
  <2>1. CASE Sessions!Reported(p, j)
    <3>1. j \in on /\ on2 = on \ {j} /\ w2 = IF ch THEN Append(w, <<t, j>>) ELSE w
      BY <1>1, <2>1 DEF Sessions!ToolReturns, Sessions!Reported, Sessions!SentToClient,
                        Sessions!CallEnds, ToolDomains
    <3>2. GoodSession(st, po, cl, v, w2, ch, se, tl, pr, on \ {j})
      BY ONLY <1>1, <3>1, t \in ToolAnswers, j \in Sessions!Calls, ToolAnswered
    <3> QED
      BY <3>1, <3>2
  <2>2. CASE ~ Sessions!Reported(p, j)
    BY <1>1, <2>2 DEF Sessions!ToolReturns
  <2> QED
    BY <2>1, <2>2
<1>5. SessionAt(p)'
  BY <1>1, <1>2, <1>4 DEF SessionAt
<1> QED
  BY <1>3, <1>5, OneSessionMoves

(* The sessions of all plugins begin.                                      *)
LEMMA SessionsStart ==
    ASSUME ToolsInv, Sessions!Start
    PROVE  ToolsInv'
<1>1. ASSUME NEW p \in Plugins PROVE SessionAt(p)'
  <2> PICK st, po, cl, v, w, ch, se, tl, pr, on :
        /\ st = status[p] /\ po = sessionPoisoned[p] /\ cl = call[p] /\ v = toPlugin[p]
        /\ w = toClient[p] /\ ch = channel[p] /\ se = session[p] /\ tl = tools[p]
        /\ pr = provider[p] /\ on = ongoing[p]
    OBVIOUS
  <2>1. GoodSession(st, po, cl, v, w, ch, se, tl, pr, on) /\ GoodMulti(multi, st, po)
    BY DEF ToolsInv, SessionAt
  <2>2. /\ multi = "none" /\ multi' = "starting" /\ status'[p] = "initializing"
        /\ channel'[p] = TRUE /\ toPlugin'[p] = <<<<"initSession">>>>
        /\ UNCHANGED <<sessionPoisoned, call, toClient, session, tools, provider, ongoing>>
    BY DEF Sessions!Start, Sessions!pluginVars
  <2>3. st = "none"
    BY <2>1, <2>2 DEF GoodMulti
  <2>4. GoodSession("none", po, cl, v, w, ch, se, tl, pr, on)
    BY <2>1, <2>3
  <2>5. GoodSession("initializing", po, cl, <<<<"initSession">>>>, w, TRUE, se, tl, pr, on)
    BY ONLY <2>4, SessionStarts
  <2>6. GoodMulti("starting", "initializing", po)
    BY DEF GoodMulti
  <2> QED
    BY <2>2, <2>5, <2>6 DEF SessionAt
<1>2. ToolDomains'
  BY DEF ToolsInv, ToolDomains, Sessions!Start, Sessions!pluginVars
<1> QED
  BY <1>1, <1>2 DEF ToolsInv

(* Sessions are disposed of, when all have settled.                        *)
LEMMA SessionsDisposed ==
    ASSUME ToolsInv, NEW P, Sessions!Dispose(P), multi' \in {"failed", "disposed"}, multi # "none",
           UNCHANGED <<toClient, channel, session, tools, provider, ongoing>>,
           multi' = "disposed" => P = Plugins /\ multi = "ready"
    PROVE  ToolsInv'
<1>1. ASSUME NEW p \in Plugins PROVE SessionAt(p)'
  <2> PICK st, po, cl, v, w, ch, se, tl, pr, on :
        /\ st = status[p] /\ po = sessionPoisoned[p] /\ cl = call[p] /\ v = toPlugin[p]
        /\ w = toClient[p] /\ ch = channel[p] /\ se = session[p] /\ tl = tools[p]
        /\ pr = provider[p] /\ on = ongoing[p]
    OBVIOUS
  <2> PICK mu, po2, v2, cl2 :
        /\ mu = multi' /\ po2 = sessionPoisoned'[p] /\ v2 = toPlugin'[p] /\ cl2 = call'[p]
    OBVIOUS
  <2>1. GoodSession(st, po, cl, v, w, ch, se, tl, pr, on) /\ GoodMulti(multi, st, po)
    BY DEF ToolsInv, SessionAt
  <2>2. st # "none"
    BY <2>1 DEF GoodMulti
  <2>3. po \in BOOLEAN /\ ch \in BOOLEAN /\ w \in Seq(Sessions!ToClientMsg)
    BY <2>1 DEF GoodSession, ToolTypes
  <2>4. CASE p \in P /\ st # "disposed"
    <3>1. /\ po2 = TRUE /\ status'[p] = "disposed"
          /\ v2 = v \/ v2 = Append(v, <<"discardSession">>)
          /\ cl2 = [i \in Sessions!Calls |-> IF cl[i] = "ongoing" THEN "rejected" ELSE cl[i]]
      BY <2>4 DEF Sessions!Dispose, Sessions!Disposable, Sessions!CallsRejected
    <3>2. SessionOver(cl, v, po2, cl2, v2, w, ch)
      BY <2>3, <3>1 DEF SessionOver
    <3>3. GoodSession("disposed", po2, cl2, v2, w, ch, se, tl, pr, on)
      BY ONLY <2>1, <3>2, SessionEnds
    <3>4. GoodMulti(mu, "disposed", po2)
      BY <3>1 DEF GoodMulti
    <3> QED
      BY <3>1, <3>3, <3>4 DEF SessionAt
  <2>5. CASE ~ (p \in P /\ st # "disposed")
    <3>1. po2 = po /\ status'[p] = st /\ v2 = v /\ cl2 = cl
      BY <2>3, <2>5 DEF Sessions!Dispose, Sessions!Disposable
    <3>2. GoodMulti(mu, st, po)
      BY <2>1, <2>2, <2>5 DEF GoodMulti
    <3> QED
      BY <2>1, <3>1, <3>2 DEF SessionAt
  <2> QED
    BY <2>4, <2>5
<1>2. ToolDomains'
  BY DEF ToolsInv, ToolDomains, Sessions!Dispose
<1> QED
  BY <1>1, <1>2 DEF ToolsInv

LEMMA SessionsSettle ==
    ASSUME ToolsInv, Sessions!Settle
    PROVE  ToolsInv'
<1>1. multi = "starting" /\ UNCHANGED <<toClient, channel, session, tools, provider, ongoing>>
  BY DEF Sessions!Settle, Sessions!pluginVars
<1>2. CASE \E p \in Plugins : Sessions!Rejected(p)
  <2> PICK P : P = {p \in Plugins : Sessions!Created(p)}
    OBVIOUS
  <2>1. multi' = "failed" /\ Sessions!Dispose(P)
    BY <1>2 DEF Sessions!Settle
  <2> QED
    BY <1>1, <2>1, SessionsDisposed
<1>3. CASE ~ \E p \in Plugins : Sessions!Rejected(p)
  <2>1. multi' = "ready" /\ UNCHANGED <<status, sessionPoisoned, call, toPlugin>>
    BY <1>3 DEF Sessions!Settle
  <2>2. ASSUME NEW p \in Plugins PROVE GoodMulti("ready", status[p], sessionPoisoned[p])
    <3>1. GoodMulti(multi, status[p], sessionPoisoned[p])
          /\ status[p] \in {"none", "initializing", "ready", "disposed"}
      BY DEF ToolsInv, SessionAt, GoodSession, ToolTypes
    <3>2. status[p] # "none" /\ status[p] # "initializing"
      BY <1>1, <3>1 DEF GoodMulti, Sessions!Settle, Sessions!AllSettled
    <3>3. status[p] = "disposed" => sessionPoisoned[p]
      BY <1>3 DEF Sessions!Rejected
    <3> QED
      BY <3>1, <3>2, <3>3 DEF GoodMulti
  <2>3. ASSUME NEW p \in Plugins PROVE SessionAt(p)'
    BY <1>1, <2>1, <2>2 DEF ToolsInv, SessionAt
  <2> QED
    BY <1>1, <2>1, <2>3 DEF ToolsInv, ToolDomains
<1> QED
  BY <1>2, <1>3

LEMMA SessionDisposed ==
    ASSUME ToolsInv, Sessions!DisposeAll
    PROVE  ToolsInv'
<1>1. /\ multi = "ready" /\ multi' = "disposed" /\ Sessions!Dispose(Plugins)
      /\ UNCHANGED <<toClient, channel, session, tools, provider, ongoing>>
  BY DEF Sessions!DisposeAll, Sessions!pluginVars
<1> QED
  BY <1>1, SessionsDisposed

(* The invariant is inductive ...                                          *)
LEMMA ToolsInvKept ==
    ASSUME ToolsInv, [Sessions!Next]_sessionsVars
    PROVE  ToolsInv'
<1>1. CASE UNCHANGED sessionsVars
  BY <1>1 DEF sessionsVars, ToolsInv, ToolDomains, SessionAt
<1>2. ASSUME NEW p \in Plugins, Sessions!ClientStep(p) PROVE ToolsInv'
  BY <1>2, ClientHears, ToolCalled, ToolCallAborts DEF Sessions!ClientStep
<1>3. ASSUME NEW p \in Plugins, Sessions!PluginStep(p) PROVE ToolsInv'
  BY <1>3, PluginHears, ProviderSettles, ToolSettles DEF Sessions!PluginStep, ToolAnswers
<1> QED
  BY <1>1, <1>2, <1>3, SessionsStart, SessionsSettle, SessionDisposed DEF Sessions!Next

(* ... and makes the three properties hold.                                *)
LEMMA ToolsInvHolds == ToolsInv => ToolCallsAgree
<1> SUFFICES ASSUME ToolsInv
             PROVE  Sessions!CallIsSomewhere /\ Sessions!NoneWaitsOnEnded /\ Sessions!CalledInSession
  BY DEF ToolCallsAgree
<1>1. ASSUME NEW p \in Plugins
      PROVE  GoodSession(status[p], sessionPoisoned[p], call[p], toPlugin[p], toClient[p],
                         channel[p], session[p], tools[p], provider[p], ongoing[p])
  BY DEF ToolsInv, SessionAt
<1>2. Sessions!CallIsSomewhere
  <2> SUFFICES ASSUME NEW p \in Plugins, NEW i \in Sessions!Calls, status[p] = "ready",
                      call[p][i] = "ongoing"
               PROVE  Sessions!Cardinality(Sessions!About(toPlugin[p], i))
                        + Sessions!Cardinality(Sessions!About(toClient[p], i))
                        + (IF i \in ongoing[p] THEN 1 ELSE 0) = 1
    BY DEF Sessions!CallIsSomewhere
  <2> PICK A, B : A = Sessions!About(toPlugin[p], i) /\ B = Sessions!About(toClient[p], i)
    OBVIOUS
  <2>1. OnePlace(A, B, ongoing[p], i)
    BY <1>1 DEF GoodSession, ReadyWires, CallPlaced
  <2>2. \A S : (S = {} => Cardinality(S) = 0) /\ (One(S) => Cardinality(S) = 1)
    BY FS_EmptySet, FS_Singleton DEF One
  <2>3. Cardinality(A) + Cardinality(B) + (IF i \in ongoing[p] THEN 1 ELSE 0) = 1
    BY <2>1, <2>2 DEF OnePlace
  <2> QED
    BY <2>3 DEF Cardinality, Sessions!Cardinality
<1>3. Sessions!NoneWaitsOnEnded
  BY <1>1 DEF Sessions!NoneWaitsOnEnded, GoodSession
<1>4. Sessions!CalledInSession
  <2> SUFFICES ASSUME NEW p \in Plugins, NEW i \in Sessions!Calls,
                      <<"callTool", i>> \in Sessions!Range(toPlugin[p])
               PROVE  tools[p]
    BY DEF Sessions!CalledInSession
  <2>1. PICK k \in DOMAIN toPlugin[p] : toPlugin[p][k] = <<"callTool", i>>
    BY DEF Sessions!Range
  <2>2. toPlugin[p][k][1] = "callTool"
    BY <2>1
  <2> QED
    BY <1>1, <2>1, <2>2 DEF GoodSession
<1> QED
  BY <1>2, <1>3, <1>4

-----------------------------------------------------------------------------
(* Derived signals.                                                        *)

DerivedValues == [Sources -> Nat]
DerivedClosures == [lastIssuedUpdateId : Int, lastAppliedUpdateId : Int, isRunning : BOOLEAN,
                    pending : SUBSET DerivedValues, timer : BOOLEAN, recent : BOOLEAN,
                    freshnessGeneration : Nat]
DerivedCalls == [id : Int, values : DerivedValues, subscription : Nat, generation : Nat, epoch : Nat]
DerivedOutputs == [value : DerivedValues, stale : BOOLEAN, from : Nat]
DerivedStates == [c : DerivedClosures, derives : SUBSET DerivedCalls, output : DerivedOutputs,
                  epoch : Nat]
DerivedSources == [Sources -> [value : Nat, stale : BOOLEAN]]

(* v is no newer than w, source by source. *)
AtMost(v, w) == \A s \in Sources : v[s] <= w[s]
ValuesOf(src) == [s \in Sources |-> src[s].value]
Fresh(src) == \A s \in Sources : ~ src[s].stale

(* Nothing is newer than the sources, nor numbered above the last number. *)
StBounds(st, src, subs) ==
    /\ AtMost(st.output.value, ValuesOf(src))
    /\ \A d \in st.derives : /\ AtMost(d.values, ValuesOf(src))
                             /\ d.id <= st.c.lastIssuedUpdateId /\ d.subscription <= subs
    /\ \A p \in st.c.pending : AtMost(p, ValuesOf(src))

StFresh(st, src, on) == ~ st.output.stale => on /\ Fresh(src) /\ st.output.from = st.epoch

(* What is still to be applied is newer than what was, in the order of the *)
(* numbers, and began since the output was stale.                          *)
StAsync(st, src, on, subs) ==
    /\ st.c.lastAppliedUpdateId <= st.c.lastIssuedUpdateId
    /\ \A d \in st.derives : d.id > st.c.lastAppliedUpdateId =>
         /\ AtMost(st.output.value, d.values)
         /\ on /\ d.subscription = subs => d.epoch = st.epoch /\ Fresh(src)
    /\ \A d1, d2 \in st.derives : d1.id < d2.id => AtMost(d1.values, d2.values)

(* One derive runs, what waits is newer than what runs, and what runs than *)
(* what is shown.                                                          *)
StRunning(st, src, d) ==
    /\ st.c.isRunning
    /\ AtMost(st.output.value, d.values)
    /\ d.generation <= st.c.freshnessGeneration
    /\ d.generation = st.c.freshnessGeneration => d.epoch = st.epoch /\ Fresh(src)
    /\ \A p \in st.c.pending : AtMost(d.values, p)

StBlocking(st, src, on, subs) ==
    /\ \A d \in st.derives : on /\ d.subscription = subs => StRunning(st, src, d)
    /\ \A d1, d2 \in st.derives : on /\ d1.subscription = subs /\ d2.subscription = subs => d1 = d2
    /\ \A p \in st.c.pending : AtMost(st.output.value, p)
    /\ st.c.timer => ~ st.c.isRunning
    /\ st.c.pending # {} => on /\ Fresh(src)
    /\ ~ on => ~ st.c.isRunning /\ ~ st.c.timer

StInv(st, src, on, subs) ==
    /\ st \in DerivedStates
    /\ StBounds(st, src, subs)
    /\ StFresh(st, src, on)
    /\ kind = "deriveFrom" => st.derives = {}
    /\ kind = "async" => StAsync(st, src, on, subs)
    /\ kind \in {"blocking", "throttling"} => StBlocking(st, src, on, subs)

(* What waits, waits for something; a timer is of the throttled pipeline. *)
StAwaits(st) ==
    /\ kind \in {"blocking", "throttling"} /\ st.c.pending # {} => st.c.isRunning \/ st.c.timer
    /\ kind \in {"deriveFrom", "async"} => ~ st.c.timer

DerivedInv ==
    /\ kind \in {"deriveFrom", "async", "blocking", "throttling"}
    /\ source \in DerivedSources /\ subscriptions \in Nat /\ subscribed \in BOOLEAN
    /\ \A s \in Sources : source[s].value = 0 => source[s].stale
    /\ StInv(Derived!Current, source, subscribed, subscriptions)
    /\ StAwaits(Derived!Current)
    /\ kind = "deriveFrom" /\ ~ output.stale => output.value = ValuesOf(source)

LEMMA AtMostIsOrder ==
    /\ \A v \in DerivedValues : AtMost(v, v)
    /\ \A u, v, w \in DerivedValues : AtMost(u, v) /\ AtMost(v, w) => AtMost(u, w)
BY DEF DerivedValues, AtMost

LEMMA ValuesAreDerived == \A src \in DerivedSources : ValuesOf(src) \in DerivedValues
BY DEF DerivedSources, DerivedValues, ValuesOf

LEMMA DerivedInitInv == Derived!Init => DerivedInv
<1> SUFFICES ASSUME Derived!Init PROVE DerivedInv
  OBVIOUS
<1>1. source = [s \in Sources |-> [value |-> 0, stale |-> TRUE]]
  BY DEF Derived!Init, Derived!NotAvailable
<1>2. source \in DerivedSources /\ ValuesOf(source) = [s \in Sources |-> 0]
      /\ Derived!Values = [s \in Sources |-> 0]
  BY <1>1 DEF DerivedSources, ValuesOf, Derived!Values
<1>3. ValuesOf(source) \in DerivedValues
  BY <1>2, ValuesAreDerived
<1> DEFINE st == Derived!Current
<1>4. /\ st.output = [value |-> ValuesOf(source), stale |-> TRUE, from |-> 0]
      /\ st.c = [lastIssuedUpdateId |-> -1, lastAppliedUpdateId |-> -1, isRunning |-> FALSE,
                 pending |-> {}, timer |-> FALSE, recent |-> FALSE, freshnessGeneration |-> 0]
      /\ st.derives = {} /\ st.epoch = 0
  BY <1>2 DEF Derived!Init, Derived!Current
<1>5. st \in DerivedStates
  <2>1. st.output \in DerivedOutputs
    BY <1>3, <1>4 DEF DerivedOutputs
  <2>2. st.c \in DerivedClosures
    BY <1>4 DEF DerivedClosures
  <2> QED
    BY <1>4, <2>1, <2>2 DEF DerivedStates, Derived!Current
<1> HIDE DEF st
<1>6. AtMost(st.output.value, ValuesOf(source))
  BY <1>3, <1>4, AtMostIsOrder
<1>9. subscribed \in BOOLEAN /\ ~ subscribed /\ subscriptions = 0
  BY DEF Derived!Init
<1>7. ASSUME NEW on \in BOOLEAN, ~ on PROVE StInv(st, source, on, 0)
  BY <1>4, <1>5, <1>6 DEF StInv, StBounds, StFresh, StAsync, StBlocking
<1>10. StInv(st, source, subscribed, subscriptions)
  BY <1>7, <1>9
<1>8. output.stale
  BY DEF Derived!Init
<1> QED
  BY <1>1, <1>2, <1>4, <1>8, <1>9, <1>10 DEF DerivedInv, StAwaits, Derived!Init, Derived!Kinds, st

-----------------------------------------------------------------------------
(* Steps of a synchronous run.                                             *)

(* The fields of a state and what becomes of them. *)
LEMMA DerivedFields ==
    ASSUME NEW st \in DerivedStates
    PROVE  /\ st.c \in DerivedClosures /\ st.derives \in SUBSET DerivedCalls
           /\ st.output \in DerivedOutputs /\ st.epoch \in Nat
           /\ st.c.lastIssuedUpdateId \in Int /\ st.c.lastAppliedUpdateId \in Int
           /\ st.c.pending \in SUBSET DerivedValues /\ st.c.freshnessGeneration \in Nat
           /\ st.output.value \in DerivedValues
BY DEF DerivedStates, DerivedClosures, DerivedOutputs

(* The sources move on, and none becomes stale. *)
MovesOn(src, now) ==
    /\ now \in DerivedSources
    /\ AtMost(ValuesOf(src), ValuesOf(now))
    /\ Fresh(src) => Fresh(now)

LEMMA SourceMovesOn ==
    ASSUME NEW src \in DerivedSources, NEW now, MovesOn(src, now),
           NEW st, NEW on \in BOOLEAN, NEW subs \in Nat, StInv(st, src, on, subs)
    PROVE  StInv(st, now, on, subs)
<1>1. st \in DerivedStates /\ now \in DerivedSources
  BY DEF StInv, MovesOn
<1>2. \A d \in st.derives : d.values \in DerivedValues
  BY <1>1, DerivedFields DEF DerivedCalls
<1>3. /\ st.output.value \in DerivedValues /\ st.c.pending \in SUBSET DerivedValues
      /\ ValuesOf(src) \in DerivedValues /\ ValuesOf(now) \in DerivedValues
      /\ AtMost(ValuesOf(src), ValuesOf(now)) /\ (Fresh(src) => Fresh(now))
  BY <1>1, DerivedFields, ValuesAreDerived DEF MovesOn
<1>4. StBounds(st, now, subs)
  BY <1>2, <1>3, AtMostIsOrder DEF StInv, StBounds
<1>5. StFresh(st, now, on)
  BY <1>3 DEF StInv, StFresh
<1>6. kind = "async" => StAsync(st, now, on, subs)
  BY <1>3 DEF StInv, StAsync
<1>7. kind \in {"blocking", "throttling"} => StBlocking(st, now, on, subs)
  BY <1>3 DEF StInv, StBlocking, StRunning
<1> QED
  BY <1>4, <1>5, <1>6, <1>7 DEF StInv

(* States that differ in one field, and the fields of a closure. *)
LEMMA StateWithClosure ==
    ASSUME NEW st \in DerivedStates, NEW c \in DerivedClosures
    PROVE  LET r == [st EXCEPT !.c = c]
           IN  /\ r \in DerivedStates /\ r.c = c /\ r.derives = st.derives /\ r.output = st.output
               /\ r.epoch = st.epoch
BY DEF DerivedStates

LEMMA StateWithCalls ==
    ASSUME NEW st \in DerivedStates, NEW ds \in SUBSET DerivedCalls
    PROVE  LET r == [st EXCEPT !.derives = ds]
           IN  /\ r \in DerivedStates /\ r.c = st.c /\ r.derives = ds /\ r.output = st.output
               /\ r.epoch = st.epoch
BY DEF DerivedStates

LEMMA StaleOutput ==
    ASSUME NEW o \in DerivedOutputs
    PROVE  LET r == [o EXCEPT !.stale = TRUE]
           IN  r \in DerivedOutputs /\ r.stale /\ r.value = o.value /\ r.from = o.from
BY DEF DerivedOutputs

LEMMA MarkedStale ==
    ASSUME NEW st \in DerivedStates
    PROVE  LET r == Derived!MarkStale(st)
           IN  /\ r \in DerivedStates /\ r.c = st.c /\ r.derives = st.derives
               /\ r.output.stale /\ r.output.value = st.output.value /\ r.epoch = st.epoch + 1
<1> DEFINE o == [st.output EXCEPT !.stale = TRUE]
           e == st.epoch + 1
<1>1. Derived!MarkStale(st) = [st EXCEPT !.output = o, !.epoch = e]
  BY DEF Derived!MarkStale
<1>2. o \in DerivedOutputs /\ e \in Nat /\ o.stale /\ o.value = st.output.value
  BY DerivedFields, StaleOutput
<1> HIDE DEF o, e
<1>3. LET r == [st EXCEPT !.output = o, !.epoch = e]
      IN  /\ r \in DerivedStates /\ r.c = st.c /\ r.derives = st.derives /\ r.output = o
          /\ r.epoch = e
  BY <1>2 DEF DerivedStates
<1> QED
  BY <1>1, <1>2, <1>3 DEF e

(* A source, or the subscription, is new: nothing started before counts. *)
LEMMA StaleInvalidates ==
    ASSUME NEW src \in DerivedSources, NEW now \in DerivedSources, ValuesOf(now) = ValuesOf(src),
           NEW on \in BOOLEAN, on,
           NEW st, NEW subs \in Nat, StInv(st, src, on, subs), StAwaits(st),
           kind \in Derived!Kinds
    PROVE  LET r == Derived!OnStale(st)
           IN  /\ StInv(r, now, on, subs) /\ StAwaits(r) /\ r.output.stale
               /\ r.output.value = st.output.value /\ r.derives = st.derives
<1> DEFINE r == Derived!OnStale(st)
<1> SUFFICES /\ StInv(r, now, on, subs) /\ StAwaits(r) /\ r.output.stale
             /\ r.output.value = st.output.value /\ r.derives = st.derives
  OBVIOUS
<1>1. st \in DerivedStates
  BY DEF StInv
<1>2. /\ st.c \in DerivedClosures /\ st.derives \in SUBSET DerivedCalls
      /\ st.output \in DerivedOutputs /\ st.epoch \in Nat
      /\ st.c.lastIssuedUpdateId \in Int /\ st.c.lastAppliedUpdateId \in Int
      /\ st.c.pending \in SUBSET DerivedValues /\ st.c.freshnessGeneration \in Nat
      /\ st.output.value \in DerivedValues
      /\ \A d \in st.derives : d.id \in Int /\ d.generation \in Nat
  BY <1>1, DerivedFields DEF DerivedCalls
<1>3. CASE kind = "deriveFrom"
  <2>1. r = Derived!MarkStale(st)
    BY <1>3 DEF Derived!OnStale
  <2>2. r \in DerivedStates /\ r.c = st.c /\ r.derives = st.derives /\ r.epoch = st.epoch + 1
        /\ r.output.stale /\ r.output.value = st.output.value
    BY <1>1, <2>1, MarkedStale
  <2> HIDE DEF r
  <2>3. StBounds(r, now, subs)
    BY <2>2 DEF StInv, StBounds
  <2> QED
    BY <1>3, <2>2, <2>3 DEF StInv, StFresh, StAwaits
<1>4. CASE kind = "async"
  <2>1. /\ r \in DerivedStates /\ r.derives = st.derives /\ r.epoch = st.epoch + 1
        /\ r.output.stale /\ r.output.value = st.output.value /\ r.c.pending = st.c.pending
        /\ r.c.timer = st.c.timer
        /\ r.c.lastIssuedUpdateId = st.c.lastIssuedUpdateId + 1
        /\ r.c.lastAppliedUpdateId = st.c.lastIssuedUpdateId + 1
    <3> DEFINE n == st.c.lastIssuedUpdateId + 1
               c == [st.c EXCEPT !.lastIssuedUpdateId = n, !.lastAppliedUpdateId = n]
               s2 == [st EXCEPT !.c = c]
    <3>1. n \in Int
      BY <1>2
    <3>2. r = Derived!MarkStale(s2)
      <4>1. [st EXCEPT !.c.lastIssuedUpdateId = @ + 1,
                       !.c.lastAppliedUpdateId = st.c.lastIssuedUpdateId + 1] = s2
        BY <1>1 DEF DerivedStates
      <4> QED
        BY <1>4, <4>1 DEF Derived!OnStale
    <3>3. n = st.c.lastIssuedUpdateId + 1
      OBVIOUS
    <3> HIDE DEF n
    <3>4. /\ c \in DerivedClosures /\ c.pending = st.c.pending /\ c.timer = st.c.timer
          /\ c.lastIssuedUpdateId = n /\ c.lastAppliedUpdateId = n
      BY <1>2, <3>1 DEF DerivedClosures
    <3> HIDE DEF c
    <3>5. /\ s2 \in DerivedStates /\ s2.c = c /\ s2.derives = st.derives
          /\ s2.output = st.output /\ s2.epoch = st.epoch
      BY <1>1, <3>4, StateWithClosure
    <3> HIDE DEF s2
    <3>6. /\ r \in DerivedStates /\ r.c = s2.c /\ r.derives = s2.derives
          /\ r.output.stale /\ r.output.value = s2.output.value /\ r.epoch = s2.epoch + 1
      BY <3>2, <3>5, MarkedStale
    <3> QED
      BY <3>3, <3>4, <3>5, <3>6
  <2> HIDE DEF r
  <2>2. StAsync(st, src, on, subs) /\ StBounds(st, src, subs)
    BY <1>4 DEF StInv
  <2>3. StAsync(r, now, on, subs)
    BY <1>2, <2>1, <2>2 DEF StAsync, StBounds
  <2>4. StBounds(r, now, subs)
    BY <1>2, <2>1, <2>2 DEF StBounds
  <2> QED
    BY <1>4, <2>1, <2>3, <2>4 DEF StInv, StFresh, StAwaits
<1>5. CASE kind \in {"blocking", "throttling"}
  <2>1. /\ r \in DerivedStates /\ r.derives = st.derives /\ r.epoch = st.epoch + 1
        /\ r.output.stale /\ r.output.value = st.output.value /\ r.c.pending = {}
        /\ r.c.lastIssuedUpdateId = st.c.lastIssuedUpdateId
        /\ r.c.freshnessGeneration = st.c.freshnessGeneration + 1
        /\ r.c.timer = FALSE /\ r.c.isRunning = st.c.isRunning
    <3> DEFINE n == st.c.freshnessGeneration + 1
               c == [st.c EXCEPT !.freshnessGeneration = n, !.pending = {}, !.timer = FALSE]
               s2 == [st EXCEPT !.c = c]
    <3>1. n \in Nat
      BY <1>2
    <3>2. r = Derived!MarkStale(s2)
      <4>1. [st EXCEPT !.c.freshnessGeneration = @ + 1, !.c.pending = {}, !.c.timer = FALSE] = s2
        BY <1>1 DEF DerivedStates
      <4> QED
        BY <1>5, <4>1 DEF Derived!OnStale
    <3>3. n = st.c.freshnessGeneration + 1
      OBVIOUS
    <3> HIDE DEF n
    <3>4. /\ c \in DerivedClosures /\ c.pending = {} /\ c.timer = FALSE
          /\ c.isRunning = st.c.isRunning /\ c.freshnessGeneration = n
          /\ c.lastIssuedUpdateId = st.c.lastIssuedUpdateId
      BY <1>2, <3>1 DEF DerivedClosures
    <3> HIDE DEF c
    <3>5. /\ s2 \in DerivedStates /\ s2.c = c /\ s2.derives = st.derives
          /\ s2.output = st.output /\ s2.epoch = st.epoch
      BY <1>1, <3>4, StateWithClosure
    <3> HIDE DEF s2
    <3>6. /\ r \in DerivedStates /\ r.c = s2.c /\ r.derives = s2.derives
          /\ r.output.stale /\ r.output.value = s2.output.value /\ r.epoch = s2.epoch + 1
      BY <3>2, <3>5, MarkedStale
    <3> QED
      BY <3>3, <3>4, <3>5, <3>6
  <2> HIDE DEF r
  <2>2. StBlocking(st, src, on, subs) /\ StBounds(st, src, subs)
    BY <1>5 DEF StInv
  <2>3. StBlocking(r, now, on, subs)
    BY <1>2, <2>1, <2>2 DEF StBlocking, StRunning
  <2>4. StBounds(r, now, subs)
    BY <2>1, <2>2 DEF StBounds
  <2> QED
    BY <1>5, <2>1, <2>3, <2>4 DEF StInv, StFresh, StAwaits
<1> QED
  BY <1>3, <1>4, <1>5 DEF Derived!Kinds

(* A call of the deriver with values the sources have now. *)
CallOf(st, values, subs) ==
    [id |-> st.c.lastIssuedUpdateId, values |-> values, subscription |-> subs,
     generation |-> st.c.freshnessGeneration, epoch |-> st.epoch]

WithCall(st, r, values, subs) ==
    /\ r \in DerivedStates
    /\ r.c.lastIssuedUpdateId = st.c.lastIssuedUpdateId + 1
    /\ r.c.lastAppliedUpdateId = st.c.lastAppliedUpdateId
    /\ r.c.freshnessGeneration = st.c.freshnessGeneration
    /\ r.derives = st.derives \cup {CallOf(r, values, subs)}
    /\ r.output = st.output /\ r.epoch = st.epoch

(* asyncDeriveFrom calls it whatever runs. *)
LEMMA AsyncCalls ==
    ASSUME NEW src \in DerivedSources, NEW on \in BOOLEAN, NEW subs \in Nat, Fresh(src), on,
           NEW st, NEW r, StInv(st, src, on, subs), kind = "async",
           WithCall(st, r, ValuesOf(src), subs), r.c.pending = st.c.pending
    PROVE  StInv(r, src, on, subs)
<1> DEFINE v == ValuesOf(src)
           n == CallOf(r, v, subs)
<1>1. st \in DerivedStates /\ v \in DerivedValues
  BY ValuesAreDerived DEF StInv
<1>2. /\ st.c.lastIssuedUpdateId \in Int /\ st.c.lastAppliedUpdateId \in Int
      /\ \A d \in st.derives : d.id \in Int /\ d.values \in DerivedValues
  BY <1>1, DerivedFields DEF DerivedCalls
<1>3. /\ n.id = st.c.lastIssuedUpdateId + 1 /\ n.values = v /\ n.subscription = subs
      /\ n.epoch = st.epoch
  BY DEF WithCall, CallOf
<1>4. r.derives = st.derives \cup {n}
  BY DEF WithCall
<1>5. AtMost(v, v) /\ AtMost(st.output.value, v) /\ \A d \in st.derives : AtMost(d.values, v)
  BY <1>1, AtMostIsOrder DEF StInv, StBounds
<1> HIDE DEF n, v
<1>6. StBounds(r, src, subs)
  <2>1. \A d \in st.derives : d.id <= r.c.lastIssuedUpdateId
    BY <1>2 DEF StInv, StBounds, WithCall
  <2>2. n.id <= r.c.lastIssuedUpdateId /\ n.subscription <= subs
    BY <1>2, <1>3 DEF WithCall
  <2> QED
    BY <1>3, <1>4, <1>5, <2>1, <2>2 DEF StInv, StBounds, WithCall, v
<1>7. StFresh(r, src, on)
  BY DEF StInv, StFresh, WithCall
<1>8. StAsync(r, src, on, subs)
  <2>1. StAsync(st, src, on, subs) /\ StBounds(st, src, subs)
    BY DEF StInv
  <2>2. \A d \in st.derives : ~ n.id < d.id
    BY <1>2, <1>3, <2>1 DEF StBounds
  <2>3. ~ n.id < n.id
    BY <1>2, <1>3
  <2>4. \A d1, d2 \in r.derives : d1.id < d2.id => AtMost(d1.values, d2.values)
    BY <1>3, <1>4, <1>5, <2>1, <2>2, <2>3 DEF StAsync
  <2>5. r.c.lastAppliedUpdateId <= r.c.lastIssuedUpdateId
    BY <1>2, <2>1 DEF StAsync, WithCall
  <2> QED
    BY <1>3, <1>4, <1>5, <2>1, <2>4, <2>5 DEF StAsync, WithCall
<1> QED
  BY <1>6, <1>7, <1>8 DEF StInv, WithCall

(* The throttled pipeline calls it when none runs, with the values of the  *)
(* sources or with those that waited.                                      *)
LEMMA BlockingCalls ==
    ASSUME NEW src \in DerivedSources, NEW on \in BOOLEAN, NEW subs \in Nat, Fresh(src), on,
           NEW st, NEW r, NEW v \in DerivedValues, StInv(st, src, on, subs),
           kind \in {"blocking", "throttling"},
           ~ st.c.isRunning, v = ValuesOf(src) \/ v \in st.c.pending,
           WithCall(st, r, v, subs), r.c.pending = {}, r.c.isRunning, ~ r.c.timer
    PROVE  StInv(r, src, on, subs)
<1> DEFINE n == CallOf(r, v, subs)
<1>1. st \in DerivedStates /\ ValuesOf(src) \in DerivedValues
  BY ValuesAreDerived DEF StInv
<1>2. /\ st.c.lastIssuedUpdateId \in Int /\ st.c.freshnessGeneration \in Nat
      /\ \A d \in st.derives : d.id \in Int /\ d.values \in DerivedValues
  BY <1>1, DerivedFields DEF DerivedCalls
<1>3. /\ n.id = st.c.lastIssuedUpdateId + 1 /\ n.values = v /\ n.subscription = subs
      /\ n.epoch = st.epoch /\ n.generation = st.c.freshnessGeneration
  BY DEF WithCall, CallOf
<1>4. r.derives = st.derives \cup {n}
  BY DEF WithCall
<1>5. AtMost(v, ValuesOf(src)) /\ AtMost(st.output.value, v)
  BY <1>1, AtMostIsOrder DEF StInv, StBounds, StBlocking
<1> HIDE DEF n
<1>6. StBounds(r, src, subs)
  <2>1. \A d \in st.derives : d.id <= r.c.lastIssuedUpdateId
    BY <1>2 DEF StInv, StBounds, WithCall
  <2>2. n.id <= r.c.lastIssuedUpdateId /\ n.subscription <= subs
    BY <1>2, <1>3 DEF WithCall
  <2> QED
    BY <1>3, <1>4, <1>5, <2>1, <2>2 DEF StInv, StBounds, WithCall
<1>7. StFresh(r, src, on)
  BY DEF StInv, StFresh, WithCall
<1>8. StBlocking(r, src, on, subs)
  <2>1. \A d \in st.derives : d.subscription # subs
    BY DEF StInv, StBlocking, StRunning
  <2>2. StRunning(r, src, n)
    BY <1>2, <1>3, <1>5 DEF StRunning, WithCall
  <2> QED
    BY <1>4, <2>1, <2>2 DEF StBlocking
<1> QED
  BY <1>6, <1>7, <1>8 DEF StInv, WithCall

(* Values wait for the derive that runs, or for the timer. *)
LEMMA ValuesWait ==
    ASSUME NEW src \in DerivedSources, NEW on \in BOOLEAN, NEW subs \in Nat, Fresh(src), on,
           NEW st, NEW r \in DerivedStates, StInv(st, src, on, subs),
           kind \in {"blocking", "throttling"},
           r.derives = st.derives, r.output = st.output, r.epoch = st.epoch,
           r.c.lastIssuedUpdateId = st.c.lastIssuedUpdateId,
           r.c.freshnessGeneration = st.c.freshnessGeneration,
           r.c.isRunning = st.c.isRunning, r.c.pending = {ValuesOf(src)},
           r.c.timer => ~ st.c.isRunning
    PROVE  StInv(r, src, on, subs)
<1>1. AtMost(ValuesOf(src), ValuesOf(src))
  BY ValuesAreDerived, AtMostIsOrder
<1>2. StBounds(r, src, subs)
  BY <1>1 DEF StInv, StBounds
<1>3. StBlocking(r, src, on, subs)
  <2>1. \A d \in st.derives : AtMost(d.values, ValuesOf(src))
    BY DEF StInv, StBounds
  <2>2. AtMost(st.output.value, ValuesOf(src))
    BY DEF StInv, StBounds
  <2> QED
    BY <2>1, <2>2 DEF StInv, StBlocking, StRunning
<1> QED
  BY <1>2, <1>3 DEF StInv, StFresh

-----------------------------------------------------------------------------
(* What the operators of DerivedSignals make of a state.                   *)

LEMMA CallsDeriver ==
    ASSUME NEW st \in DerivedStates, NEW v \in DerivedValues, subscriptions \in Nat
    PROVE  LET r == Derived!CallDeriver(st, v)
           IN  /\ r \in DerivedStates /\ r.c = st.c /\ r.output = st.output /\ r.epoch = st.epoch
               /\ r.derives = st.derives \cup {CallOf(st, v, subscriptions)}
<1> DEFINE n == CallOf(st, v, subscriptions)
           ds == st.derives \cup {n}
<1>1. Derived!CallDeriver(st, v) = [st EXCEPT !.derives = ds]
  BY DEF Derived!CallDeriver, CallOf
<1>2. st.derives \in SUBSET DerivedCalls /\ n \in DerivedCalls
  <2>1. st.c.lastIssuedUpdateId \in Int /\ st.c.freshnessGeneration \in Nat /\ st.epoch \in Nat
        /\ st.derives \in SUBSET DerivedCalls
    BY DerivedFields
  <2> QED
    BY <2>1 DEF CallOf, DerivedCalls
<1>3. ds \in SUBSET DerivedCalls
  BY <1>2
<1> HIDE DEF ds
<1>4. LET r == [st EXCEPT !.derives = ds]
      IN  /\ r \in DerivedStates /\ r.c = st.c /\ r.derives = ds /\ r.output = st.output
          /\ r.epoch = st.epoch
  BY <1>3, StateWithCalls
<1> QED
  BY <1>1, <1>4 DEF ds

LEMMA StartsDerive ==
    ASSUME NEW st \in DerivedStates, NEW v \in DerivedValues, subscriptions \in Nat
    PROVE  LET r == Derived!StartDerive(st, v)
           IN  /\ WithCall(st, r, v, subscriptions) /\ r.c.pending = st.c.pending
               /\ r.c.isRunning = TRUE /\ r.c.timer = st.c.timer
<1> DEFINE n == st.c.lastIssuedUpdateId + 1
           c == [st.c EXCEPT !.isRunning = TRUE, !.lastIssuedUpdateId = n]
           s2 == [st EXCEPT !.c = c]
           r == Derived!StartDerive(st, v)
<1>1. st.c \in DerivedClosures /\ st.c.lastIssuedUpdateId \in Int
  BY DerivedFields
<1>2. r = Derived!CallDeriver(s2, v)
  <2>1. [st EXCEPT !.c.isRunning = TRUE, !.c.lastIssuedUpdateId = @ + 1] = s2
    BY DEF DerivedStates, DerivedClosures
  <2> QED
    BY <2>1 DEF Derived!StartDerive
<1>3. n = st.c.lastIssuedUpdateId + 1 /\ n \in Int
  BY <1>1
<1> HIDE DEF n
<1>4. /\ c \in DerivedClosures /\ c.isRunning = TRUE /\ c.lastIssuedUpdateId = n
      /\ c.lastAppliedUpdateId = st.c.lastAppliedUpdateId /\ c.pending = st.c.pending
      /\ c.freshnessGeneration = st.c.freshnessGeneration /\ c.timer = st.c.timer
  BY <1>1, <1>3 DEF DerivedClosures
<1> HIDE DEF c
<1>5. /\ s2 \in DerivedStates /\ s2.c = c /\ s2.derives = st.derives
      /\ s2.output = st.output /\ s2.epoch = st.epoch
  BY <1>4, StateWithClosure
<1> HIDE DEF s2
<1>6. /\ r \in DerivedStates /\ r.c = s2.c /\ r.output = s2.output /\ r.epoch = s2.epoch
      /\ r.derives = s2.derives \cup {CallOf(s2, v, subscriptions)}
  BY <1>2, <1>5, CallsDeriver
<1>7. CallOf(s2, v, subscriptions) = CallOf(r, v, subscriptions)
  BY <1>6 DEF CallOf
<1> HIDE DEF r
<1>8. WithCall(st, r, v, subscriptions)
  BY <1>3, <1>4, <1>5, <1>6, <1>7 DEF WithCall
<1>9. /\ WithCall(st, r, v, subscriptions) /\ r.c.pending = st.c.pending
      /\ r.c.isRunning = TRUE /\ r.c.timer = st.c.timer
  BY <1>4, <1>5, <1>6, <1>8
<1> QED
  BY <1>9 DEF r

LEMMA DerivesAndUpdates ==
    ASSUME NEW st \in DerivedStates, NEW v \in DerivedValues, subscriptions \in Nat,
           Derived!Available(v)
    PROVE  LET r == Derived!DeriveAndUpdate(st, v)
           IN  WithCall(st, r, v, subscriptions) /\ r.c.pending = st.c.pending /\ r.c.timer = st.c.timer
<1> DEFINE n == st.c.lastIssuedUpdateId + 1
           c == [st.c EXCEPT !.lastIssuedUpdateId = n]
           s2 == [st EXCEPT !.c = c]
           r == Derived!DeriveAndUpdate(st, v)
<1>1. st.c \in DerivedClosures /\ st.c.lastIssuedUpdateId \in Int
  BY DerivedFields
<1>2. r = Derived!CallDeriver(s2, v)
  <2>1. [st EXCEPT !.c.lastIssuedUpdateId = @ + 1] = s2
    BY DEF DerivedStates, DerivedClosures
  <2> QED
    BY <2>1 DEF Derived!DeriveAndUpdate
<1>3. n = st.c.lastIssuedUpdateId + 1 /\ n \in Int
  BY <1>1
<1> HIDE DEF n
<1>4. /\ c \in DerivedClosures /\ c.lastIssuedUpdateId = n
      /\ c.lastAppliedUpdateId = st.c.lastAppliedUpdateId /\ c.pending = st.c.pending
      /\ c.freshnessGeneration = st.c.freshnessGeneration /\ c.timer = st.c.timer
  BY <1>1, <1>3 DEF DerivedClosures
<1> HIDE DEF c
<1>5. /\ s2 \in DerivedStates /\ s2.c = c /\ s2.derives = st.derives
      /\ s2.output = st.output /\ s2.epoch = st.epoch
  BY <1>4, StateWithClosure
<1> HIDE DEF s2
<1>6. /\ r \in DerivedStates /\ r.c = s2.c /\ r.output = s2.output /\ r.epoch = s2.epoch
      /\ r.derives = s2.derives \cup {CallOf(s2, v, subscriptions)}
  BY <1>2, <1>5, CallsDeriver
<1>7. CallOf(s2, v, subscriptions) = CallOf(r, v, subscriptions)
  BY <1>6 DEF CallOf
<1> HIDE DEF r
<1>8. WithCall(st, r, v, subscriptions) /\ r.c.pending = st.c.pending /\ r.c.timer = st.c.timer
  BY <1>3, <1>4, <1>5, <1>6, <1>7 DEF WithCall
<1> QED
  BY <1>8 DEF r

LEMMA SetsDownstream ==
    ASSUME NEW st \in DerivedStates, NEW v \in DerivedValues, NEW e \in Nat
    PROVE  LET r == Derived!SetDownstream(st, v, e)
           IN  /\ r \in DerivedStates /\ r.c = st.c /\ r.derives = st.derives /\ r.epoch = st.epoch
               /\ r.output.value = v /\ ~ r.output.stale /\ r.output.from = e
BY DEF Derived!SetDownstream, DerivedStates, DerivedOutputs

(* What a change of the sources comes to. *)
Waits(st, r, v) ==
    /\ r \in DerivedStates
    /\ r.derives = st.derives /\ r.output = st.output /\ r.epoch = st.epoch
    /\ r.c.lastIssuedUpdateId = st.c.lastIssuedUpdateId
    /\ r.c.freshnessGeneration = st.c.freshnessGeneration
    /\ r.c.isRunning = st.c.isRunning /\ r.c.pending = {v}
    /\ r.c.timer => ~ st.c.isRunning \/ st.c.timer
    /\ r.c.isRunning \/ r.c.timer

Runs(st, r, v, subs) ==
    /\ ~ st.c.isRunning /\ ~ st.c.timer /\ WithCall(st, r, v, subs)
    /\ r.c.isRunning /\ ~ r.c.timer

ChangesTo(st, r, v, subs) ==
    \/ /\ kind = "deriveFrom" /\ r = Derived!SetDownstream(st, v, st.epoch)
    \/ /\ kind = "async" /\ WithCall(st, r, v, subs)
       /\ r.c.pending = st.c.pending /\ r.c.timer = st.c.timer
    \/ /\ kind \in {"blocking", "throttling"}
       /\ Waits(st, r, v) \/ (Runs(st, r, v, subs) /\ r.c.pending = st.c.pending)

LEMMA ChangeIsOneOf ==
    ASSUME NEW st \in DerivedStates, NEW v \in DerivedValues, subscriptions \in Nat,
           Derived!Available(v), kind \in Derived!Kinds
    PROVE  ChangesTo(st, Derived!OnSourceValuesChanged(st, v), v, subscriptions)
<1> DEFINE r == Derived!OnSourceValuesChanged(st, v)
<1> SUFFICES ChangesTo(st, r, v, subscriptions)
  OBVIOUS
<1>1. CASE kind = "deriveFrom"
  <2>1. r = Derived!SetDownstream(st, v, st.epoch)
    BY <1>1 DEF Derived!OnSourceValuesChanged
  <2> QED
    BY <1>1, <2>1 DEF ChangesTo
<1>2. CASE kind = "async"
  <2>1. r = Derived!DeriveAndUpdate(st, v)
    BY <1>2 DEF Derived!OnSourceValuesChanged
  <2>2. WithCall(st, r, v, subscriptions) /\ r.c.pending = st.c.pending /\ r.c.timer = st.c.timer
    BY <2>1, DerivesAndUpdates
  <2> QED
    BY <1>2, <2>2 DEF ChangesTo
<1>3. CASE kind \in {"blocking", "throttling"}
  <2>0. /\ st.c \in DerivedClosures /\ st.c.isRunning \in BOOLEAN /\ st.c.timer \in BOOLEAN
    BY DEF DerivedStates, DerivedClosures
  <2>1. r = Derived!OnSourceChangeBlocking(st, v)
    BY <1>3 DEF Derived!OnSourceValuesChanged
  <2>2. CASE Derived!MustWait(st)
    <3> DEFINE c == [st.c EXCEPT !.pending = {v}]
    <3>1. r = [st EXCEPT !.c = c]
      <4>1. [st EXCEPT !.c.pending = {v}] = [st EXCEPT !.c = c]
        BY DEF DerivedStates, DerivedClosures
      <4> QED
        BY <2>1, <2>2, <4>1 DEF Derived!OnSourceChangeBlocking
    <3>2. /\ c \in DerivedClosures /\ c.isRunning = st.c.isRunning /\ c.pending = {v}
          /\ c.lastIssuedUpdateId = st.c.lastIssuedUpdateId /\ c.timer = st.c.timer
          /\ c.freshnessGeneration = st.c.freshnessGeneration
      BY <2>0 DEF DerivedClosures
    <3> HIDE DEF c, r
    <3>3. /\ r \in DerivedStates /\ r.c = c /\ r.derives = st.derives /\ r.output = st.output
          /\ r.epoch = st.epoch
      BY <3>1, <3>2, StateWithClosure
    <3>4. Waits(st, r, v)
      BY <2>2, <3>2, <3>3 DEF Waits, Derived!MustWait
    <3> QED
      BY <1>3, <3>4 DEF ChangesTo
  <2>3. CASE ~ Derived!MustWait(st)
    <3>1. ~ st.c.isRunning /\ ~ st.c.timer /\ r = Derived!ScheduleOrStartDerive(st, v)
      BY <2>1, <2>3 DEF Derived!OnSourceChangeBlocking, Derived!MustWait
    <3>2. CASE kind = "throttling" /\ st.c.recent
      <4> DEFINE c == [st.c EXCEPT !.pending = {v}, !.timer = TRUE]
      <4>1. r = [st EXCEPT !.c = c]
        <5>1. [st EXCEPT !.c.pending = {v}, !.c.timer = TRUE] = [st EXCEPT !.c = c]
          BY DEF DerivedStates, DerivedClosures
        <5> QED
          BY <3>1, <3>2, <5>1 DEF Derived!ScheduleOrStartDerive
      <4>2. /\ c \in DerivedClosures /\ c.isRunning = st.c.isRunning /\ c.pending = {v}
            /\ c.lastIssuedUpdateId = st.c.lastIssuedUpdateId
            /\ c.freshnessGeneration = st.c.freshnessGeneration /\ c.timer = TRUE
        BY <2>0 DEF DerivedClosures
      <4> HIDE DEF c, r
      <4>3. /\ r \in DerivedStates /\ r.c = c /\ r.derives = st.derives /\ r.output = st.output
            /\ r.epoch = st.epoch
        BY <4>1, <4>2, StateWithClosure
      <4>4. Waits(st, r, v)
        BY <3>1, <4>2, <4>3 DEF Waits
      <4> QED
        BY <1>3, <4>4 DEF ChangesTo
    <3>3. CASE ~ (kind = "throttling" /\ st.c.recent)
      <4>1. r = Derived!StartDerive(st, v)
        BY <3>1, <3>3 DEF Derived!ScheduleOrStartDerive
      <4>2. /\ WithCall(st, r, v, subscriptions) /\ r.c.pending = st.c.pending
            /\ r.c.isRunning = TRUE /\ r.c.timer = st.c.timer
        BY <4>1, StartsDerive
      <4> HIDE DEF r
      <4> QED
        BY <1>3, <3>1, <4>2 DEF ChangesTo, Runs
    <3> QED
      BY <3>2, <3>3
  <2> QED
    BY <2>2, <2>3
<1> QED
  BY <1>1, <1>2, <1>3 DEF Derived!Kinds

LEMMA Changed ==
    ASSUME NEW src \in DerivedSources, NEW on \in BOOLEAN, NEW subs \in Nat, Fresh(src), on,
           NEW st, NEW r, StInv(st, src, on, subs), StAwaits(st),
           ChangesTo(st, r, ValuesOf(src), subs)
    PROVE  /\ StInv(r, src, on, subs) /\ StAwaits(r)
           /\ AtMost(st.output.value, r.output.value)
           /\ kind = "deriveFrom" => r.output.value = ValuesOf(src)
<1> DEFINE v == ValuesOf(src)
<1>1. st \in DerivedStates /\ v \in DerivedValues
  BY ValuesAreDerived DEF StInv
<1>2. st.output.value \in DerivedValues /\ st.epoch \in Nat
  BY <1>1, DerivedFields
<1>3. AtMost(st.output.value, st.output.value) /\ AtMost(st.output.value, v) /\ AtMost(v, v)
  BY <1>1, <1>2, AtMostIsOrder DEF StInv, StBounds
<1> HIDE DEF v
<1>4. CASE kind = "deriveFrom" /\ r = Derived!SetDownstream(st, v, st.epoch)
  <2>1. /\ r \in DerivedStates /\ r.c = st.c /\ r.derives = st.derives /\ r.epoch = st.epoch
        /\ r.output.value = v /\ r.output.from = st.epoch
    <3> DEFINE e == st.epoch
               d == Derived!SetDownstream(st, v, e)
    <3>1. e \in Nat
      BY <1>2
    <3>2. r = d /\ e = st.epoch
      BY <1>4
    <3> HIDE DEF e
    <3>3. /\ d \in DerivedStates /\ d.c = st.c /\ d.derives = st.derives /\ d.epoch = st.epoch
          /\ d.output.value = v /\ d.output.from = e
      BY <1>1, <3>1, SetsDownstream
    <3> HIDE DEF d
    <3> QED
      BY <3>2, <3>3
  <2>2. StBounds(r, src, subs)
    BY <1>3, <2>1 DEF StInv, StBounds, v
  <2>3. StFresh(r, src, on)
    BY <2>1 DEF StFresh
  <2> QED
    BY <1>3, <1>4, <2>1, <2>2, <2>3 DEF StInv, StAwaits, v
<1>5. CASE /\ kind = "async" /\ WithCall(st, r, v, subs)
           /\ r.c.pending = st.c.pending /\ r.c.timer = st.c.timer
  <2>1. StInv(r, src, on, subs)
    BY <1>5, AsyncCalls DEF v
  <2>2. r.output = st.output
    BY <1>5 DEF WithCall
  <2> QED
    BY <1>3, <1>5, <2>1, <2>2 DEF StAwaits
<1>6. CASE kind \in {"blocking", "throttling"} /\ Waits(st, r, v)
  <2>1. r.c.timer => ~ st.c.isRunning
    BY <1>6 DEF Waits, StInv, StBlocking
  <2>2. StInv(r, src, on, subs)
    BY <1>6, <2>1, ValuesWait DEF Waits, v
  <2> QED
    BY <1>3, <1>6, <2>2 DEF StAwaits, Waits
<1>7. CASE kind \in {"blocking", "throttling"} /\ Runs(st, r, v, subs) /\ r.c.pending = st.c.pending
  <2>1. r.c.pending = {}
    BY <1>7 DEF StAwaits, Runs
  <2>2. StInv(r, src, on, subs)
    BY <1>1, <1>7, <2>1, BlockingCalls DEF v, Runs
  <2> QED
    BY <1>3, <1>7, <2>1, <2>2 DEF StAwaits, Runs, WithCall
<1> QED
  BY <1>4, <1>5, <1>6, <1>7 DEF ChangesTo, v

(* Calls of the deriver settle. *)
Without(st, d) == [st EXCEPT !.derives = @ \ {d}]

LEMMA CallGoes ==
    ASSUME NEW st \in DerivedStates, NEW d
    PROVE  LET r == Without(st, d)
           IN  /\ r \in DerivedStates /\ r.c = st.c /\ r.output = st.output
               /\ r.epoch = st.epoch /\ r.derives = st.derives \ {d}
<1> DEFINE ds == st.derives \ {d}
<1>1. ds \in SUBSET DerivedCalls
  BY DerivedFields
<1>2. Without(st, d) = [st EXCEPT !.derives = ds]
  BY DEF Without
<1> HIDE DEF ds
<1>3. LET r == [st EXCEPT !.derives = ds]
      IN  /\ r \in DerivedStates /\ r.c = st.c /\ r.derives = ds /\ r.output = st.output
          /\ r.epoch = st.epoch
  BY <1>1, StateWithCalls
<1> QED
  BY <1>2, <1>3 DEF ds

LEMMA CallGoesInv ==
    ASSUME NEW src, NEW on \in BOOLEAN, NEW subs \in Nat,
           NEW st, StInv(st, src, on, subs), NEW d
    PROVE  StInv(Without(st, d), src, on, subs)
<1> DEFINE r == Without(st, d)
<1>1. st \in DerivedStates
  BY DEF StInv
<1>2. /\ r \in DerivedStates /\ r.c = st.c /\ r.output = st.output
      /\ r.epoch = st.epoch /\ r.derives = st.derives \ {d}
  BY <1>1, CallGoes
<1> HIDE DEF r
<1>3. StBounds(r, src, subs)
  BY <1>2 DEF StInv, StBounds
<1>4. StFresh(r, src, on)
  BY <1>2 DEF StInv, StFresh
<1>5. kind = "async" => StAsync(r, src, on, subs)
  BY <1>2 DEF StInv, StAsync
<1>6. kind \in {"blocking", "throttling"} => StBlocking(r, src, on, subs)
  BY <1>2 DEF StInv, StBlocking, StRunning
<1>7. kind = "deriveFrom" => r.derives = {}
  BY <1>2 DEF StInv
<1>8. StInv(r, src, on, subs)
  BY <1>2, <1>3, <1>4, <1>5, <1>6, <1>7 DEF StInv
<1> QED
  BY <1>8 DEF r

(* The throttled derive that ran is over. *)
Over(st, r, d, src, on, subs) ==
    /\ StInv(r, src, on, subs) /\ ~ r.c.isRunning
    /\ r.output = st.output /\ r.epoch = st.epoch /\ r.c.pending = st.c.pending
    /\ r.c.freshnessGeneration = st.c.freshnessGeneration
    /\ r.derives = st.derives \ {d}
    /\ \A e \in r.derives : e.subscription # subs

LEMMA DeriveEnded ==
    ASSUME NEW st \in DerivedStates
    PROVE  LET r == Derived!DeriveEnds(st)
           IN  /\ r \in DerivedStates /\ r.derives = st.derives /\ r.output = st.output
               /\ r.epoch = st.epoch /\ ~ r.c.isRunning /\ r.c.pending = st.c.pending
               /\ r.c.timer = st.c.timer
               /\ r.c.freshnessGeneration = st.c.freshnessGeneration
               /\ r.c.lastIssuedUpdateId = st.c.lastIssuedUpdateId
<1> DEFINE c == [st.c EXCEPT !.isRunning = FALSE, !.recent = TRUE]
           r == Derived!DeriveEnds(st)
<1>1. st.c \in DerivedClosures
  BY DerivedFields
<1>2. r = [st EXCEPT !.c = c]
  <2>1. [st EXCEPT !.c.isRunning = FALSE, !.c.recent = TRUE] = [st EXCEPT !.c = c]
    BY <1>1 DEF DerivedStates, DerivedClosures
  <2> QED
    BY <2>1 DEF Derived!DeriveEnds
<1>3. /\ c \in DerivedClosures /\ ~ c.isRunning /\ c.pending = st.c.pending
      /\ c.timer = st.c.timer /\ c.freshnessGeneration = st.c.freshnessGeneration
      /\ c.lastIssuedUpdateId = st.c.lastIssuedUpdateId
  BY <1>1 DEF DerivedClosures
<1> HIDE DEF c, r
<1>4. /\ r \in DerivedStates /\ r.c = c /\ r.derives = st.derives /\ r.output = st.output
      /\ r.epoch = st.epoch
  BY <1>2, <1>3, StateWithClosure
<1>5. /\ r \in DerivedStates /\ r.derives = st.derives /\ r.output = st.output
      /\ r.epoch = st.epoch /\ ~ r.c.isRunning /\ r.c.pending = st.c.pending
      /\ r.c.timer = st.c.timer
      /\ r.c.freshnessGeneration = st.c.freshnessGeneration
      /\ r.c.lastIssuedUpdateId = st.c.lastIssuedUpdateId
  BY <1>3, <1>4
<1> QED
  BY <1>5 DEF r

LEMMA DeriveIsOver ==
    ASSUME NEW src, NEW on \in BOOLEAN, NEW subs \in Nat, on,
           NEW st, StInv(st, src, on, subs), kind \in {"blocking", "throttling"},
           NEW d \in st.derives, d.subscription = subs
    PROVE  Over(st, Derived!DeriveEnds(Without(st, d)), d, src, on, subs)
<1> DEFINE s2 == Without(st, d)
           r == Derived!DeriveEnds(s2)
<1>1. /\ StInv(s2, src, on, subs) /\ s2.c = st.c /\ s2.output = st.output
      /\ s2.epoch = st.epoch /\ s2.derives = st.derives \ {d}
  <2>1. st \in DerivedStates
    BY DEF StInv
  <2>2. StInv(s2, src, on, subs)
    BY CallGoesInv
  <2> QED
    BY <2>1, <2>2, CallGoes
<1> HIDE DEF s2
<1>2. s2 \in DerivedStates
  BY <1>1 DEF StInv
<1>3. /\ r \in DerivedStates /\ r.derives = s2.derives /\ r.output = s2.output
      /\ r.epoch = s2.epoch /\ ~ r.c.isRunning /\ r.c.pending = s2.c.pending
      /\ r.c.timer = s2.c.timer
      /\ r.c.freshnessGeneration = s2.c.freshnessGeneration
      /\ r.c.lastIssuedUpdateId = s2.c.lastIssuedUpdateId
  BY <1>2, DeriveEnded
<1> HIDE DEF r
<1>6. \A e \in r.derives : e.subscription # subs
  BY <1>1, <1>3 DEF StInv, StBlocking
<1>7. StBlocking(r, src, on, subs)
  BY <1>1, <1>3, <1>6 DEF StInv, StBlocking
<1>8. StInv(r, src, on, subs)
  BY <1>1, <1>3, <1>7 DEF StInv, StBounds, StFresh
<1>9. Over(st, r, d, src, on, subs)
  BY <1>1, <1>3, <1>6, <1>8 DEF Over
<1> QED
  BY <1>9 DEF r, s2

(* What waited runs, or nothing did. *)
LEMMA PendingIsProcessed ==
    ASSUME NEW src \in DerivedSources, subscribed \in BOOLEAN, subscriptions \in Nat,
           NEW st, StInv(st, src, subscribed, subscriptions),
           kind \in {"blocking", "throttling"}, ~ st.c.isRunning
    PROVE  LET r == Derived!ProcessPending(st)
           IN  StInv(r, src, subscribed, subscriptions) /\ StAwaits(r) /\ r.output = st.output
<1> DEFINE r == Derived!ProcessPending(st)
<1> SUFFICES StInv(r, src, subscribed, subscriptions) /\ StAwaits(r) /\ r.output = st.output
  OBVIOUS
<1>1. st \in DerivedStates /\ st.c \in DerivedClosures /\ st.c.pending \in SUBSET DerivedValues
  BY DerivedFields DEF StInv
<1>2. CASE st.c.pending = {}
  <2> DEFINE c == [st.c EXCEPT !.timer = FALSE]
  <2>1. r = [st EXCEPT !.c = c]
    <3>1. [st EXCEPT !.c.timer = FALSE] = [st EXCEPT !.c = c]
      BY <1>1 DEF DerivedStates, DerivedClosures
    <3> QED
      BY <1>2, <3>1 DEF Derived!ProcessPending
  <2>2. /\ c \in DerivedClosures /\ c.isRunning = st.c.isRunning /\ c.pending = st.c.pending
        /\ c.timer = FALSE /\ c.freshnessGeneration = st.c.freshnessGeneration
        /\ c.lastIssuedUpdateId = st.c.lastIssuedUpdateId
    BY <1>1 DEF DerivedClosures
  <2> HIDE DEF c, r
  <2>3. /\ r \in DerivedStates /\ r.c = c /\ r.derives = st.derives /\ r.output = st.output
        /\ r.epoch = st.epoch
    BY <1>1, <2>1, <2>2, StateWithClosure
  <2>4. StBlocking(r, src, subscribed, subscriptions)
    BY <2>2, <2>3 DEF StInv, StBlocking, StRunning
  <2>5. StInv(r, src, subscribed, subscriptions)
    BY <2>2, <2>3, <2>4 DEF StInv, StBounds, StFresh
  <2> QED
    BY <1>2, <2>2, <2>3, <2>5 DEF StAwaits
<1>3. CASE st.c.pending # {}
  <2> DEFINE c == [st.c EXCEPT !.timer = FALSE, !.pending = {}]
             s2 == [st EXCEPT !.c = c]
             v == Derived!PendingOf(st)
  <2>1. v \in st.c.pending
    BY <1>3 DEF Derived!PendingOf
  <2>2. r = Derived!StartDerive(s2, v)
    <3> DEFINE fired == [st EXCEPT !.c.timer = FALSE]
    <3>1. [fired EXCEPT !.c.pending = {}] = s2
      BY <1>1 DEF DerivedStates, DerivedClosures
    <3>2. r = Derived!StartDerive([fired EXCEPT !.c.pending = {}], v)
      BY <1>3 DEF Derived!ProcessPending
    <3> QED
      BY <3>1, <3>2
  <2>3. /\ c \in DerivedClosures /\ c.isRunning = st.c.isRunning /\ c.pending = {}
        /\ c.timer = FALSE /\ c.freshnessGeneration = st.c.freshnessGeneration
        /\ c.lastIssuedUpdateId = st.c.lastIssuedUpdateId
        /\ c.lastAppliedUpdateId = st.c.lastAppliedUpdateId
    BY <1>1 DEF DerivedClosures
  <2> HIDE DEF c
  <2>4. /\ s2 \in DerivedStates /\ s2.c = c /\ s2.derives = st.derives /\ s2.output = st.output
        /\ s2.epoch = st.epoch
    BY <1>1, <2>3, StateWithClosure
  <2> HIDE DEF s2, v, r
  <2>5. v \in DerivedValues
    BY <1>1, <2>1
  <2>6. /\ WithCall(s2, r, v, subscriptions) /\ r.c.pending = s2.c.pending
        /\ r.c.isRunning = TRUE /\ r.c.timer = s2.c.timer
    BY <2>2, <2>4, <2>5, StartsDerive
  <2>7. WithCall(st, r, v, subscriptions)
    BY <2>3, <2>4, <2>6 DEF WithCall
  <2>8. r.c.pending = {} /\ r.c.isRunning /\ ~ r.c.timer
    BY <2>3, <2>4, <2>6
  <2>9. subscribed /\ Fresh(src)
    BY <1>3 DEF StInv, StBlocking
  <2>10. StInv(r, src, subscribed, subscriptions)
    BY <2>1, <2>5, <2>7, <2>8, <2>9, BlockingCalls
  <2> QED
    BY <2>7, <2>8, <2>10 DEF StAwaits, WithCall
<1> QED
  BY <1>2, <1>3

LEMMA ThrottleAdvances ==
    ASSUME NEW src \in DerivedSources, subscribed \in BOOLEAN, subscriptions \in Nat,
           NEW st, StInv(st, src, subscribed, subscriptions),
           kind \in {"blocking", "throttling"}, ~ st.c.isRunning
    PROVE  LET r == Derived!AdvanceQueue(st)
           IN  StInv(r, src, subscribed, subscriptions) /\ StAwaits(r) /\ r.output = st.output
<1> DEFINE r == Derived!AdvanceQueue(st)
<1> SUFFICES StInv(r, src, subscribed, subscriptions) /\ StAwaits(r) /\ r.output = st.output
  OBVIOUS
<1>1. st \in DerivedStates /\ st.c \in DerivedClosures
  BY DerivedFields DEF StInv
<1>2. CASE st.c.pending = {}
  <2>1. r = st
    BY <1>2 DEF Derived!AdvanceQueue
  <2> QED
    BY <1>2, <2>1 DEF StAwaits
<1>3. CASE st.c.pending # {} /\ kind = "throttling"
  <2> DEFINE c == [st.c EXCEPT !.timer = TRUE]
  <2>1. r = [st EXCEPT !.c = c]
    <3>1. [st EXCEPT !.c.timer = TRUE] = [st EXCEPT !.c = c]
      BY <1>1 DEF DerivedStates, DerivedClosures
    <3> QED
      BY <1>3, <3>1 DEF Derived!AdvanceQueue
  <2>2. /\ c \in DerivedClosures /\ c.isRunning = st.c.isRunning /\ c.pending = st.c.pending
        /\ c.timer = TRUE /\ c.freshnessGeneration = st.c.freshnessGeneration
        /\ c.lastIssuedUpdateId = st.c.lastIssuedUpdateId
    BY <1>1 DEF DerivedClosures
  <2> HIDE DEF c, r
  <2>3. /\ r \in DerivedStates /\ r.c = c /\ r.derives = st.derives /\ r.output = st.output
        /\ r.epoch = st.epoch
    BY <1>1, <2>1, <2>2, StateWithClosure
  <2>4. subscribed
    BY <1>3 DEF StInv, StBlocking
  <2>5. StBlocking(r, src, subscribed, subscriptions)
    BY <2>2, <2>3, <2>4 DEF StInv, StBlocking, StRunning
  <2>6. StInv(r, src, subscribed, subscriptions)
    BY <2>2, <2>3, <2>5 DEF StInv, StBounds, StFresh
  <2> QED
    BY <2>2, <2>3, <2>6 DEF StAwaits
<1>4. CASE st.c.pending # {} /\ kind # "throttling"
  <2>1. r = Derived!ProcessPending(st)
    BY <1>4 DEF Derived!AdvanceQueue
  <2> QED
    BY <2>1, PendingIsProcessed
<1> QED
  BY <1>2, <1>3, <1>4

-----------------------------------------------------------------------------
(* The actions.  DerivedTypes is of the variables a run leaves alone.      *)

DerivedTypes ==
    /\ kind \in {"deriveFrom", "async", "blocking", "throttling"}
    /\ source \in DerivedSources /\ subscriptions \in Nat /\ subscribed \in BOOLEAN
    /\ \A s \in Sources : source[s].value = 0 => source[s].stale

DerivedStep == DerivedInv' /\ AtMost(output.value, output'.value)

(* A run that comes to a state which keeps the invariant. *)
Comes(r, src, on, subs) ==
    /\ StInv(r, src, on, subs) /\ StAwaits(r)
    /\ AtMost(output.value, r.output.value)
    /\ kind = "deriveFrom" /\ ~ r.output.stale => r.output.value = ValuesOf(src)

LEMMA Became ==
    ASSUME DerivedTypes', UNCHANGED kind, NEW r, Derived!Becomes(r),
           Comes(r, source', subscribed', subscriptions')
    PROVE  DerivedStep
<1>1. Derived!Current' = r
  BY DEF Derived!Becomes, Derived!Current, Comes, StInv, DerivedStates
<1>2. output' = r.output
  BY DEF Derived!Becomes
<1>3. StInv(Derived!Current, source, subscribed, subscriptions)' /\ StAwaits(Derived!Current)'
  BY <1>1 DEF Comes, StInv, StAwaits
<1> QED
  BY <1>2, <1>3 DEF DerivedStep, DerivedInv, DerivedTypes, Comes

(* The state before, as a step finds it. *)
LEMMA DerivedNow ==
    ASSUME DerivedInv
    PROVE  LET st == Derived!Current
           IN  /\ st \in DerivedStates /\ st.output = output /\ st.derives = derives
               /\ st.c = closure /\ st.epoch = epoch
               /\ StInv(st, source, subscribed, subscriptions) /\ StAwaits(st)
               /\ output.value \in DerivedValues /\ AtMost(output.value, output.value)
               /\ DerivedTypes /\ kind \in Derived!Kinds
<1> DEFINE st == Derived!Current
<1>1. st \in DerivedStates /\ st.output = output /\ st.derives = derives /\ st.c = closure
      /\ st.epoch = epoch
  BY DEF DerivedInv, StInv, Derived!Current
<1> HIDE DEF st
<1>2. output.value \in DerivedValues
  BY <1>1, DerivedFields
<1>3. AtMost(output.value, output.value)
  BY <1>2, AtMostIsOrder
<1>4. StInv(st, source, subscribed, subscriptions) /\ StAwaits(st)
  BY DEF DerivedInv, st
<1>5. DerivedTypes /\ kind \in Derived!Kinds
  BY DEF DerivedInv, DerivedTypes, Derived!Kinds
<1>6. /\ st \in DerivedStates /\ st.output = output /\ st.derives = derives
      /\ st.c = closure /\ st.epoch = epoch
      /\ StInv(st, source, subscribed, subscriptions) /\ StAwaits(st)
      /\ output.value \in DerivedValues /\ AtMost(output.value, output.value)
      /\ DerivedTypes /\ kind \in Derived!Kinds
  BY <1>1, <1>2, <1>3, <1>4, <1>5
<1> QED
  BY <1>6 DEF st

LEMMA UpdatesIfFresh ==
    ASSUME DerivedInv, NEW now, MovesOn(source, now),
           \A s \in Sources : now[s].value = 0 => now[s].stale
    PROVE  Comes(Derived!UpdateIfSourcesAreFresh(Derived!Current, now), now,
                 subscribed, subscriptions)
<1> DEFINE st == Derived!Current
           v == ValuesOf(now)
           r == Derived!UpdateIfSourcesAreFresh(st, now)
<1> SUFFICES Comes(r, now, subscribed, subscriptions)
  OBVIOUS
<1>1. /\ st \in DerivedStates /\ st.output = output /\ StAwaits(st)
      /\ StInv(st, source, subscribed, subscriptions) /\ AtMost(output.value, output.value)
      /\ DerivedTypes /\ kind \in Derived!Kinds
  BY DerivedNow
<1>2. subscribed \in BOOLEAN /\ subscriptions \in Nat /\ source \in DerivedSources
  BY <1>1 DEF DerivedTypes
<1>3. now \in DerivedSources /\ v \in DerivedValues
  BY ValuesAreDerived DEF MovesOn
<1>4. CASE subscribed /\ Fresh(now)
  <2>1. Derived!Available(v)
    BY <1>4 DEF Derived!Available, Derived!NotAvailable, Fresh, ValuesOf
  <2>2. r = Derived!OnSourceValuesChanged(st, v)
    BY <1>4 DEF Derived!UpdateIfSourcesAreFresh, Fresh, ValuesOf
  <2> HIDE DEF st, r
  <2>3. StInv(st, now, subscribed, subscriptions)
    BY <1>1, <1>2, SourceMovesOn
  <2> HIDE DEF v
  <2>4. ChangesTo(st, r, v, subscriptions)
    BY <1>1, <1>2, <1>3, <2>1, <2>2, ChangeIsOneOf
  <2>5. ChangesTo(st, r, ValuesOf(now), subscriptions)
    BY <2>4 DEF v
  <2>6. /\ StInv(r, now, subscribed, subscriptions) /\ StAwaits(r)
        /\ AtMost(st.output.value, r.output.value)
        /\ kind = "deriveFrom" => r.output.value = ValuesOf(now)
    BY <1>1, <1>2, <1>3, <1>4, <2>3, <2>5, Changed
  <2> QED
    BY <1>1, <2>6 DEF Comes
<1>5. CASE ~ (subscribed /\ Fresh(now))
  <2>1. r = st
    BY <1>5 DEF Derived!UpdateIfSourcesAreFresh, Fresh
  <2> HIDE DEF st, r
  <2>2. StInv(st, now, subscribed, subscriptions)
    BY <1>1, <1>2, SourceMovesOn
  <2>3. st.output.stale
    BY <1>5, <2>2 DEF StInv, StFresh
  <2> QED
    BY <1>1, <2>1, <2>2, <2>3 DEF Comes
<1> QED
  BY <1>4, <1>5

LEMMA DerivedSourceSets ==
    ASSUME DerivedInv, NEW s \in Sources, NEW fresh \in BOOLEAN, Derived!SourceSets(s, fresh)
    PROVE  DerivedStep
<1> DEFINE now == source'
           r == Derived!UpdateIfSourcesAreFresh(Derived!Current, now)
<1>1. /\ now = [source EXCEPT ![s] = [value |-> @.value + 1, stale |-> @.stale /\ ~ fresh]]
      /\ Derived!Becomes(r)
      /\ kind' = kind /\ subscriptions' = subscriptions /\ subscribed' = subscribed
  BY DEF Derived!SourceSets
<1>2. DerivedTypes /\ source \in DerivedSources
  BY DerivedNow DEF DerivedTypes
<1> HIDE DEF now
<1>3. now \in DerivedSources
  BY <1>1, <1>2 DEF DerivedSources
<1>4. \A t \in Sources : /\ source[t].value <= now[t].value
                         /\ now[t].value = 0 => now[t].stale
                         /\ ~ source[t].stale => ~ now[t].stale
  BY <1>1, <1>2 DEF DerivedTypes, DerivedSources
<1>5. MovesOn(source, now)
  BY <1>3, <1>4 DEF MovesOn, AtMost, ValuesOf, Fresh
<1>6. Comes(r, now, subscribed, subscriptions)
  BY <1>4, <1>5, UpdatesIfFresh
<1>7. DerivedTypes'
  BY <1>1, <1>2, <1>3, <1>4 DEF DerivedTypes, now
<1> HIDE DEF r
<1>8. Comes(r, source', subscribed', subscriptions')
  BY <1>1, <1>6 DEF now
<1> QED
  BY <1>1, <1>7, <1>8, Became

LEMMA DerivedSourceRefreshes ==
    ASSUME DerivedInv, NEW s \in Sources, Derived!SourceRefreshes(s)
    PROVE  DerivedStep
<1> DEFINE now == source'
           r == Derived!UpdateIfSourcesAreFresh(Derived!Current, now)
<1>1. /\ now = [source EXCEPT ![s].stale = FALSE] /\ source[s].value # 0
      /\ Derived!Becomes(r)
      /\ kind' = kind /\ subscriptions' = subscriptions /\ subscribed' = subscribed
  BY DEF Derived!SourceRefreshes, Derived!NotAvailable
<1>2. DerivedTypes /\ source \in DerivedSources
  BY DerivedNow DEF DerivedTypes
<1> HIDE DEF now
<1>3. now \in DerivedSources
  BY <1>1, <1>2 DEF DerivedSources
<1>4. \A t \in Sources : /\ source[t].value <= now[t].value
                         /\ now[t].value = 0 => now[t].stale
                         /\ ~ source[t].stale => ~ now[t].stale
  BY <1>1, <1>2 DEF DerivedTypes, DerivedSources
<1>5. MovesOn(source, now)
  BY <1>3, <1>4 DEF MovesOn, AtMost, ValuesOf, Fresh
<1>6. Comes(r, now, subscribed, subscriptions)
  BY <1>4, <1>5, UpdatesIfFresh
<1>7. DerivedTypes'
  BY <1>1, <1>2, <1>3, <1>4 DEF DerivedTypes, now
<1> HIDE DEF r
<1>8. Comes(r, source', subscribed', subscriptions')
  BY <1>1, <1>6 DEF now
<1> QED
  BY <1>1, <1>7, <1>8, Became

LEMMA DerivedSourceBecomesStale ==
    ASSUME DerivedInv, NEW s \in Sources, Derived!SourceBecomesStale(s)
    PROVE  DerivedStep
<1> DEFINE now == source'
           st == Derived!Current
           r == IF subscribed THEN Derived!OnStale(st) ELSE st
<1>1. /\ now = [source EXCEPT ![s].stale = TRUE]
      /\ Derived!Becomes(r)
      /\ kind' = kind /\ subscriptions' = subscriptions /\ subscribed' = subscribed
  BY DEF Derived!SourceBecomesStale
<1>2. /\ st \in DerivedStates /\ st.output = output /\ StAwaits(st)
      /\ StInv(st, source, subscribed, subscriptions) /\ AtMost(output.value, output.value)
      /\ DerivedTypes /\ kind \in Derived!Kinds
  BY DerivedNow
<1>3. subscribed \in BOOLEAN /\ subscriptions \in Nat /\ source \in DerivedSources
  BY <1>2 DEF DerivedTypes
<1> HIDE DEF now, st
<1>4. /\ now \in DerivedSources /\ ValuesOf(now) = ValuesOf(source)
      /\ \A t \in Sources : now[t].value = 0 => now[t].stale
  <2>1. \A t \in Sources : now[t].value = source[t].value
    BY <1>1, <1>3 DEF DerivedSources
  <2>2. ValuesOf(now) = ValuesOf(source)
    BY <2>1 DEF ValuesOf
  <2>3. now \in DerivedSources
    BY <1>1, <1>3 DEF DerivedSources
  <2> QED
    BY <1>1, <1>2, <1>3, <2>2, <2>3 DEF DerivedTypes, DerivedSources
<1>5. Comes(r, now, subscribed, subscriptions)
  <2>1. CASE subscribed
    <3>1. r = Derived!OnStale(st)
      BY <2>1
    <3> HIDE DEF r
    <3>2. /\ StInv(r, now, subscribed, subscriptions) /\ StAwaits(r) /\ r.output.stale
          /\ r.output.value = st.output.value
      BY <1>2, <1>3, <1>4, <2>1, <3>1, StaleInvalidates
    <3> QED
      BY <1>2, <3>2 DEF Comes
  <2>2. CASE ~ subscribed
    <3>1. r = st
      BY <2>2
    <3>2. StBounds(st, now, subscriptions) /\ StFresh(st, now, subscribed)
      BY <1>2, <1>4, <2>2 DEF StInv, StBounds, StFresh
    <3>3. kind = "async" => StAsync(st, now, subscribed, subscriptions)
      BY <1>2, <2>2 DEF StInv, StAsync
    <3>4. kind \in {"blocking", "throttling"} => StBlocking(st, now, subscribed, subscriptions)
      BY <1>2, <2>2 DEF StInv, StBlocking
    <3>5. StInv(st, now, subscribed, subscriptions) /\ st.output.stale
      BY <1>2, <2>2, <3>2, <3>3, <3>4 DEF StInv, StFresh
    <3> QED
      BY <1>2, <3>1, <3>5 DEF Comes
  <2> QED
    BY <2>1, <2>2
<1>6. DerivedTypes'
  BY <1>1, <1>2, <1>4 DEF DerivedTypes, now
<1> HIDE DEF r
<1>7. Comes(r, source', subscribed', subscriptions')
  BY <1>1, <1>5 DEF now
<1> QED
  BY <1>1, <1>6, <1>7, Became

LEMMA DerivedUnsubscribe ==
    ASSUME DerivedInv, Derived!Unsubscribe
    PROVE  DerivedStep
<1> DEFINE st == Derived!Current
           c == [st.c EXCEPT !.isRunning = FALSE, !.pending = {}, !.recent = FALSE, !.timer = FALSE]
           s2 == IF Derived!Blocking THEN [st EXCEPT !.c = c] ELSE st
           r == Derived!MarkStale(s2)
<1>1. /\ st \in DerivedStates /\ st.output = output /\ StAwaits(st) /\ st.c = closure
      /\ StInv(st, source, subscribed, subscriptions) /\ AtMost(output.value, output.value)
      /\ DerivedTypes /\ kind \in Derived!Kinds
  BY DerivedNow
<1>2. subscribed \in BOOLEAN /\ subscriptions \in Nat /\ source \in DerivedSources
  BY <1>1 DEF DerivedTypes
<1>3. /\ Derived!Becomes(r) /\ ~ subscribed'
      /\ kind' = kind /\ source' = source /\ subscriptions' = subscriptions
  <2>1. [st EXCEPT !.c.isRunning = FALSE, !.c.pending = {}, !.c.recent = FALSE, !.c.timer = FALSE]
        = [st EXCEPT !.c = c]
    BY <1>1 DEF DerivedStates, DerivedClosures
  <2> QED
    BY <2>1 DEF Derived!Unsubscribe
<1> HIDE DEF st
<1>4. /\ c \in DerivedClosures /\ ~ c.isRunning /\ c.pending = {} /\ ~ c.timer
      /\ c.freshnessGeneration = st.c.freshnessGeneration
      /\ c.lastIssuedUpdateId = st.c.lastIssuedUpdateId
      /\ c.lastAppliedUpdateId = st.c.lastAppliedUpdateId
  BY <1>1, DerivedFields DEF DerivedClosures
<1> HIDE DEF c
<1>5. /\ s2 \in DerivedStates /\ s2.derives = st.derives /\ s2.output = st.output
      /\ s2.epoch = st.epoch
      /\ s2.c.lastIssuedUpdateId = st.c.lastIssuedUpdateId
      /\ s2.c.lastAppliedUpdateId = st.c.lastAppliedUpdateId
      /\ s2.c.pending = st.c.pending \/ s2.c.pending = {}
      /\ ~ s2.c.timer \/ s2.c.timer = st.c.timer
      /\ kind \in {"blocking", "throttling"} =>
           s2.c.pending = {} /\ ~ s2.c.isRunning /\ ~ s2.c.timer
  <2>1. CASE Derived!Blocking
    <3>1. s2 = [st EXCEPT !.c = c]
      BY <2>1
    <3> HIDE DEF s2
    <3>2. /\ s2 \in DerivedStates /\ s2.c = c /\ s2.derives = st.derives /\ s2.output = st.output
          /\ s2.epoch = st.epoch
      BY <1>1, <1>4, <3>1, StateWithClosure
    <3> QED
      BY <1>4, <3>2
  <2>2. CASE ~ Derived!Blocking
    BY <1>1, <2>2 DEF Derived!Blocking
  <2> QED
    BY <2>1, <2>2
<1> HIDE DEF s2
<1>6. /\ r \in DerivedStates /\ r.c = s2.c /\ r.derives = s2.derives
      /\ r.output.stale /\ r.output.value = s2.output.value /\ r.epoch = s2.epoch + 1
  BY <1>5, MarkedStale
<1> HIDE DEF r
<1>7. Comes(r, source, subscribed', subscriptions)
  <2>1. StBounds(r, source, subscriptions)
    BY <1>1, <1>5, <1>6 DEF StInv, StBounds
  <2>2. kind = "async" => StAsync(r, source, subscribed', subscriptions)
    BY <1>1, <1>3, <1>5, <1>6 DEF StInv, StAsync
  <2>3. kind \in {"blocking", "throttling"} => StBlocking(r, source, subscribed', subscriptions)
    BY <1>3, <1>5, <1>6 DEF StBlocking
  <2>4. StInv(r, source, subscribed', subscriptions)
    BY <1>1, <1>5, <1>6, <2>1, <2>2, <2>3 DEF StInv, StFresh
  <2>5. StAwaits(r)
    BY <1>1, <1>5, <1>6 DEF StAwaits
  <2> QED
    BY <1>1, <1>5, <1>6, <2>4, <2>5 DEF Comes
<1>8. DerivedTypes'
  <2>1. subscribed' \in BOOLEAN
    BY DEF Derived!Unsubscribe
  <2> QED
    BY <1>1, <1>3, <2>1 DEF DerivedTypes
<1>9. Comes(r, source', subscribed', subscriptions')
  BY <1>3, <1>7
<1> QED
  BY <1>3, <1>8, <1>9, Became

(* No call was made for a subscription to come. *)
SameWork(st, r) ==
    /\ r \in DerivedStates /\ r.derives = st.derives /\ r.output = st.output
    /\ r.c.lastIssuedUpdateId = st.c.lastIssuedUpdateId
    /\ r.c.lastAppliedUpdateId = st.c.lastAppliedUpdateId
    /\ r.c.pending = st.c.pending /\ r.c.timer = st.c.timer /\ r.c.isRunning = st.c.isRunning

Rejoins(st, r, src, off, subs, next) ==
    /\ StInv(st, src, off, subs) /\ StAwaits(st) /\ ~ off
    /\ next = subs + 1 /\ SameWork(st, r)

LEMMA NextSubscription ==
    ASSUME NEW src, NEW subs \in Nat, NEW next, NEW off \in BOOLEAN, NEW on \in BOOLEAN, on,
           NEW st, NEW r, Rejoins(st, r, src, off, subs, next)
    PROVE  StInv(r, src, on, next) /\ StAwaits(r) /\ r.output.stale
<1> USE DEF Rejoins
<1>1. st \in DerivedStates
  BY DEF StInv
<1>2. \A d \in st.derives : d.subscription \in Nat
  BY <1>1, DerivedFields DEF DerivedCalls
<1>3. \A d \in st.derives : d.subscription <= next /\ d.subscription # next
  BY <1>2 DEF StInv, StBounds
<1>4. r.output.stale
  BY DEF StInv, StFresh, SameWork
<1>5. StBounds(r, src, next)
  BY <1>3 DEF StInv, StBounds, SameWork
<1>6. kind = "async" => StAsync(r, src, on, next)
  BY <1>3 DEF StInv, StAsync, SameWork
<1>7. kind \in {"blocking", "throttling"} =>
        StBlocking(r, src, on, next) /\ r.c.pending = {}
  BY <1>3 DEF StInv, StBlocking, SameWork
<1> QED
  BY <1>4, <1>5, <1>6, <1>7 DEF StInv, StFresh, StAwaits, SameWork

(* The calls made for a subscription carry its number. *)
Numbered(st, begun, next) ==
    [begun EXCEPT !.derives =
        {IF d \in st.derives THEN d ELSE [d EXCEPT !.subscription = next] : d \in begun.derives}]

LEMMA NumberedForSubscription ==
    ASSUME NEW st \in DerivedStates, NEW begun, NEW v \in DerivedValues, NEW subs \in Nat, NEW next \in Nat,
           \A d \in st.derives : d.id <= st.c.lastIssuedUpdateId,
           ChangesTo(st, begun, v, subs)
    PROVE  ChangesTo(st, Numbered(st, begun, next), v, next)
<1> DEFINE ds == {IF d \in st.derives THEN d ELSE [d EXCEPT !.subscription = next] :
                     d \in begun.derives}
           r == [begun EXCEPT !.derives = ds]
           n == CallOf(begun, v, subs)
           m == CallOf(begun, v, next)
<1> SUFFICES ChangesTo(st, r, v, next)
  BY DEF Numbered
<1>1. CASE begun \in DerivedStates /\ begun.derives = st.derives
  <2>1. ds = begun.derives
    BY <1>1
  <2> HIDE DEF ds
  <2>2. r = begun
    BY <1>1, <2>1 DEF DerivedStates
  <2>3. st.c.lastIssuedUpdateId \in Int
    BY DerivedFields
  <2>4. ~ WithCall(st, begun, v, subs)
    <3>1. SUFFICES ASSUME WithCall(st, begun, v, subs) PROVE FALSE
      OBVIOUS
    <3>2. CallOf(begun, v, subs) \in st.derives
      BY <1>1, <3>1 DEF WithCall
    <3>3. CallOf(begun, v, subs).id = st.c.lastIssuedUpdateId + 1
      BY <3>1 DEF WithCall, CallOf
    <3> QED
      BY <2>3, <3>2, <3>3
  <2> HIDE DEF r
  <2> QED
    BY <2>2, <2>4 DEF ChangesTo, Runs
<1>2. CASE WithCall(st, begun, v, subs)
  <2>1. /\ begun \in DerivedStates /\ begun.derives = st.derives \cup {n}
        /\ n.id = st.c.lastIssuedUpdateId + 1
    BY <1>2 DEF WithCall, CallOf
  <2>2. st.c.lastIssuedUpdateId \in Int
    BY DerivedFields
  <2>3. n \notin st.derives
    BY <2>1, <2>2
  <2>4. m = [n EXCEPT !.subscription = next]
    BY DEF CallOf
  <2>5. n \in DerivedCalls /\ st.derives \in SUBSET DerivedCalls
    BY <2>1, DerivedFields
  <2>6. m \in DerivedCalls
    BY <2>4, <2>5 DEF DerivedCalls
  <2> HIDE DEF n, m
  <2>7. ds = st.derives \cup {m}
    BY <2>1, <2>3, <2>4
  <2>8. ds \in SUBSET DerivedCalls
    BY <2>5, <2>6, <2>7
  <2> HIDE DEF ds
  <2>9. /\ r \in DerivedStates /\ r.c = begun.c /\ r.derives = ds /\ r.output = begun.output
        /\ r.epoch = begun.epoch
    BY <2>1, <2>8, StateWithCalls
  <2> HIDE DEF r
  <2>10. m = CallOf(r, v, next)
    BY <2>9 DEF m, CallOf
  <2>11. WithCall(st, r, v, next)
    BY <1>2, <2>7, <2>9, <2>10 DEF WithCall
  <2>12. ~ (kind = "deriveFrom" /\ begun = Derived!SetDownstream(st, v, st.epoch))
    <3>1. begun.derives # st.derives
      BY <2>1, <2>3
    <3>2. st.epoch \in Nat
      BY DerivedFields
    <3> QED
      BY <3>1, <3>2, SetsDownstream
  <2>13. ~ Waits(st, begun, v)
    BY <2>1, <2>3 DEF Waits
  <2> QED
    BY <2>9, <2>11, <2>12, <2>13 DEF ChangesTo, Runs
<1>3. (begun \in DerivedStates /\ begun.derives = st.derives) \/ WithCall(st, begun, v, subs)
  <2>1. st.epoch \in Nat
    BY DerivedFields
  <2> QED
    BY <2>1, SetsDownstream DEF ChangesTo, Waits, Runs
<1> QED
  BY <1>1, <1>2, <1>3

LEMMA DerivedSubscribe ==
    ASSUME DerivedInv, Derived!Subscribe
    PROVE  DerivedStep
<1> DEFINE now == Derived!Current
           c == [now.c EXCEPT !.freshnessGeneration = 0]
           st == [now EXCEPT !.c = c]
           v == ValuesOf(source)
           next == subscriptions + 1
           on == subscribed'
           begun == IF Derived!AllFresh THEN Derived!OnSourceValuesChanged(st, v)
                    ELSE Derived!OnStale(st)
           ds == {IF d \in derives THEN d ELSE [d EXCEPT !.subscription = next] :
                     d \in begun.derives}
           r == [begun EXCEPT !.derives = ds]
<1>1. /\ now \in DerivedStates /\ now.output = output /\ now.derives = derives
      /\ StInv(now, source, subscribed, subscriptions) /\ StAwaits(now)
      /\ AtMost(output.value, output.value)
      /\ DerivedTypes /\ kind \in Derived!Kinds
  BY DerivedNow
<1>2. subscribed \in BOOLEAN /\ subscriptions \in Nat /\ source \in DerivedSources
      /\ v \in DerivedValues
  BY <1>1, ValuesAreDerived DEF DerivedTypes
<1>3. /\ ~ subscribed /\ subscribed' = TRUE /\ subscriptions' = next
      /\ kind' = kind /\ source' = source /\ Derived!Becomes(r)
  <2>1. [now EXCEPT !.c.freshnessGeneration = 0] = st
    BY <1>1 DEF DerivedStates, DerivedClosures
  <2>2. Derived!Values = v
    BY DEF Derived!Values, ValuesOf
  <2>3. /\ ~ subscribed /\ subscribed' = TRUE /\ subscriptions' = next
        /\ kind' = kind /\ source' = source
    BY DEF Derived!Subscribe
  <2> QED
    BY <2>1, <2>2, <2>3 DEF Derived!Subscribe
<1> HIDE DEF now
<1>4. /\ c \in DerivedClosures /\ c.isRunning = now.c.isRunning /\ c.pending = now.c.pending
      /\ c.timer = now.c.timer
      /\ c.lastIssuedUpdateId = now.c.lastIssuedUpdateId
      /\ c.lastAppliedUpdateId = now.c.lastAppliedUpdateId
  BY <1>1, DerivedFields DEF DerivedClosures
<1> HIDE DEF c
<1>5. /\ st \in DerivedStates /\ st.c = c /\ st.derives = now.derives /\ st.output = now.output
      /\ st.epoch = now.epoch
  BY <1>1, <1>4, StateWithClosure
<1> HIDE DEF st
<1>6. next = subscriptions + 1 /\ next \in Nat
  BY <1>2
<1>9. on \in BOOLEAN /\ on
  BY <1>3
<1> HIDE DEF next, on, v, begun, ds, r
<1>7. StInv(st, source, on, next) /\ StAwaits(st) /\ st.output.stale
  <2>1. SameWork(now, st)
    BY <1>4, <1>5 DEF SameWork
  <2>2. StInv(now, source, subscribed, subscriptions) /\ StAwaits(now) /\ ~ subscribed
    BY <1>1, <1>3
  <2>3. PICK x, q, m, b : x = now /\ q = st /\ m = next /\ b = on
    OBVIOUS
  <2>4. Rejoins(x, q, source, subscribed, subscriptions, m) /\ b \in BOOLEAN /\ b
    BY <1>6, <1>9, <2>1, <2>2, <2>3 DEF Rejoins
  <2>5. StInv(q, source, b, m) /\ StAwaits(q) /\ q.output.stale
    BY <1>2, <2>4, NextSubscription
  <2>6. StInv(st, source, on, next) /\ StAwaits(st) /\ st.output.stale
    BY <2>3, <2>5
  <2> QED
    BY <2>6
<1>8. Comes(r, source, on, next)
  <2>1. CASE Derived!AllFresh
    <3>1. begun = Derived!OnSourceValuesChanged(st, v) /\ Fresh(source)
      BY <2>1 DEF Derived!AllFresh, Fresh, begun
    <3>2. Derived!Available(v)
      BY <1>1, <3>1 DEF Derived!Available, Derived!NotAvailable, DerivedTypes, Fresh, ValuesOf, v
    <3>3. ChangesTo(st, begun, v, subscriptions)
      BY <1>1, <1>2, <1>5, <3>1, <3>2, ChangeIsOneOf
    <3>4. \A d \in st.derives : d.id <= st.c.lastIssuedUpdateId
      BY <1>7 DEF StInv, StBounds
    <3>5. ChangesTo(st, r, v, next)
      <4>1. derives = st.derives
        BY <1>1, <1>5
      <4>2. r = Numbered(st, begun, next)
        BY <4>1 DEF r, ds, Numbered
      <4> QED
        BY <1>2, <1>5, <1>6, <3>3, <3>4, <4>2, NumberedForSubscription
    <3>6. ChangesTo(st, r, ValuesOf(source), next)
      BY <3>5 DEF v
    <3>7. /\ StInv(r, source, on, next) /\ StAwaits(r)
          /\ AtMost(st.output.value, r.output.value)
          /\ kind = "deriveFrom" => r.output.value = ValuesOf(source)
      BY <1>2, <1>6, <1>7, <1>9, <3>1, <3>6, Changed
    <3> QED
      BY <1>1, <1>5, <3>7 DEF Comes
  <2>2. CASE ~ Derived!AllFresh
    <3>1. begun = Derived!OnStale(st)
      BY <2>2 DEF begun
    <3>3. /\ StInv(begun, source, on, next) /\ StAwaits(begun) /\ begun.output.stale
          /\ begun.output.value = st.output.value /\ begun.derives = st.derives
      BY <1>1, <1>2, <1>6, <1>7, <1>9, <3>1, StaleInvalidates
    <3>4. ds = begun.derives
      BY <1>1, <1>5, <3>3 DEF ds
    <3>5. r = begun
      BY <3>3, <3>4 DEF StInv, DerivedStates, r
    <3> QED
      BY <1>1, <1>5, <3>3, <3>5 DEF Comes
  <2> QED
    BY <2>1, <2>2
<1>10. DerivedTypes'
  BY <1>1, <1>2, <1>3, <1>6 DEF DerivedTypes
<1>11. Comes(r, source', subscribed', subscriptions')
  BY <1>3, <1>6, <1>8 DEF on
<1>12. PICK q : q = r
  OBVIOUS
<1>13. Derived!Becomes(q) /\ UNCHANGED kind
  BY <1>3, <1>12
<1>14. Comes(q, source', subscribed', subscriptions')
  BY <1>11, <1>12
<1> QED
  BY <1>10, <1>13, <1>14, Became

(* A promise of asyncDeriveFrom resolves, and was not superseded. *)
Applied(st, r, d, on, subs) ==
    /\ r \in DerivedStates /\ d \in st.derives /\ d.id > st.c.lastAppliedUpdateId
    /\ r.derives = st.derives \ {d} /\ r.epoch = st.epoch
    /\ r.c.pending = st.c.pending /\ r.c.timer = st.c.timer
    /\ r.c.lastIssuedUpdateId = st.c.lastIssuedUpdateId /\ r.c.lastAppliedUpdateId = d.id
    /\ \/ r.output = st.output
       \/ /\ on /\ d.subscription = subs
          /\ r.output.value = d.values /\ r.output.from = d.epoch

LEMMA AsyncApplies ==
    ASSUME NEW src, NEW on \in BOOLEAN, NEW subs \in Nat,
           NEW st, StInv(st, src, on, subs), StAwaits(st), kind = "async",
           NEW d, NEW r, Applied(st, r, d, on, subs)
    PROVE  StInv(r, src, on, subs) /\ StAwaits(r) /\ AtMost(st.output.value, r.output.value)
<1>1. st \in DerivedStates /\ StAsync(st, src, on, subs) /\ StBounds(st, src, subs)
  BY DEF StInv
<1>2. /\ st.c.lastAppliedUpdateId \in Int /\ st.output.value \in DerivedValues
      /\ \A e \in st.derives : e.id \in Int /\ e.values \in DerivedValues
  BY <1>1, DerivedFields DEF DerivedCalls
<1>3. d \in st.derives /\ r.derives = st.derives \ {d} /\ d.id > st.c.lastAppliedUpdateId
  BY DEF Applied
<1>4. AtMost(st.output.value, d.values) /\ AtMost(st.output.value, st.output.value)
  BY <1>1, <1>2, <1>3, AtMostIsOrder DEF StAsync
<1>5. StBounds(r, src, subs)
  BY <1>1, <1>3 DEF StBounds, Applied
<1>6. StFresh(r, src, on)
  BY <1>1, <1>3 DEF StInv, StFresh, StAsync, Applied
<1>7. StAsync(r, src, on, subs)
  <2>1. r.c.lastAppliedUpdateId <= r.c.lastIssuedUpdateId
    BY <1>1, <1>3 DEF StBounds, Applied
  <2>2. \A e \in r.derives : e.id > d.id =>
          /\ AtMost(st.output.value, e.values) /\ AtMost(d.values, e.values)
          /\ on /\ e.subscription = subs => e.epoch = st.epoch /\ Fresh(src)
    BY <1>1, <1>2, <1>3 DEF StAsync
  <2>3. \A d1, d2 \in r.derives : d1.id < d2.id => AtMost(d1.values, d2.values)
    BY <1>1, <1>3 DEF StAsync
  <2> QED
    BY <2>1, <2>2, <2>3 DEF StAsync, Applied
<1>8. AtMost(st.output.value, r.output.value)
  BY <1>4 DEF Applied
<1> QED
  BY <1>5, <1>6, <1>7, <1>8 DEF StInv, StAwaits, Applied

LEMMA ResolvesAsyncComes ==
    ASSUME DerivedInv, kind = "async", NEW d \in derives
    PROVE  Comes(Derived!ResolvesAsync(d), source, subscribed, subscriptions)
<1> DEFINE st == Derived!Current
           gone == Without(st, d)
           c == [gone.c EXCEPT !.lastAppliedUpdateId = d.id]
           applied == [gone EXCEPT !.c = c]
           r == Derived!ResolvesAsync(d)
<1> SUFFICES Comes(r, source, subscribed, subscriptions)
  OBVIOUS
<1>1. /\ st \in DerivedStates /\ st.output = output /\ st.derives = derives /\ st.c = closure
      /\ StAwaits(st) /\ StInv(st, source, subscribed, subscriptions)
      /\ AtMost(output.value, output.value) /\ DerivedTypes
  BY DerivedNow
<1>2. subscribed \in BOOLEAN /\ subscriptions \in Nat /\ source \in DerivedSources
  BY <1>1 DEF DerivedTypes
<1>3. d.id \in Int /\ d.values \in DerivedValues /\ d.epoch \in Nat
  BY <1>1, DerivedFields DEF DerivedCalls
<1>4. /\ ~ Derived!Applies(d) => r = gone
      /\ Derived!Applies(d) /\ Derived!IsOfSubscription(d) =>
           r = Derived!SetDownstream(applied, d.values, d.epoch)
      /\ Derived!Applies(d) /\ ~ Derived!IsOfSubscription(d) => r = applied
  <2>1. [gone EXCEPT !.c.lastAppliedUpdateId = d.id] = applied
    <3>1. gone \in DerivedStates
      BY <1>1, CallGoes
    <3> HIDE DEF gone
    <3> QED
      BY <3>1 DEF DerivedStates, DerivedClosures
  <2> HIDE DEF applied, st
  <2>2. [st EXCEPT !.derives = @ \ {d}] = gone
    BY DEF Without
  <2> HIDE DEF gone
  <2> QED
    BY <2>1, <2>2 DEF Derived!ResolvesAsync, st
<1> HIDE DEF st
<1>5. /\ gone \in DerivedStates /\ gone.c = st.c /\ gone.output = st.output
      /\ gone.epoch = st.epoch /\ gone.derives = st.derives \ {d}
  BY <1>1, CallGoes
<1>6. StInv(gone, source, subscribed, subscriptions)
  BY <1>1, <1>2, CallGoesInv
<1> HIDE DEF gone
<1>7. /\ c \in DerivedClosures /\ c.lastAppliedUpdateId = d.id
      /\ c.lastIssuedUpdateId = st.c.lastIssuedUpdateId /\ c.pending = st.c.pending
      /\ c.timer = st.c.timer
  BY <1>3, <1>5, DerivedFields DEF DerivedClosures
<1> HIDE DEF c
<1>8. /\ applied \in DerivedStates /\ applied.c = c /\ applied.derives = gone.derives
      /\ applied.output = gone.output /\ applied.epoch = gone.epoch
  BY <1>5, <1>7, StateWithClosure
<1> HIDE DEF applied, r
<1>9. CASE ~ Derived!Applies(d)
  BY <1>1, <1>4, <1>5, <1>6, <1>9 DEF Comes, StAwaits
<1>10. CASE Derived!Applies(d)
  <2>1. d \in st.derives /\ d.id > st.c.lastAppliedUpdateId
    BY <1>1, <1>10 DEF Derived!Applies
  <2>2. Applied(st, r, d, subscribed, subscriptions)
    <3>1. CASE Derived!IsOfSubscription(d)
      <4>1. r = Derived!SetDownstream(applied, d.values, d.epoch)
        BY <1>4, <1>10, <3>1
      <4>2. /\ r \in DerivedStates /\ r.c = applied.c /\ r.derives = applied.derives
            /\ r.epoch = applied.epoch /\ r.output.value = d.values /\ r.output.from = d.epoch
        BY <1>3, <1>8, <4>1, SetsDownstream
      <4> QED
        BY <1>5, <1>7, <1>8, <2>1, <3>1, <4>2 DEF Applied, Derived!IsOfSubscription
    <3>2. CASE ~ Derived!IsOfSubscription(d)
      BY <1>4, <1>5, <1>7, <1>8, <1>10, <2>1, <3>2 DEF Applied
    <3> QED
      BY <3>1, <3>2
  <2>3. StInv(r, source, subscribed, subscriptions) /\ StAwaits(r)
        /\ AtMost(st.output.value, r.output.value)
    BY <1>1, <1>2, <2>2, AsyncApplies
  <2> QED
    BY <1>1, <2>3 DEF Comes
<1> QED
  BY <1>9, <1>10

(* The value of the throttled derive that ran is shown. *)
LEMMA ValueIsTold ==
    ASSUME NEW src, NEW on \in BOOLEAN, NEW subs \in Nat, on,
           NEW st, StInv(st, src, on, subs), kind \in {"blocking", "throttling"},
           NEW d \in st.derives, d.subscription = subs,
           d.generation = st.c.freshnessGeneration
    PROVE  LET r == Derived!SetDownstream(Derived!DeriveEnds(Without(st, d)), d.values, d.epoch)
           IN  /\ StInv(r, src, on, subs) /\ ~ r.c.isRunning
               /\ AtMost(st.output.value, r.output.value)
<1> DEFINE s2 == Derived!DeriveEnds(Without(st, d))
           r == Derived!SetDownstream(s2, d.values, d.epoch)
<1>0. Over(st, s2, d, src, on, subs)
  BY DeriveIsOver
<1> HIDE DEF s2
<1>1. /\ StInv(s2, src, on, subs) /\ ~ s2.c.isRunning
      /\ s2.output = st.output /\ s2.epoch = st.epoch /\ s2.c.pending = st.c.pending
      /\ s2.c.freshnessGeneration = st.c.freshnessGeneration
      /\ s2.derives = st.derives \ {d}
      /\ \A e \in s2.derives : e.subscription # subs
  BY <1>0 DEF Over
<1>2. st \in DerivedStates /\ s2 \in DerivedStates
  BY <1>1 DEF StInv
<1>3. d.values \in DerivedValues /\ d.epoch \in Nat
  BY <1>2, DerivedFields DEF DerivedCalls
<1>4. /\ r \in DerivedStates /\ r.c = s2.c /\ r.derives = s2.derives /\ r.epoch = s2.epoch
      /\ r.output.value = d.values /\ r.output.from = d.epoch
  BY <1>2, <1>3, SetsDownstream
<1> HIDE DEF r
<1>5. StRunning(st, src, d) /\ AtMost(d.values, ValuesOf(src))
  BY DEF StInv, StBlocking, StBounds
<1>6. StBounds(r, src, subs)
  BY <1>1, <1>4, <1>5 DEF StInv, StBounds
<1>7. StFresh(r, src, on)
  BY <1>1, <1>4, <1>5 DEF StFresh, StRunning
<1>8. StBlocking(r, src, on, subs)
  BY <1>1, <1>4, <1>5 DEF StInv, StBlocking, StRunning
<1>9. StInv(r, src, on, subs)
  BY <1>1, <1>4, <1>6, <1>7, <1>8 DEF StInv
<1>10. /\ StInv(r, src, on, subs) /\ ~ r.c.isRunning
       /\ AtMost(st.output.value, r.output.value)
  BY <1>1, <1>4, <1>5, <1>9 DEF StRunning
<1> QED
  BY <1>10 DEF r, s2

(* A call settles: what was told, and what comes of the queue. *)
LEMMA ResolvesBlockingComes ==
    ASSUME DerivedInv, kind \in {"blocking", "throttling"}, NEW d \in derives
    PROVE  Comes(Derived!ResolvesBlocking(d, source), source, subscribed, subscriptions)
<1> DEFINE st == Derived!Current
           gone == Without(st, d)
           ended == Derived!DeriveEnds(gone)
           shown == Derived!Told(ended, d, source)
           r == Derived!ResolvesBlocking(d, source)
<1> SUFFICES Comes(r, source, subscribed, subscriptions)
  OBVIOUS
<1>1. /\ st \in DerivedStates /\ st.output = output /\ st.derives = derives /\ st.c = closure
      /\ StAwaits(st) /\ StInv(st, source, subscribed, subscriptions)
      /\ AtMost(output.value, output.value) /\ DerivedTypes
  BY DerivedNow
<1>2. subscribed \in BOOLEAN /\ subscriptions \in Nat /\ source \in DerivedSources
  BY <1>1 DEF DerivedTypes
<1>3. /\ Derived!IsOfSubscription(d) => r = Derived!AdvanceQueue(shown)
      /\ ~ Derived!IsOfSubscription(d) => r = gone
  <2> HIDE DEF st
  <2>1. [st EXCEPT !.derives = @ \ {d}] = gone
    BY DEF Without
  <2> HIDE DEF gone
  <2> QED
    BY <2>1 DEF Derived!ResolvesBlocking, st
<1> HIDE DEF st
<1>4. CASE ~ Derived!IsOfSubscription(d)
  <2>1. gone.c = st.c /\ gone.output = st.output
    BY <1>1, CallGoes
  <2>2. StInv(gone, source, subscribed, subscriptions)
    BY <1>1, <1>2, CallGoesInv
  <2> HIDE DEF gone, r
  <2> QED
    BY <1>1, <1>3, <1>4, <2>1, <2>2 DEF Comes, StAwaits
<1>5. CASE Derived!IsOfSubscription(d)
  <2>1. subscribed /\ d.subscription = subscriptions /\ d \in st.derives
    BY <1>1, <1>5 DEF Derived!IsOfSubscription
  <2>2. /\ StInv(ended, source, subscribed, subscriptions) /\ ~ ended.c.isRunning
        /\ ended.output = st.output
        /\ ended.c.freshnessGeneration = st.c.freshnessGeneration
    <3>1. Over(st, ended, d, source, subscribed, subscriptions)
      BY <1>1, <1>2, <2>1, DeriveIsOver
    <3> QED
      BY <3>1 DEF Over
  <2>3. /\ StInv(shown, source, subscribed, subscriptions) /\ ~ shown.c.isRunning
        /\ AtMost(st.output.value, shown.output.value)
    <3>1. CASE d.generation # st.c.freshnessGeneration
      <4>1. shown = ended
        BY <2>2, <3>1 DEF Derived!Told
      <4> HIDE DEF shown, ended
      <4>2. /\ StInv(shown, source, subscribed, subscriptions) /\ ~ shown.c.isRunning
            /\ AtMost(st.output.value, shown.output.value)
        BY <1>1, <2>2, <4>1
      <4> QED
        BY <4>2 DEF shown, ended
    <3>2. CASE d.generation = st.c.freshnessGeneration
      <4>1. shown = Derived!SetDownstream(ended, d.values, d.epoch)
        BY <2>2, <3>2 DEF Derived!Told
      <4>2. LET t == Derived!SetDownstream(ended, d.values, d.epoch)
            IN  /\ StInv(t, source, subscribed, subscriptions) /\ ~ t.c.isRunning
                /\ AtMost(st.output.value, t.output.value)
        BY <1>1, <1>2, <2>1, <3>2, ValueIsTold
      <4> HIDE DEF shown, ended
      <4>3. /\ StInv(shown, source, subscribed, subscriptions) /\ ~ shown.c.isRunning
            /\ AtMost(st.output.value, shown.output.value)
        BY <4>1, <4>2
      <4> QED
        BY <4>3 DEF shown, ended
    <3> QED
      BY <3>1, <3>2
  <2> HIDE DEF shown
  <2>4. r = Derived!AdvanceQueue(shown)
    BY <1>3, <1>5
  <2> HIDE DEF r
  <2>5. /\ StInv(r, source, subscribed, subscriptions) /\ StAwaits(r)
        /\ r.output = shown.output
    BY <1>2, <2>3, <2>4, ThrottleAdvances
  <2>6. Comes(r, source, subscribed, subscriptions)
    BY <1>1, <2>3, <2>5 DEF Comes
  <2> QED
    BY <2>6 DEF r
<1> QED
  BY <1>4, <1>5

LEMMA DerivedResolves ==
    ASSUME DerivedInv, Derived!DeriverResolves
    PROVE  DerivedStep
<1>1. PICK d \in derives : \E now \in Derived!Reaction(d) :
        /\ source' = now
        /\ Derived!Becomes(IF Derived!Blocking THEN Derived!ResolvesBlocking(d, now)
                           ELSE Derived!ResolvesAsync(d))
        /\ kind' = kind /\ subscriptions' = subscriptions /\ subscribed' = subscribed
  BY DEF Derived!DeriverResolves
<1>2. Derived!Reaction(d) = {source}
  BY DEF Derived!Reaction
<1>3. kind' = kind /\ subscriptions' = subscriptions /\ subscribed' = subscribed /\ source' = source
  BY <1>1, <1>2
<1>4. /\ Derived!Blocking => Derived!Becomes(Derived!ResolvesBlocking(d, source))
      /\ ~ Derived!Blocking => Derived!Becomes(Derived!ResolvesAsync(d))
  BY <1>1, <1>2
<1>5. DerivedTypes /\ DerivedTypes'
  BY <1>3, DerivedNow DEF DerivedTypes
<1>6. CASE kind = "deriveFrom"
  <2>1. derives = {}
    BY <1>6, DerivedNow DEF StInv
  <2> QED
    BY <2>1
<1>7. CASE kind = "async"
  <2>1. Comes(Derived!ResolvesAsync(d), source, subscribed, subscriptions)
    BY <1>7, ResolvesAsyncComes
  <2>2. PICK r : r = Derived!ResolvesAsync(d)
    OBVIOUS
  <2>3. Derived!Becomes(r) /\ UNCHANGED kind
    BY <1>3, <1>4, <1>7, <2>2 DEF Derived!Blocking
  <2>4. Comes(r, source', subscribed', subscriptions')
    BY <1>3, <2>1, <2>2
  <2> QED
    BY <1>5, <2>3, <2>4, Became
<1>8. CASE kind \in {"blocking", "throttling"}
  <2>1. Comes(Derived!ResolvesBlocking(d, source), source, subscribed, subscriptions)
    BY <1>8, ResolvesBlockingComes
  <2>2. PICK r : r = Derived!ResolvesBlocking(d, source)
    OBVIOUS
  <2>3. Derived!Becomes(r) /\ UNCHANGED kind
    BY <1>3, <1>4, <1>8, <2>2 DEF Derived!Blocking
  <2>4. Comes(r, source', subscribed', subscriptions')
    BY <1>3, <2>1, <2>2
  <2> QED
    BY <1>5, <2>3, <2>4, Became
<1> QED
  BY <1>5, <1>6, <1>7, <1>8 DEF DerivedTypes

LEMMA DerivedRejects ==
    ASSUME DerivedInv, Derived!DeriverRejects
    PROVE  DerivedStep
<1> DEFINE st == Derived!Current
<1>1. PICK d \in derives :
        /\ Derived!Becomes(IF Derived!Blocking /\ Derived!IsOfSubscription(d)
                           THEN Derived!AdvanceQueue(Derived!DeriveEnds(Without(st, d)))
                           ELSE Without(st, d))
        /\ kind' = kind /\ source' = source
        /\ subscriptions' = subscriptions /\ subscribed' = subscribed
  BY DEF Derived!DeriverRejects, Without
<1>2. /\ st \in DerivedStates /\ st.output = output /\ st.derives = derives
      /\ StAwaits(st) /\ StInv(st, source, subscribed, subscriptions)
      /\ AtMost(output.value, output.value) /\ DerivedTypes /\ kind \in Derived!Kinds
  BY DerivedNow
<1>3. /\ subscribed \in BOOLEAN /\ subscriptions \in Nat /\ source \in DerivedSources
      /\ DerivedTypes'
  BY <1>1, <1>2 DEF DerivedTypes
<1>4. derives = {} \/ kind # "deriveFrom"
  BY <1>2 DEF StInv
<1> HIDE DEF st
<1>5. PICK r : /\ Derived!Becomes(r) /\ UNCHANGED kind
               /\ Comes(r, source', subscribed', subscriptions')
  <2>1. CASE ~ (Derived!Blocking /\ Derived!IsOfSubscription(d))
    <3>1. PICK r : r = Without(st, d)
      OBVIOUS
    <3>2. Without(st, d).c = st.c /\ Without(st, d).output = st.output
      BY <1>2, CallGoes
    <3>3. StInv(Without(st, d), source, subscribed, subscriptions)
      BY <1>2, <1>3, CallGoesInv
    <3>4. Comes(r, source, subscribed, subscriptions)
      BY <1>2, <1>4, <3>1, <3>2, <3>3 DEF Comes, StAwaits
    <3>5. Derived!Becomes(r) /\ UNCHANGED kind
      BY <1>1, <2>1, <3>1
    <3>6. Comes(r, source', subscribed', subscriptions')
      BY <1>1, <3>4
    <3> QED
      BY <3>5, <3>6
  <2>2. CASE Derived!Blocking /\ Derived!IsOfSubscription(d)
    <3> DEFINE ended == Derived!DeriveEnds(Without(st, d))
    <3>1. PICK r : r = Derived!AdvanceQueue(ended)
      OBVIOUS
    <3>2. subscribed /\ d.subscription = subscriptions /\ d \in st.derives
          /\ kind \in {"blocking", "throttling"}
      BY <1>2, <2>2 DEF Derived!IsOfSubscription, Derived!Blocking
    <3>3. Over(st, ended, d, source, subscribed, subscriptions)
      BY <1>2, <1>3, <3>2, DeriveIsOver
    <3>4. Derived!Becomes(r) /\ UNCHANGED kind
      BY <1>1, <2>2, <3>1
    <3> HIDE DEF ended
    <3>5. StInv(r, source, subscribed, subscriptions) /\ StAwaits(r) /\ r.output = ended.output
      <4>1. StInv(ended, source, subscribed, subscriptions) /\ ~ ended.c.isRunning
        BY <3>3 DEF Over
      <4> QED
        BY <1>3, <3>1, <3>2, <4>1, ThrottleAdvances
    <3>6. Comes(r, source, subscribed, subscriptions)
      BY <1>2, <3>2, <3>3, <3>5 DEF Comes, Over
    <3>7. Comes(r, source', subscribed', subscriptions')
      BY <1>1, <3>6
    <3> QED
      BY <3>4, <3>7
  <2> QED
    BY <2>1, <2>2
<1> QED
  BY <1>3, <1>5, Became

LEMMA DerivedThrottlePasses ==
    ASSUME DerivedInv, Derived!ThrottlePasses
    PROVE  DerivedStep
<1> DEFINE st == Derived!Current
           c == [st.c EXCEPT !.recent = FALSE]
           r == [st EXCEPT !.c = c]
<1>1. /\ st \in DerivedStates /\ st.output = output /\ st.derives = derives
      /\ st.c = closure /\ st.epoch = epoch
      /\ StInv(st, source, subscribed, subscriptions) /\ StAwaits(st)
      /\ AtMost(output.value, output.value) /\ DerivedTypes /\ kind \in Derived!Kinds
  BY DerivedNow
<1>2. /\ kind = "throttling" /\ closure' = c /\ output' = output /\ derives' = derives
      /\ epoch' = epoch /\ kind' = kind /\ source' = source
      /\ subscriptions' = subscriptions /\ subscribed' = subscribed
  BY <1>1 DEF Derived!ThrottlePasses
<1> HIDE DEF st
<1>3. /\ c \in DerivedClosures /\ c.isRunning = st.c.isRunning /\ c.pending = st.c.pending
      /\ c.timer = st.c.timer /\ c.freshnessGeneration = st.c.freshnessGeneration
      /\ c.lastIssuedUpdateId = st.c.lastIssuedUpdateId
  BY <1>1, DerivedFields DEF DerivedClosures
<1> HIDE DEF c
<1>4. /\ r \in DerivedStates /\ r.c = c /\ r.derives = st.derives /\ r.output = st.output
      /\ r.epoch = st.epoch
  BY <1>1, <1>3, StateWithClosure
<1> HIDE DEF r
<1>5. StBlocking(r, source, subscribed, subscriptions)
  BY <1>1, <1>2, <1>3, <1>4 DEF StInv, StBlocking, StRunning
<1>6. StInv(r, source, subscribed, subscriptions)
  BY <1>1, <1>2, <1>3, <1>4, <1>5 DEF StInv, StBounds, StFresh
<1>7. Comes(r, source, subscribed, subscriptions)
  BY <1>1, <1>2, <1>3, <1>4, <1>6 DEF Comes, StAwaits
<1>8. PICK q : q = r
  OBVIOUS
<1>9. Derived!Becomes(q) /\ UNCHANGED kind
  BY <1>1, <1>2, <1>4, <1>8 DEF Derived!Becomes
<1>10. Comes(q, source', subscribed', subscriptions')
  BY <1>2, <1>7, <1>8
<1>11. DerivedTypes'
  BY <1>1, <1>2 DEF DerivedTypes
<1> QED
  BY <1>9, <1>10, <1>11, Became

LEMMA DerivedTimerFires ==
    ASSUME DerivedInv, Derived!TimerFires
    PROVE  DerivedStep
<1> DEFINE st == Derived!Current
<1>1. /\ st \in DerivedStates /\ st.output = output /\ st.c = closure
      /\ StInv(st, source, subscribed, subscriptions) /\ StAwaits(st)
      /\ AtMost(output.value, output.value) /\ DerivedTypes /\ kind \in Derived!Kinds
  BY DerivedNow
<1>2. /\ closure.timer /\ Derived!Becomes(Derived!ProcessPending(st))
      /\ kind' = kind /\ source' = source
      /\ subscriptions' = subscriptions /\ subscribed' = subscribed
  BY DEF Derived!TimerFires
<1>3. PICK r : r = Derived!ProcessPending(st)
  OBVIOUS
<1>4. /\ subscribed \in BOOLEAN /\ subscriptions \in Nat /\ source \in DerivedSources
      /\ DerivedTypes'
  BY <1>1, <1>2 DEF DerivedTypes
<1>5. Derived!Becomes(r) /\ UNCHANGED kind
  BY <1>2, <1>3
<1> HIDE DEF st
<1>6. Comes(r, source, subscribed, subscriptions)
  <2>1. kind \in {"blocking", "throttling"} /\ ~ st.c.isRunning
    BY <1>1, <1>2 DEF StInv, StBlocking, StAwaits, Derived!Kinds
  <2>2. StInv(r, source, subscribed, subscriptions) /\ StAwaits(r) /\ r.output = st.output
    BY <1>1, <1>3, <1>4, <2>1, PendingIsProcessed
  <2> QED
    BY <1>1, <2>1, <2>2 DEF Comes
<1>7. Comes(r, source', subscribed', subscriptions')
  BY <1>2, <1>6
<1> QED
  BY <1>4, <1>5, <1>7, Became

LEMMA DerivedInvKept ==
    ASSUME DerivedInv, [Derived!Next]_derivedVars
    PROVE  DerivedInv' /\ [AtMost(output.value, output'.value)]_derivedVars
<1>1. CASE Derived!Next
  <2>1. DerivedStep
    BY <1>1, DerivedSourceSets, DerivedSourceRefreshes, DerivedSourceBecomesStale,
       DerivedSubscribe, DerivedUnsubscribe, DerivedResolves, DerivedRejects,
       DerivedThrottlePasses, DerivedTimerFires DEF Derived!Next
  <2> QED
    BY <2>1 DEF DerivedStep
<1>2. CASE UNCHANGED derivedVars
  <2>1. /\ kind' = kind /\ source' = source /\ subscriptions' = subscriptions
        /\ subscribed' = subscribed /\ output' = output /\ closure' = closure
        /\ derives' = derives /\ epoch' = epoch
    BY <1>2 DEF derivedVars
  <2>2. Derived!Current' = Derived!Current
    BY <2>1 DEF Derived!Current
  <2>3. StInv(Derived!Current, source, subscribed, subscriptions)' /\ StAwaits(Derived!Current)'
    BY <2>1, <2>2 DEF DerivedInv, StInv, StAwaits
  <2>4. DerivedInv'
    BY <2>1, <2>3 DEF DerivedInv
  <2> QED
    BY <1>2, <2>4
<1> QED
  BY <1>1, <1>2

(* The instance's cardinality is the library's. *)
LEMMA DerivedCardinality == ASSUME NEW S PROVE Derived!Cardinality(S) = Cardinality(S)
BY DEF Derived!Cardinality, Cardinality

LEMMA DerivedInvHolds ==
    DerivedInv => Derived!FreshIsSinceStale /\ Derived!OneDeriveAtATime
<1> SUFFICES ASSUME DerivedInv PROVE Derived!FreshIsSinceStale /\ Derived!OneDeriveAtATime
  OBVIOUS
<1> DEFINE st == Derived!Current
<1>1. /\ st.output = output /\ st.derives = derives /\ st.epoch = epoch
      /\ StInv(st, source, subscribed, subscriptions) /\ kind \in Derived!Kinds
  BY DerivedNow
<1> HIDE DEF st
<1>2. Derived!FreshIsSinceStale
  <2>1. kind = "deriveFrom" /\ ~ output.stale => output.value = Derived!Values
    BY DEF DerivedInv, Derived!Values, ValuesOf
  <2>2. ~ output.stale => subscribed /\ Fresh(source) /\ output.from = epoch
    BY <1>1 DEF StInv, StFresh
  <2> QED
    BY <2>1, <2>2 DEF Derived!FreshIsSinceStale, Derived!AllFresh, Fresh
<1>3. Derived!OneDeriveAtATime
  <2> DEFINE S == {d \in derives : Derived!IsOfSubscription(d)}
  <2>1. SUFFICES ASSUME Derived!Blocking PROVE Cardinality(S) <= 1
    BY DerivedCardinality DEF Derived!OneDeriveAtATime
  <2>2. \A d1, d2 \in S : d1 = d2
    BY <1>1, <2>1 DEF StInv, StBlocking, Derived!IsOfSubscription, Derived!Blocking
  <2>3. CASE S = {}
    BY <2>3, FS_EmptySet
  <2>4. CASE S # {}
    <3>1. PICK d : S = {d}
      BY <2>2, <2>4
    <3> HIDE DEF S
    <3> QED
      BY <3>1, FS_Singleton
  <2> QED
    BY <2>3, <2>4
<1> QED
  BY <1>2, <1>3

-----------------------------------------------------------------------------
(* The theorems.                                                           *)

(* (ToolUseSession.ts, PluginSelfRegistrationHost.ts).                     *)
THEOREM ToolCallsAgreeHolds == FairSessions => []ToolCallsAgree
<1>1. InitSessions => ToolsInv
  BY ToolsInitInv DEF InitSessions
<1>2. ToolsInv /\ [NextSessions]_all => ToolsInv'
  BY StepOfComponent, ToolsInvKept
<1>3. ToolsInv => ToolCallsAgree
  BY ToolsInvHolds
<1> QED
  BY <1>1, <1>2, <1>3, PTL DEF FairSessions

(* was stale, by one derive at a time (LazySignal.ts).                     *)
THEOREM DerivedIsCurrentHolds == FairSessions => []DerivedIsCurrent
<1>1. InitSessions => DerivedInv
  BY DerivedInitInv DEF InitSessions
<1>2. DerivedInv /\ [NextSessions]_all => DerivedInv'
  BY StepOfComponent, DerivedInvKept
<1>3. DerivedInv => DerivedIsCurrent
  BY DerivedInvHolds DEF DerivedIsCurrent
<1> QED
  BY <1>1, <1>2, <1>3, PTL DEF FairSessions

(* served in the order of their priority and arrival (WaitQueue.ts).       *)
THEOREM NothingIsUndoneHolds == FairSessions => NothingIsUndone
<1>1. InitSessions => HostsInv /\ AwaitedInv /\ AwaitedComing /\ DerivedInv /\ QueueInv
  BY HostsInitInv, AwaitedInitInv, AwaitedInitComing, DerivedInitInv, QueueInitInv
  DEF InitSessions
<1>2. HostsInv /\ [NextSessions]_all => HostsInv' /\ [HostsVerdictStays]_hostsVars
  BY StepOfComponent, HostsInvKept
<1>3. AwaitedInv /\ AwaitedComing /\ [NextSessions]_all =>
        AwaitedInv' /\ AwaitedComing' /\ [AwaitedReasonWins]_awaitedVars
  BY StepOfComponent, AwaitedInvKept, AwaitedComingKept
<1>4. DerivedInv /\ [NextSessions]_all =>
        DerivedInv' /\ [AtMost(output.value, output'.value)]_derivedVars
  BY StepOfComponent, DerivedInvKept
<1>5. QueueInv /\ [NextSessions]_all => QueueInv' /\ [QueueServesInOrder]_waitQueueVars
  BY StepOfComponent, QueueInvKept
<1>6. FairSessions => Hosts!AbortIsFinal
  <2>1. [HostsVerdictStays]_hostsVars =>
          [\A t \in Tasks : verdict[t] = "AbortError" => verdict'[t] = "AbortError"]_(Hosts!vars)
    BY DEF HostsVerdictStays, hostsVars, Hosts!vars
  <2> QED
    BY <1>1, <1>2, <2>1, PTL DEF FairSessions, Hosts!AbortIsFinal
<1>7. FairSessions => Awaited!ReasonOfAbortWins
  <2>1. [AwaitedReasonWins]_awaitedVars =>
          [promise = "pending" /\ awaitedAborted /\ promise' # promise
             => promise' \in {"resolved", "reason"} \/ method = "downloadArtifact"]_(Awaited!vars)
    BY DEF AwaitedReasonWins, awaitedVars, Awaited!vars
  <2> QED
    BY <1>1, <1>3, <2>1, PTL DEF FairSessions, Awaited!ReasonOfAbortWins
<1>8. FairSessions => Derived!NeverBackwards
  <2>1. [AtMost(output.value, output'.value)]_derivedVars =>
          [\A s \in Sources : output'.value[s] >= output.value[s]]_(Derived!vars)
    BY DEF AtMost, derivedVars, Derived!vars
  <2> QED
    BY <1>1, <1>4, <2>1, PTL DEF FairSessions, Derived!NeverBackwards
<1>9. FairSessions => Queue!ServedInOrder
  <2>1. [QueueServesInOrder]_waitQueueVars =>
          [\A p, q \in Queue!Entered :
             pagerPromise[p] = "pending" /\ pagerPromise'[p] = "resolved"
             /\ pagerPromise[q] = "pending" /\ pagerPromise'[q] = "pending"
               => priority[p] < priority[q] \/ (priority[p] = priority[q] /\ p < q)]_(Queue!vars)
    BY DEF QueueServesInOrder, QueueServes, Before, Queue!Entered, waitQueueVars, Queue!vars
  <2> QED
    BY <1>1, <1>5, <2>1, PTL DEF FairSessions, Queue!ServedInOrder
<1> QED
  BY <1>6, <1>7, <1>8, <1>9 DEF NothingIsUndone
=============================================================================
