------------------------------ MODULE PartsProofs ------------------------------
(***************************************************************************)
(* Proofs about the parts without a protocol between them.                 *)
(*                                                                         *)
(* CallsAreSecured holds for any threads that share a bus attachment.      *)
(* NormalizePolicy keeps the rights of any list of rules: every insertion  *)
(* and every merge is about the entry with the same key, because a search  *)
(* that finds something finds its own key even when the comparison is not  *)
(* an order.  Policies of the command line say what was asked for.         *)
(* OnlyShownRights rests on the exactness of the difference of two         *)
(* manifests, and on manifests that are whole while Util can serialise.    *)
(***************************************************************************)
EXTENDS Manifests, Policies, Sessions, TLAPS

--------------------------------------------------------------------------------
(* Sessions with remote applications *)

\* The thread that has a session is the one with the lock, and it has the bus for itself.
OneSession ==
  /\ \A t \in Callers : proxy[t].pc = "idle" <=> lock # t
  /\ ~manager => lock = Nobody

\* The bus has the settings of the session there is, and otherwise no listener of a claim.
BusOfSession ==
  /\ \A t \in Callers : lock = t => bus = Settings(t)
  /\ lock = Nobody => bus.listener \notin Callers
  /\ \A t \in Callers : proxy[t].type = "psk" => proxy[t].use = "claim"

\* Between two calls it is known that the connection has to be secured again.
ChangeIsKnown ==
  \A t \in Callers :
    /\ proxy[t].pc \in {"join", "open"} /\ proxy[t].conn = "changed" => proxy[t].needReAuth
    /\ proxy[t].pc = "call" => proxy[t].conn # "changed"

IInv == SessionTypeOK /\ OneSession /\ BusOfSession /\ ChangeIsKnown

\* What IInv says is enough for the property.
LEMMA SecuredByInv == IInv => CallsAreSecured
<1> SUFFICES ASSUME IInv PROVE CallsAreSecured
  OBVIOUS
<1>1. ASSUME NEW t \in Callers, proxy[t].pc = "call"
      PROVE  bus = Settings(t) /\ proxy[t].conn # "changed"
  BY <1>1 DEF IInv, OneSession, BusOfSession, ChangeIsKnown
<1>2. ASSUME bus.listener \in Callers
      PROVE  proxy[bus.listener].use = "claim" /\ proxy[bus.listener].pc # "idle"
  <2>1. PICK t \in Callers : lock = t
    BY <1>2 DEF IInv, SessionTypeOK, BusOfSession
  <2>2. bus = Settings(t) /\ bus.listener = t /\ proxy[t].type = "psk"
    BY <1>2, <2>1, SessionsAssumption DEF IInv, BusOfSession, Settings
  <2>3. QED
    BY <2>1, <2>2 DEF IInv, OneSession, BusOfSession
<1>3. QED
  BY <1>1, <1>2 DEF CallsAreSecured

LEMMA InitInv == SessionInit => IInv
<1> SUFFICES ASSUME SessionInit PROVE IInv
  OBVIOUS
<1>1. SessionTypeOK
  BY DEF SessionInit, SessionTypeOK, NoProxy, Off, Uses, SessionTypes, Connections
<1>2. OneSession /\ BusOfSession /\ ChangeIsKnown
  BY SessionsAssumption DEF SessionInit, OneSession, BusOfSession, ChangeIsKnown, NoProxy, Off, Connections
<1>3. QED
  BY <1>1, <1>2 DEF IInv

\* A step within a session keeps the invariant if it keeps track of a changed configuration.
LEMMA SessionGoesOn ==
  ASSUME IInv, NEW t \in Callers, proxy[t].pc # "idle",
         NEW pc \in {"open", "call", "done"}, NEW needReAuth \in BOOLEAN, NEW conn \in Connections,
         pc = "open" /\ conn = "changed" => needReAuth, pc = "call" => conn # "changed",
         SessionStep(t, pc, needReAuth, conn)
  PROVE  IInv'
<1> USE DEF IInv, SessionStep
<1>1. SessionTypeOK'
  BY DEF SessionTypeOK
<1>2. OneSession'
  BY DEF OneSession, SessionTypeOK
<1>3. BusOfSession'
  BY DEF BusOfSession, Settings, SessionTypeOK
<1>4. ChangeIsKnown'
  BY DEF ChangeIsKnown, SessionTypeOK
<1>5. QED
  BY <1>1, <1>2, <1>3, <1>4

\* Every step of every thread keeps the invariant.
LEMMA StepInv == IInv /\ [SessionNext]_svars => IInv'
<1> SUFFICES ASSUME IInv, [SessionNext]_svars PROVE IInv'
  OBVIOUS
<1> USE SessionsAssumption DEF IInv
<1>1. CASE CreateManager
  BY <1>1 DEF CreateManager, SessionTypeOK, OneSession, BusOfSession, ChangeIsKnown, Settings, SessionTypes
<1>2. CASE DestroyManager
  <2>1. lock = Nobody
    BY <1>2 DEF DestroyManager, SessionTypeOK, OneSession
  <2>2. QED
    BY <1>2, <2>1 DEF DestroyManager, SessionTypeOK, OneSession, BusOfSession, ChangeIsKnown, Settings, Off
<1>3. ASSUME NEW t \in Callers, NEW use \in Uses, NEW type \in TypesOf(use), GetProxyObject(t, use, type)
      PROVE  IInv'
  <2>1. type \in SessionTypes /\ (type = "psk" => use = "claim")
    BY <1>3 DEF TypesOf, SessionTypes, Uses
  <2>2. proxy' = [proxy EXCEPT ![t] = [pc |-> "join", use |-> use, type |-> type,
                                       needReAuth |-> FALSE, conn |-> "secured"]]
    BY <1>3 DEF GetProxyObject
  <2>3. bus' = [keyx |-> type, listener |-> IF type = "psk" THEN t ELSE Default]
    BY <1>3, <2>2 DEF GetProxyObject, Settings, SessionTypeOK
  <2>4. lock' = t /\ manager' = manager /\ manager /\ lock = Nobody
    BY <1>3 DEF GetProxyObject
  <2>5. SessionTypeOK'
    BY <2>1, <2>2, <2>3, <2>4 DEF SessionTypeOK, SessionTypes, Connections
  <2>6. OneSession'
    BY <2>2, <2>4 DEF OneSession, SessionTypeOK
  <2>7. BusOfSession'
    BY <2>1, <2>2, <2>3, <2>4 DEF BusOfSession, SessionTypeOK, Settings
  <2>8. ChangeIsKnown'
    BY <2>2 DEF ChangeIsKnown, SessionTypeOK
  <2>9. QED
    BY <2>5, <2>6, <2>7, <2>8
<1>4. ASSUME NEW t \in Callers, ReleaseProxyObject(t)
      PROVE  IInv'
  <2>1. lock = t /\ lock' = Nobody /\ manager' = manager
    BY <1>4 DEF ReleaseProxyObject, OneSession
  <2>2. proxy' = [proxy EXCEPT ![t] = NoProxy]
    BY <1>4 DEF ReleaseProxyObject
  <2>3. bus' \in [keyx : SessionTypes \cup {"none"}, listener : {Default}]
    <3>1. bus = Settings(t)
      BY <2>1 DEF BusOfSession
    <3>2. proxy[t].use # "claim" => bus.listener = Default
      BY <3>1 DEF BusOfSession, Settings
    <3>3. bus' = IF proxy[t].use = "claim" THEN Reset ELSE bus
      BY <1>4 DEF ReleaseProxyObject
    <3>4. QED
      BY <3>1, <3>2, <3>3 DEF SessionTypeOK, SessionTypes, Reset, Settings
  <2>4. SessionTypeOK'
    BY <2>1, <2>2, <2>3 DEF SessionTypeOK, NoProxy, SessionTypes, Uses, Connections
  <2>5. OneSession'
    BY <2>1, <2>2 DEF OneSession, SessionTypeOK, NoProxy
  <2>6. BusOfSession'
    BY <2>1, <2>2, <2>3 DEF BusOfSession, SessionTypeOK, NoProxy
  <2>7. ChangeIsKnown'
    BY <2>2 DEF ChangeIsKnown, SessionTypeOK, NoProxy
  <2>8. QED
    BY <2>4, <2>5, <2>6, <2>7
<1>5. ASSUME NEW t \in Callers, JoinSession(t)
      PROVE  IInv'
  <2>1. SessionStep(t, "open", proxy[t].needReAuth, proxy[t].conn)
    BY <1>5 DEF JoinSession
  <2>2. proxy[t].needReAuth \in BOOLEAN /\ proxy[t].conn \in Connections
    BY DEF SessionTypeOK
  <2>3. QED
    BY <1>5, <2>1, <2>2, SessionGoesOn DEF JoinSession, ChangeIsKnown, SessionTypeOK
<1>6. ASSUME NEW t \in Callers, CheckReAuthenticate(t)
      PROVE  IInv'
  <2>1. PICK conn \in (IF proxy[t].needReAuth THEN {"secured", "refused"} ELSE {proxy[t].conn}) :
          SessionStep(t, "call", FALSE, conn)
    BY <1>6 DEF CheckReAuthenticate
  <2>2. FALSE \in BOOLEAN /\ conn \in Connections /\ conn # "changed"
    BY <1>6, <2>1 DEF CheckReAuthenticate, ChangeIsKnown, SessionTypeOK, Connections
  <2>3. QED
    BY <1>6, <2>1, <2>2, SessionGoesOn DEF CheckReAuthenticate, ChangeIsKnown, SessionTypeOK
<1>7. ASSUME NEW t \in Callers, Reads(t)
      PROVE  IInv'
  <2>1. SessionStep(t, "open", proxy[t].needReAuth, proxy[t].conn)
    BY <1>7 DEF Reads
  <2>2. proxy[t].needReAuth \in BOOLEAN /\ proxy[t].conn \in Connections
    BY DEF SessionTypeOK
  <2>3. QED
    BY <1>7, <2>1, <2>2, SessionGoesOn DEF Reads, ChangeIsKnown, SessionTypeOK
<1>8. ASSUME NEW t \in Callers, Changes(t)
      PROVE  IInv'
  <2>1. SessionStep(t, "open", TRUE, "changed")
    BY <1>8 DEF Changes
  <2>2. TRUE \in BOOLEAN /\ "changed" \in Connections
    BY DEF Connections
  <2>3. QED
    BY <1>8, <2>1, <2>2, SessionGoesOn DEF Changes, ChangeIsKnown, SessionTypeOK
<1>9. ASSUME NEW t \in Callers, ClaimsOrResets(t)
      PROVE  IInv'
  <2>1. SessionStep(t, "done", proxy[t].needReAuth, "changed")
    BY <1>9 DEF ClaimsOrResets
  <2>2. proxy[t].needReAuth \in BOOLEAN /\ "changed" \in Connections
    BY DEF SessionTypeOK, Connections
  <2>3. QED
    BY <1>9, <2>1, <2>2, SessionGoesOn DEF ClaimsOrResets, ChangeIsKnown, SessionTypeOK
<1>10. ASSUME NEW t \in Callers, CallFails(t)
      PROVE  IInv'
  <2>1. PICK conn \in Connections : SessionStep(t, "done", proxy[t].needReAuth, conn)
    BY <1>10 DEF CallFails, SessionTypeOK, Connections
  <2>2. proxy[t].needReAuth \in BOOLEAN
    BY DEF SessionTypeOK
  <2>3. QED
    BY <1>10, <2>1, <2>2, SessionGoesOn DEF CallFails
<1>11. CASE UNCHANGED svars
  BY <1>11 DEF svars, SessionTypeOK, OneSession, BusOfSession, ChangeIsKnown, Settings
<1>12. QED
  BY <1>1, <1>2, <1>3, <1>4, <1>5, <1>6, <1>7, <1>8, <1>9, <1>10, <1>11 DEF SessionNext, Session

\* The settings of the bus, the lock and the sessions have their types: EnablePeerSecurity
\* is called with a key exchange and a listener of this manager or of a claim.
THEOREM TypeCorrect == SessionSpec => []SessionTypeOK
<1>1. IInv => SessionTypeOK
  BY DEF IInv
<1>2. QED
  BY <1>1, InitInv, StepInv, PTL DEF SessionSpec

\* For any number of threads: a remote call is made with the settings its own thread asked
\* for, never after a change without securing the connection again having been tried, and
\* the listener of a claim goes with it.
THEOREM EveryCallIsSecured == SessionSpec => []CallsAreSecured
<1>1. QED
  BY SecuredByInv, InitInv, StepInv, PTL DEF SessionSpec

--------------------------------------------------------------------------------
(* Sequences *)

\* Where the elements are after an insertion.
LEMMA InsertedAt ==
  ASSUME NEW S, NEW s \in Seq(S), NEW p \in 1 .. Len(s) + 1, NEW e \in S
  PROVE  /\ InsertAt(s, p, e) \in Seq(S)
         /\ Len(InsertAt(s, p, e)) = Len(s) + 1
         /\ InsertAt(s, p, e)[p] = e
         /\ \A i \in 1 .. Len(s) : i < p => InsertAt(s, p, e)[i] = s[i]
         /\ \A i \in 1 .. Len(s) : i >= p => InsertAt(s, p, e)[i + 1] = s[i]
         /\ \A i \in 1 .. Len(s) + 1 :
              \/ i < p /\ i \in 1 .. Len(s) /\ InsertAt(s, p, e)[i] = s[i]
              \/ i = p
              \/ i > p /\ i - 1 \in 1 .. Len(s) /\ InsertAt(s, p, e)[i] = s[i - 1]
<1> DEFINE l == SubSeq(s, 1, p - 1)
           r == SubSeq(s, p, Len(s))
<1>1. l \in Seq(S) /\ Len(l) = p - 1 /\ \A i \in 1 .. p - 1 : l[i] = s[i]
  OBVIOUS
<1>2. r \in Seq(S) /\ Len(r) = Len(s) - p + 1 /\ \A i \in 1 .. Len(s) - p + 1 : r[i] = s[p + i - 1]
  OBVIOUS
<1>3. InsertAt(s, p, e) = (l \o <<e>>) \o r
  BY DEF InsertAt
<1> DEFINE m == l \o <<e>>
<1> HIDE DEF l, r
<1>4. m \in Seq(S) /\ Len(m) = p /\ m[p] = e /\ \A i \in 1 .. p - 1 : m[i] = s[i]
  <2>1. l \in Seq(S) /\ Len(l) = p - 1
    BY <1>1
  <2>2. /\ m \in Seq(S) /\ Len(m) = Len(l) + 1 /\ m[Len(l) + 1] = e
        /\ \A i \in 1 .. Len(l) : m[i] = l[i]
    BY <2>1
  <2> HIDE DEF m
  <2> QED
    BY <1>1, <2>1, <2>2
<1>5. InsertAt(s, p, e) = m \o r
  BY <1>3
<1> HIDE DEF m
<1>6. InsertAt(s, p, e) \in Seq(S) /\ Len(InsertAt(s, p, e)) = Len(s) + 1
  BY <1>2, <1>4, <1>5
<1>7. \A i \in 1 .. p : InsertAt(s, p, e)[i] = m[i]
  BY <1>2, <1>4, <1>5
<1>8. \A i \in 1 .. Len(s) - p + 1 : InsertAt(s, p, e)[p + i] = r[i]
  BY <1>2, <1>4, <1>5
<1>9. ASSUME NEW i \in 1 .. Len(s), i >= p PROVE InsertAt(s, p, e)[i + 1] = s[i]
  <2>1. i - p + 1 \in 1 .. Len(s) - p + 1
    BY <1>9
  <2>2. InsertAt(s, p, e)[p + (i - p + 1)] = r[i - p + 1]
    BY <1>8, <2>1
  <2>3. r[i - p + 1] = s[p + (i - p + 1) - 1]
    BY <1>2, <2>1
  <2> QED
    BY <1>9, <2>2, <2>3
<1>10. \A i \in 1 .. Len(s) : i < p => InsertAt(s, p, e)[i] = s[i]
  BY <1>4, <1>7
<1>11. InsertAt(s, p, e)[p] = e
  BY <1>4, <1>7
<1>12. ASSUME NEW i \in 1 .. Len(s) + 1
       PROVE  \/ i < p /\ i \in 1 .. Len(s) /\ InsertAt(s, p, e)[i] = s[i]
              \/ i = p
              \/ i > p /\ i - 1 \in 1 .. Len(s) /\ InsertAt(s, p, e)[i] = s[i - 1]
  <2>1. CASE i < p
    BY <1>10, <2>1
  <2>2. CASE i > p
    <3>1. i - 1 \in 1 .. Len(s) /\ i - 1 >= p
      BY <2>2
    <3>2. InsertAt(s, p, e)[(i - 1) + 1] = s[i - 1]
      BY <1>9, <3>1
    <3> QED
      BY <2>2, <3>1, <3>2
  <2> QED
    BY <2>1, <2>2
<1> QED
  BY <1>6, <1>9, <1>10, <1>11, <1>12

LEMMA TailOf ==
  ASSUME NEW S, NEW q \in Seq(S), q # <<>>
  PROVE  /\ Head(q) \in S /\ Head(q) = q[1] /\ Tail(q) \in Seq(S) /\ Len(q) \in Nat \ {0}
         /\ Len(Tail(q)) = Len(q) - 1
         /\ \A i \in 1 .. Len(q) - 1 : Tail(q)[i] = q[i + 1]
OBVIOUS

--------------------------------------------------------------------------------
(* The order of a map *)

Pairs == Int \X Int

\* On keys that can be compared, Less is an order.
LEMMA LessOrders ==
  ASSUME NEW K \in SUBSET Pairs, Comparable(K), NEW k \in K, NEW l \in K, NEW m \in K
  PROVE  /\ Less(k, l) => ~Less(l, k)
         /\ Less(k, l) /\ Less(l, m) => Less(k, m)
<1>1. k[1] \in Int /\ k[2] \in Int /\ l[1] \in Int /\ l[2] \in Int /\ m[1] \in Int /\ m[2] \in Int
  BY DEF Pairs
<1>2. ~(Less(k, l) /\ Less(l, k)) /\ ~(Less(l, m) /\ Less(m, l))
  BY DEF Comparable
<1> QED
  BY <1>1, <1>2 DEF Less

\* What is neither less nor greater is the same.
LEMMA FoundIsSame ==
  ASSUME NEW S, \A x \in S : x.key \in Pairs, NEW s \in Seq(S), NEW k \in Pairs,
         NEW p \in LowerBounds(s, k), Found(s, p, k)
  PROVE  p \in DOMAIN s /\ s[p].key = k
<1>1. p \in DOMAIN s /\ ~Less(s[p].key, k) /\ ~Less(k, s[p].key) /\ s[p].key \in Pairs
  BY DEF LowerBounds, Found
<1>2. PICK l \in Pairs : l = s[p].key
  BY <1>1
<1>3. /\ k[1] \in Int /\ k[2] \in Int /\ l[1] \in Int /\ l[2] \in Int
      /\ k = <<k[1], k[2]>> /\ l = <<l[1], l[2]>>
  BY DEF Pairs
<1>4. k[1] = l[1] /\ k[2] = l[2]
  BY <1>1, <1>2, <1>3 DEF Less
<1> QED
  BY <1>1, <1>2, <1>3, <1>4

\* An insertion where the search ended keeps the map sorted.
LEMMA InsertOrders ==
  ASSUME NEW S, NEW s \in Seq(S), NEW e \in S,
         NEW K \in SUBSET Pairs, Comparable(K), KeysOf(s) \subseteq K, e.key \in K, Ordered(s),
         NEW p \in LowerBounds(s, e.key), ~Found(s, p, e.key)
  PROVE  Ordered(InsertAt(s, p, e))
<1> DEFINE t == InsertAt(s, p, e)
<1>1. p \in 1 .. Len(s) + 1
  BY DEF LowerBounds
<1>2. /\ t \in Seq(S) /\ Len(t) = Len(s) + 1 /\ t[p] = e
      /\ \A i \in 1 .. Len(s) + 1 :
              \/ i < p /\ i \in 1 .. Len(s) /\ t[i] = s[i]
              \/ i = p
              \/ i > p /\ i - 1 \in 1 .. Len(s) /\ t[i] = s[i - 1]
  BY <1>1, InsertedAt
<1> HIDE DEF t
<1>3. \A i \in 1 .. Len(s) : s[i].key \in K
  BY DEF KeysOf
<1>4. \A i, j \in 1 .. Len(s) : i < j => Less(s[i].key, s[j].key)
  BY DEF Ordered
<1>5. ASSUME NEW i \in 1 .. Len(s), i < p PROVE Less(s[i].key, e.key)
  <2>1. p - 1 \in 1 .. Len(s) /\ Less(s[p - 1].key, e.key)
    BY <1>1, <1>5 DEF LowerBounds
  <2>2. i = p - 1 \/ Less(s[i].key, s[p - 1].key)
    BY <1>1, <1>4, <1>5, <2>1
  <2>3. s[i].key \in K /\ s[p - 1].key \in K
    BY <1>3, <2>1
  <2> QED
    BY <2>1, <2>2, <2>3, LessOrders
<1>6. ASSUME NEW i \in 1 .. Len(s), i >= p PROVE Less(e.key, s[i].key)
  <2>1. p \in 1 .. Len(s) /\ Less(e.key, s[p].key)
    BY <1>1, <1>6 DEF Found
  <2>2. i = p \/ Less(s[p].key, s[i].key)
    BY <1>1, <1>4, <1>6, <2>1
  <2>3. s[i].key \in K /\ s[p].key \in K
    BY <1>3, <2>1
  <2> QED
    BY <2>1, <2>2, <2>3, LessOrders
<1>7. ASSUME NEW i \in 1 .. Len(s) + 1, NEW j \in 1 .. Len(s) + 1, i < j
      PROVE  Less(t[i].key, t[j].key) /\ ~Less(t[j].key, t[i].key)
  <2>1. t[i].key \in K /\ t[j].key \in K
    BY <1>2, <1>3
  <2>2. Less(t[i].key, t[j].key)
    <3>1. CASE i = p
      <4>1. p \in Int /\ j \in Int /\ j > p /\ t[i] = e
        BY <1>1, <1>2, <1>7, <3>1
      <4>2. j - 1 \in 1 .. Len(s) /\ t[j] = s[j - 1]
        BY <1>2, <4>1
      <4>3. j - 1 >= p
        BY <4>1
      <4>4. Less(e.key, s[j - 1].key)
        BY <1>6, <4>2, <4>3
      <4> QED
        BY <4>1, <4>2, <4>4
    <3>2. CASE j = p
      <4>1. p \in Int /\ i \in Int /\ i < p /\ t[j] = e
        BY <1>1, <1>2, <1>7, <3>2
      <4>2. i \in 1 .. Len(s) /\ t[i] = s[i]
        BY <1>2, <4>1
      <4>3. Less(s[i].key, e.key)
        BY <1>5, <4>1, <4>2
      <4> QED
        BY <4>1, <4>2, <4>3
    <3>3. CASE i # p /\ j # p
      <4>1. \/ i < p /\ i \in 1 .. Len(s) /\ t[i] = s[i]
            \/ i > p /\ i - 1 \in 1 .. Len(s) /\ t[i] = s[i - 1]
        BY <1>2, <3>3
      <4>2. \/ j < p /\ j \in 1 .. Len(s) /\ t[j] = s[j]
            \/ j > p /\ j - 1 \in 1 .. Len(s) /\ t[j] = s[j - 1]
        BY <1>2, <3>3
      <4>3. CASE i < p /\ j < p
        BY <1>1, <1>4, <1>7, <4>1, <4>2, <4>3
      <4>4. CASE i < p /\ j > p
        <5>1. i < j - 1
          BY <1>1, <4>4
        <5> QED
          BY <1>1, <1>4, <4>1, <4>2, <4>4, <5>1
      <4>5. CASE i > p /\ j > p
        <5>1. i - 1 < j - 1
          BY <1>7
        <5> QED
          BY <1>1, <1>4, <4>1, <4>2, <4>5, <5>1
      <4> QED
        BY <1>1, <1>7, <3>3, <4>3, <4>4, <4>5
    <3> QED
      BY <3>1, <3>2, <3>3
  <2> QED
    BY <2>1, <2>2, LessOrders
<1> QED
  BY <1>2, <1>7 DEF Ordered, t

\* So does another value for a key.
LEMMA ChangeOrders ==
  ASSUME NEW S, NEW s \in Seq(S), NEW p \in DOMAIN s, NEW e \in S, e.key = s[p].key, Ordered(s)
  PROVE  Ordered([s EXCEPT ![p] = e])
<1> DEFINE t == [s EXCEPT ![p] = e]
<1>1. DOMAIN t = DOMAIN s
  OBVIOUS
<1>2. \A i \in DOMAIN s : t[i].key = s[i].key
  OBVIOUS
<1> HIDE DEF t
<1>3. Ordered(t)
  BY <1>1, <1>2 DEF Ordered
<1> QED
  BY <1>3 DEF t

--------------------------------------------------------------------------------
(* What a sequence holds *)

LEMMA RangeOfInsert ==
  ASSUME NEW S, NEW s \in Seq(S), NEW e \in S, NEW p \in 1 .. Len(s) + 1
  PROVE  Range(InsertAt(s, p, e)) = Range(s) \cup {e}
<1> DEFINE t == InsertAt(s, p, e)
<1>1. t \in Seq(S) /\ Len(t) = Len(s) + 1 /\ t[p] = e
  BY InsertedAt
<1>2. /\ \A i \in 1 .. Len(s) : i < p => t[i] = s[i]
      /\ \A i \in 1 .. Len(s) : i >= p => t[i + 1] = s[i]
  BY InsertedAt
<1>3. \A i \in 1 .. Len(s) + 1 :
              \/ i < p /\ i \in 1 .. Len(s) /\ t[i] = s[i]
              \/ i = p
              \/ i > p /\ i - 1 \in 1 .. Len(s) /\ t[i] = s[i - 1]
  BY InsertedAt
<1> HIDE DEF t
<1>4. DOMAIN t = 1 .. Len(s) + 1 /\ DOMAIN s = 1 .. Len(s)
  BY <1>1
<1>5. ASSUME NEW i \in DOMAIN t PROVE t[i] \in Range(s) \cup {e}
  BY <1>1, <1>3, <1>4 DEF Range
<1>6. ASSUME NEW i \in DOMAIN s PROVE s[i] \in Range(t)
  <2>1. CASE i < p
    <3>1. i \in DOMAIN t /\ t[i] = s[i]
      BY <1>2, <1>4, <2>1
    <3> QED
      BY <3>1 DEF Range
  <2>2. CASE i >= p
    <3>1. i + 1 \in DOMAIN t /\ t[i + 1] = s[i]
      BY <1>2, <1>4, <2>2
    <3> QED
      BY <3>1 DEF Range
  <2> QED
    BY <1>4, <2>1, <2>2
<1>7. e \in Range(t)
  BY <1>1, <1>4 DEF Range
<1> QED
  BY <1>5, <1>6, <1>7 DEF Range, t

LEMMA RangeOfTail ==
  ASSUME NEW S, NEW q \in Seq(S), q # <<>>
  PROVE  Range(q) = {Head(q)} \cup Range(Tail(q))
<1>1. /\ Head(q) = q[1] /\ Len(q) \in Nat \ {0} /\ DOMAIN q = 1 .. Len(q)
      /\ DOMAIN Tail(q) = 1 .. Len(q) - 1
      /\ \A i \in 1 .. Len(q) - 1 : Tail(q)[i] = q[i + 1]
  OBVIOUS
<1>2. ASSUME NEW i \in DOMAIN q PROVE q[i] \in {Head(q)} \cup Range(Tail(q))
  <2>1. CASE i = 1
    BY <1>1, <2>1
  <2>2. CASE i # 1
    <3>1. i - 1 \in DOMAIN Tail(q) /\ Tail(q)[i - 1] = q[i]
      BY <1>1, <2>2
    <3> QED
      BY <3>1 DEF Range
  <2> QED
    BY <2>1, <2>2
<1>3. ASSUME NEW i \in DOMAIN Tail(q) PROVE Tail(q)[i] \in Range(q)
  <2>1. i + 1 \in DOMAIN q /\ q[i + 1] = Tail(q)[i]
    BY <1>1
  <2> QED
    BY <2>1 DEF Range
<1>4. q[1] \in Range(q)
  BY <1>1 DEF Range
<1> QED
  BY <1>1, <1>2, <1>3, <1>4 DEF Range

LEMMA RangeOfChange ==
  ASSUME NEW S, NEW s \in Seq(S), NEW p \in DOMAIN s, NEW e \in S
  PROVE  /\ e \in Range([s EXCEPT ![p] = e])
         /\ Range([s EXCEPT ![p] = e]) \subseteq Range(s) \cup {e}
         /\ Range(s) \subseteq Range([s EXCEPT ![p] = e]) \cup {s[p]}
<1>1. DOMAIN [s EXCEPT ![p] = e] = DOMAIN s
  OBVIOUS
<1> QED
  BY <1>1 DEF Range

\* The rights of members of a rule.
RightsOf(k, ms) == UNION {{<<k, ms[j].key, a>> : a \in ms[j].mask} : j \in DOMAIN ms}

\* The rights of members and of rules depend on what the sequences hold, not on its order.
LEMMA RightsByMember ==
  ASSUME NEW k, NEW ms, NEW g
  PROVE  g \in RightsOf(k, ms) <=> \E m \in Range(ms) : \E a \in m.mask : g = <<k, m.key, a>>
BY DEF RightsOf, Range

LEMMA GrantsByRule ==
  ASSUME NEW rs, NEW g
  PROVE  g \in Grants(rs) <=> \E r \in Range(rs) : g \in RightsOf(r.key, r.members)
<1>1. Grants(rs) = UNION {RightsOf(rs[i].key, rs[i].members) : i \in DOMAIN rs}
  BY DEF Grants, RightsOf
<1> QED
  BY <1>1 DEF Range

LEMMA KeysInRange ==
  ASSUME NEW s
  PROVE  KeysOf(s) = {e.key : e \in Range(s)}
BY DEF KeysOf, Range

LEMMA MembersAreKeyed == \A m \in Members : m.key \in Pairs /\ m.mask \in SUBSET STRING
BY DEF Members, Pairs

LEMMA RulesAreKeyed == \A r \in Rules : r.key \in Pairs /\ r.members \in Seq(Members)
BY DEF Rules, Pairs

LEMMA FindsIn ==
  ASSUME NEW s, NEW k, NEW p \in LowerBounds(s, k)
  PROVE  p \in 1 .. Len(s) + 1
BY DEF LowerBounds

--------------------------------------------------------------------------------
(* Merging a member *)

\* Merging adds the rights of the member, and no key but its own.
LEMMA MergedMembers ==
  ASSUME NEW s \in Seq(Members), NEW m \in Members, NEW p \in LowerBounds(s, m.key), NEW k
  PROVE  /\ Merged(s, p, m) \in Seq(Members)
         /\ RightsOf(k, Merged(s, p, m)) = RightsOf(k, s) \cup {<<k, m.key, a>> : a \in m.mask}
         /\ KeysOf(Merged(s, p, m)) \subseteq KeysOf(s) \cup {m.key}
<1>1. CASE Found(s, p, m.key)
  <2> DEFINE e == [s[p] EXCEPT !.mask = @ \cup m.mask]
  <2>1. p \in DOMAIN s /\ s[p].key = m.key
    BY <1>1, MembersAreKeyed, FoundIsSame
  <2>2. Merged(s, p, m) = [s EXCEPT ![p] = e]
    BY <1>1 DEF Merged
  <2>3. s[p] \in Members
    BY <2>1
  <2>4. e \in Members /\ e.key = m.key /\ e.mask = s[p].mask \cup m.mask
    BY <2>1, <2>3 DEF Members
  <2> HIDE DEF e
  <2>5. /\ e \in Range(Merged(s, p, m))
        /\ Range(Merged(s, p, m)) \subseteq Range(s) \cup {e}
        /\ Range(s) \subseteq Range(Merged(s, p, m)) \cup {s[p]}
    <3>1. /\ e \in Range([s EXCEPT ![p] = e])
          /\ Range([s EXCEPT ![p] = e]) \subseteq Range(s) \cup {e}
          /\ Range(s) \subseteq Range([s EXCEPT ![p] = e]) \cup {s[p]}
      BY <2>1, <2>4, RangeOfChange
    <3> QED
      BY <2>2, <3>1
  <2>6. Merged(s, p, m) \in Seq(Members)
    BY <2>1, <2>2, <2>4
  <2>7. s[p] \in Range(s)
    BY <2>1 DEF Range
  <2>8. ASSUME NEW g
        PROVE  g \in RightsOf(k, Merged(s, p, m))
                 <=> g \in RightsOf(k, s) \/ g \in {<<k, m.key, a>> : a \in m.mask}
    BY <2>1, <2>4, <2>5, <2>7, RightsByMember
  <2>9. KeysOf(Merged(s, p, m)) \subseteq KeysOf(s) \cup {m.key}
    BY <2>4, <2>5, KeysInRange
  <2> QED
    BY <2>6, <2>8, <2>9
<1>2. CASE ~Found(s, p, m.key)
  <2>1. Merged(s, p, m) = InsertAt(s, p, m) /\ p \in 1 .. Len(s) + 1
    BY <1>2, FindsIn DEF Merged
  <2>2. Range(Merged(s, p, m)) = Range(s) \cup {m}
    BY <2>1, RangeOfInsert
  <2>3. Merged(s, p, m) \in Seq(Members)
    <3>1. InsertAt(s, p, m) \in Seq(Members)
      BY <2>1, InsertedAt
    <3> QED
      BY <2>1, <3>1
  <2>4. ASSUME NEW g
        PROVE  g \in RightsOf(k, Merged(s, p, m))
                 <=> g \in RightsOf(k, s) \/ g \in {<<k, m.key, a>> : a \in m.mask}
    BY <2>2, RightsByMember
  <2>5. KeysOf(Merged(s, p, m)) \subseteq KeysOf(s) \cup {m.key}
    BY <2>2, KeysInRange
  <2> QED
    BY <2>3, <2>4, <2>5
<1> QED
  BY <1>1, <1>2

LEMMA MergedOrders ==
  ASSUME NEW s \in Seq(Members), NEW m \in Members, NEW p \in LowerBounds(s, m.key),
         NEW K \in SUBSET Pairs, Comparable(K), KeysOf(s) \subseteq K, m.key \in K, Ordered(s)
  PROVE  Ordered(Merged(s, p, m))
<1>1. CASE Found(s, p, m.key)
  <2> DEFINE e == [s[p] EXCEPT !.mask = @ \cup m.mask]
  <2>1. p \in DOMAIN s
    BY <1>1, MembersAreKeyed, FoundIsSame
  <2>2. Merged(s, p, m) = [s EXCEPT ![p] = e]
    BY <1>1 DEF Merged
  <2>3. s[p] \in Members
    BY <2>1
  <2>4. e \in Members /\ e.key = s[p].key
    BY <2>3, MembersAreKeyed DEF Members
  <2> HIDE DEF e
  <2>5. Ordered([s EXCEPT ![p] = e])
    BY <2>1, <2>4, ChangeOrders
  <2> QED
    BY <2>2, <2>5
<1>2. CASE ~Found(s, p, m.key)
  BY <1>2, InsertOrders DEF Merged
<1> QED
  BY <1>1, <1>2

--------------------------------------------------------------------------------
(* The invariant *)

Pending == [key : Pairs, members : Seq(Members), open : BOOLEAN, at : Int]

NormalTypeOK == input \in Seq(Rules) /\ rmap \in Seq(Rules) /\ todo \in Seq(Pending)

\* Only the first rule has an entry, and where it was found it stays.
OpenIsInMap ==
  \A i \in DOMAIN todo :
    todo[i].open => i = 1 /\ todo[i].at \in DOMAIN rmap /\ rmap[todo[i].at].key = todo[i].key

MemberKeys == UNION {KeysOf(input[j].members) : j \in DOMAIN input}

\* Normalising makes up no key.
KeysAreGiven ==
  \A r \in Range(rmap) \cup Range(todo) : r.key \in KeysOf(input) /\ KeysOf(r.members) \subseteq MemberKeys

NInv == NormalTypeOK /\ OpenIsInMap /\ KeysAreGiven /\ NormalKeepsRights /\ NormalIsSorted

LEMMA KeysArePairs ==
  ASSUME NormalTypeOK
  PROVE  KeysOf(input) \in SUBSET Pairs /\ MemberKeys \in SUBSET Pairs
<1>1. \A i \in DOMAIN input : input[i] \in Rules
  BY DEF NormalTypeOK
<1>2. \A i \in DOMAIN input : input[i].key \in Pairs /\ input[i].members \in Seq(Members)
  BY <1>1, RulesAreKeyed
<1>3. ASSUME NEW i \in DOMAIN input, NEW j \in DOMAIN input[i].members
      PROVE  input[i].members[j].key \in Pairs
  <2>1. input[i].members[j] \in Members
    BY <1>2
  <2> QED
    BY <2>1, MembersAreKeyed
<1> QED
  BY <1>2, <1>3 DEF KeysOf, MemberKeys

LEMMA HeadOfTodo ==
  ASSUME NormalTypeOK, todo # <<>>
  PROVE  /\ Head(todo) \in Pending /\ Head(todo) = todo[1] /\ 1 \in DOMAIN todo
         /\ Head(todo).key \in Pairs /\ Head(todo).members \in Seq(Members)
         /\ Tail(todo) \in Seq(Pending)
         /\ Range(todo) = {Head(todo)} \cup Range(Tail(todo))
         /\ Grants(todo) = RightsOf(Head(todo).key, Head(todo).members) \cup Grants(Tail(todo))
<1>1. todo \in Seq(Pending)
  BY DEF NormalTypeOK
<1>2. /\ Head(todo) \in Pending /\ Head(todo) = todo[1] /\ 1 \in DOMAIN todo
      /\ Tail(todo) \in Seq(Pending)
  BY <1>1
<1>3. Head(todo).key \in Pairs /\ Head(todo).members \in Seq(Members)
  BY <1>2 DEF Pending
<1>4. Range(todo) = {Head(todo)} \cup Range(Tail(todo))
  BY <1>1, RangeOfTail
<1>5. ASSUME NEW g
      PROVE  g \in Grants(todo)
               <=> g \in RightsOf(Head(todo).key, Head(todo).members) \/ g \in Grants(Tail(todo))
  BY <1>4, GrantsByRule
<1> QED
  BY <1>2, <1>3, <1>4, <1>5

LEMMA HeadIsChanged ==
  ASSUME NEW S, NEW q \in Seq(S), q # <<>>, NEW e \in S
  PROVE  LET t == <<e>> \o Tail(q) IN
         /\ t \in Seq(S) /\ DOMAIN t = DOMAIN q /\ t[1] = e
         /\ \A i \in DOMAIN q : i # 1 => t[i] = q[i]
         /\ Range(t) = {e} \cup Range(Tail(q))
<1> DEFINE t == <<e>> \o Tail(q)
<1>1. /\ Tail(q) \in Seq(S) /\ Len(q) \in Nat \ {0} /\ DOMAIN q = 1 .. Len(q)
      /\ Len(Tail(q)) = Len(q) - 1
      /\ \A i \in 1 .. Len(q) - 1 : Tail(q)[i] = q[i + 1]
  OBVIOUS
<1>2. PICK u \in Seq(S) : u = Tail(q)
  BY <1>1
<1>3. /\ t \in Seq(S) /\ Len(t) = Len(u) + 1 /\ t[1] = e /\ DOMAIN t = 1 .. Len(u) + 1
      /\ \A i \in 1 .. Len(u) : t[i + 1] = u[i]
  BY <1>2
<1>4. t # <<>> /\ Head(t) = e /\ Tail(t) = u
  BY <1>2
<1>5. Range(t) = {e} \cup Range(Tail(q))
  BY <1>2, <1>3, <1>4, RangeOfTail
<1>6. ASSUME NEW i \in DOMAIN q, i # 1 PROVE t[i] = q[i]
  <2>1. i - 1 \in 1 .. Len(u) /\ i - 1 \in 1 .. Len(q) - 1
    BY <1>1, <1>2, <1>6
  <2>2. t[(i - 1) + 1] = u[i - 1] /\ u[i - 1] = q[(i - 1) + 1]
    BY <1>1, <1>2, <1>3, <2>1
  <2> QED
    BY <1>1, <2>2
<1> HIDE DEF t
<1>7. /\ t \in Seq(S) /\ DOMAIN t = DOMAIN q /\ t[1] = e
      /\ \A i \in DOMAIN q : i # 1 => t[i] = q[i]
      /\ Range(t) = {e} \cup Range(Tail(q))
  BY <1>1, <1>2, <1>3, <1>5, <1>6
<1> QED
  BY <1>7 DEF t

\* What a step that goes on with the first rule does to the rules that are still to be merged.
LEMMA TodoIsKept ==
  ASSUME NormalTypeOK, OpenIsInMap, todo # <<>>, NEW e \in Pending, e.key = Head(todo).key,
         NEW h, h = e.at, todo' = <<e>> \o Tail(todo)
  PROVE  /\ todo' \in Seq(Pending)
         /\ Range(todo') = {e} \cup Range(Tail(todo))
         /\ Grants(todo') = RightsOf(e.key, e.members) \cup Grants(Tail(todo))
         /\ (h \in DOMAIN rmap' /\ rmap'[h].key = e.key) => OpenIsInMap'
<1>1. todo \in Seq(Pending)
  BY DEF NormalTypeOK
<1>2. /\ todo' \in Seq(Pending) /\ DOMAIN todo' = DOMAIN todo /\ todo'[1] = e
      /\ \A i \in DOMAIN todo : i # 1 => todo'[i] = todo[i]
      /\ Range(todo') = {e} \cup Range(Tail(todo))
  <2>1. LET t == <<e>> \o Tail(todo) IN
        /\ t \in Seq(Pending) /\ DOMAIN t = DOMAIN todo /\ t[1] = e
        /\ \A i \in DOMAIN todo : i # 1 => t[i] = todo[i]
        /\ Range(t) = {e} \cup Range(Tail(todo))
    BY <1>1, HeadIsChanged
  <2> QED
    BY <2>1
<1>3. ASSUME NEW g
      PROVE  g \in Grants(todo') <=> g \in RightsOf(e.key, e.members) \/ g \in Grants(Tail(todo))
  BY <1>2, GrantsByRule
<1>4. ASSUME h \in DOMAIN rmap', rmap'[h].key = e.key,
             NEW i \in DOMAIN todo', todo'[i].open
      PROVE  i = 1 /\ todo'[i].at \in DOMAIN rmap' /\ rmap'[todo'[i].at].key = todo'[i].key
  <2>1. CASE i = 1
    BY <1>2, <1>4, <2>1
  <2>2. CASE i # 1
    <3>1. todo'[i] = todo[i] /\ i \in DOMAIN todo
      BY <1>2, <2>2
    <3> QED
      BY <1>4, <2>2, <3>1 DEF OpenIsInMap
  <2> QED
    BY <2>1, <2>2
<1> QED
  BY <1>2, <1>3, <1>4 DEF OpenIsInMap

LEMMA AddRuleKeeps == NInv /\ AddRule => NInv'
<1> SUFFICES ASSUME NInv, AddRule PROVE NInv'
  OBVIOUS
<1>1. NormalTypeOK /\ OpenIsInMap /\ KeysAreGiven /\ NormalKeepsRights /\ NormalIsSorted
  BY DEF NInv
<1>2. PICK r : r = Head(todo)
  OBVIOUS
<1>3. todo # <<>> /\ ~r.open /\ input' = input
  BY <1>2 DEF AddRule
<1>4. PICK p \in LowerBounds(rmap, r.key) :
        /\ rmap' = IF Found(rmap, p, r.key) THEN rmap
                   ELSE InsertAt(rmap, p, [key |-> r.key, members |-> <<>>])
        /\ todo' = <<[r EXCEPT !.open = TRUE, !.at = p]>> \o Tail(todo)
  BY <1>2 DEF AddRule
<1>5. /\ r \in Pending /\ r.key \in Pairs /\ r.members \in Seq(Members) /\ r \in Range(todo)
      /\ Range(todo) = {r} \cup Range(Tail(todo))
      /\ Grants(todo) = RightsOf(r.key, r.members) \cup Grants(Tail(todo))
  BY <1>1, <1>2, <1>3, HeadOfTodo
<1>6. rmap \in Seq(Rules) /\ input \in Seq(Rules) /\ p \in 1 .. Len(rmap) + 1
  BY <1>1, <1>4, FindsIn DEF NormalTypeOK
<1>7. PICK e : e = [r EXCEPT !.open = TRUE, !.at = p]
  OBVIOUS
<1>8. e \in Pending /\ e.key = r.key /\ e.members = r.members /\ e.at = p
  <2>1. p \in Int
    BY <1>6
  <2>2. e = [key |-> r.key, members |-> r.members, open |-> TRUE, at |-> p]
    BY <1>5, <1>7 DEF Pending
  <2>3. e.key = r.key /\ e.members = r.members /\ e.at = p
    BY <2>2
  <2>4. e \in Pending
    BY <1>5, <2>1, <2>2 DEF Pending
  <2> QED
    BY <2>3, <2>4
<1>9. todo' = <<e>> \o Tail(todo)
  BY <1>4, <1>7
<1>10. /\ todo' \in Seq(Pending)
       /\ Range(todo') = {e} \cup Range(Tail(todo))
       /\ Grants(todo') = RightsOf(r.key, r.members) \cup Grants(Tail(todo))
       /\ (p \in DOMAIN rmap' /\ rmap'[p].key = r.key) => OpenIsInMap'
  BY <1>1, <1>2, <1>3, <1>8, <1>9, TodoIsKept
<1>11. Grants(todo') = Grants(todo)
  BY <1>5, <1>10
<1>12. ASSUME NEW q \in Range(todo') PROVE q.key \in KeysOf(input) /\ KeysOf(q.members) \subseteq MemberKeys
  BY <1>1, <1>5, <1>8, <1>10 DEF KeysAreGiven
<1>13. MemberKeys' = MemberKeys /\ KeysOf(input)' = KeysOf(input)
  BY <1>3 DEF MemberKeys
<1>14. CASE Found(rmap, p, r.key)
  <2>1. rmap' = rmap
    BY <1>4, <1>14
  <2>2. p \in DOMAIN rmap /\ rmap[p].key = r.key
    BY <1>4, <1>5, <1>6, <1>14, RulesAreKeyed, FoundIsSame
  <2>3. NormalTypeOK' /\ OpenIsInMap'
    BY <1>3, <1>6, <1>10, <2>1, <2>2 DEF NormalTypeOK
  <2>4. KeysAreGiven'
    BY <1>1, <1>12, <1>13, <2>1 DEF KeysAreGiven
  <2>5. NormalKeepsRights'
    BY <1>1, <1>3, <1>11, <2>1 DEF NormalKeepsRights
  <2>6. NormalIsSorted'
    BY <1>1, <1>3, <2>1 DEF NormalIsSorted
  <2> QED
    BY <2>3, <2>4, <2>5, <2>6 DEF NInv
<1>15. CASE ~Found(rmap, p, r.key)
  <2>1. PICK n : n = [key |-> r.key, members |-> <<>>]
    OBVIOUS
  <2>2. n \in Rules /\ n.key = r.key /\ n.members = <<>>
    BY <1>5, <2>1 DEF Rules, Pairs
  <2>3. rmap' = InsertAt(rmap, p, n)
    BY <1>4, <1>15, <2>1
  <2>4. rmap' \in Seq(Rules) /\ p \in DOMAIN rmap' /\ rmap'[p] = n
    <3>1. /\ InsertAt(rmap, p, n) \in Seq(Rules)
          /\ Len(InsertAt(rmap, p, n)) = Len(rmap) + 1
          /\ InsertAt(rmap, p, n)[p] = n
      BY <1>6, <2>2, InsertedAt
    <3> QED
      BY <1>6, <2>3, <3>1
  <2>5. Range(rmap') = Range(rmap) \cup {n}
    BY <1>6, <2>2, <2>3, RangeOfInsert
  <2>6. NormalTypeOK' /\ OpenIsInMap'
    BY <1>3, <1>6, <1>10, <2>2, <2>4 DEF NormalTypeOK
  <2>7. KeysOf(<<>>) = {} /\ \A g : g \notin RightsOf(r.key, <<>>)
    BY DEF KeysOf, RightsOf
  <2>8. r.key \in KeysOf(input)
    BY <1>1, <1>5 DEF KeysAreGiven
  <2>9. KeysAreGiven'
    <3>1. ASSUME NEW q \in Range(rmap') \cup Range(todo')
          PROVE  q.key \in KeysOf(input) /\ KeysOf(q.members) \subseteq MemberKeys
      BY <1>1, <1>12, <2>2, <2>5, <2>7, <2>8 DEF KeysAreGiven
    <3> QED
      BY <1>13, <3>1 DEF KeysAreGiven
  <2>10. Grants(rmap') = Grants(rmap)
    <3>1. ASSUME NEW g PROVE g \in Grants(rmap') <=> g \in Grants(rmap)
      BY <2>2, <2>5, <2>7, GrantsByRule
    <3> QED
      BY <3>1
  <2>11. NormalKeepsRights'
    BY <1>1, <1>3, <1>11, <2>10 DEF NormalKeepsRights
  <2>12. ASSUME Comparable(KeysOf(input)) PROVE Ordered(rmap')
    <3>1. KeysOf(rmap) \subseteq KeysOf(input)
      BY <1>1, KeysInRange DEF KeysAreGiven
    <3>2. Ordered(rmap) /\ KeysOf(input) \in SUBSET Pairs
      BY <1>1, <2>12, KeysArePairs DEF NormalIsSorted
    <3>3. p \in LowerBounds(rmap, n.key) /\ ~Found(rmap, p, n.key)
      BY <1>4, <1>15, <2>2
    <3>4. Ordered(InsertAt(rmap, p, n))
      BY <1>6, <2>2, <2>8, <2>12, <3>1, <3>2, <3>3, InsertOrders
    <3> QED
      BY <2>3, <3>4
  <2>13. ASSUME Comparable(MemberKeys), NEW i \in DOMAIN rmap' PROVE Ordered(rmap'[i].members)
    <3>1. rmap'[i] \in Range(rmap')
      BY DEF Range
    <3>2. rmap'[i] = n \/ \E j \in DOMAIN rmap : rmap'[i] = rmap[j]
      BY <2>5, <3>1 DEF Range
    <3>3. Ordered(n.members)
      BY <2>2 DEF Ordered
    <3> QED
      BY <1>1, <2>13, <3>2, <3>3 DEF NormalIsSorted, MemberKeys
  <2>14. NormalIsSorted'
    BY <1>3, <2>12, <2>13 DEF NormalIsSorted, MemberKeys
  <2> QED
    BY <2>6, <2>9, <2>11, <2>14 DEF NInv
<1> QED
  BY <1>14, <1>15

LEMMA AddMemberKeeps == NInv /\ AddMember => NInv'
<1> SUFFICES ASSUME NInv, AddMember PROVE NInv'
  OBVIOUS
<1>1. NormalTypeOK /\ OpenIsInMap /\ KeysAreGiven /\ NormalKeepsRights /\ NormalIsSorted
  BY DEF NInv
<1>2. PICK r : r = Head(todo)
  OBVIOUS
<1>3. todo # <<>> /\ r.open /\ r.members # <<>> /\ input' = input
  BY <1>2 DEF AddMember
<1>4. PICK m : m = Head(r.members)
  OBVIOUS
<1>5. PICK h : h = r.at
  OBVIOUS
<1>6. PICK p \in LowerBounds(rmap[h].members, m.key) :
        /\ rmap' = [rmap EXCEPT ![h].members = Merged(@, p, m)]
        /\ todo' = <<[r EXCEPT !.members = Tail(@)]>> \o Tail(todo)
  BY <1>2, <1>4, <1>5 DEF AddMember
<1>7. /\ r \in Pending /\ r = todo[1] /\ 1 \in DOMAIN todo
      /\ r.key \in Pairs /\ r.members \in Seq(Members) /\ r \in Range(todo)
      /\ Range(todo) = {r} \cup Range(Tail(todo))
      /\ Grants(todo) = RightsOf(r.key, r.members) \cup Grants(Tail(todo))
  BY <1>1, <1>2, <1>3, HeadOfTodo
<1>8. rmap \in Seq(Rules) /\ input \in Seq(Rules)
  BY <1>1 DEF NormalTypeOK
<1>9. h \in DOMAIN rmap /\ rmap[h].key = r.key
  BY <1>1, <1>3, <1>5, <1>7 DEF OpenIsInMap
<1>10. rmap[h] \in Rules /\ rmap[h].members \in Seq(Members) /\ rmap[h] \in Range(rmap)
  BY <1>8, <1>9, RulesAreKeyed DEF Range
<1>11. /\ m \in Members /\ Tail(r.members) \in Seq(Members)
       /\ Range(r.members) = {m} \cup Range(Tail(r.members))
  BY <1>3, <1>4, <1>7, RangeOfTail
<1>12. PICK e : e = [r EXCEPT !.members = Tail(@)]
  OBVIOUS
<1>13. e \in Pending /\ e.key = r.key /\ e.members = Tail(r.members) /\ e.at = h
  BY <1>5, <1>7, <1>11, <1>12 DEF Pending
<1>14. /\ todo' \in Seq(Pending)
       /\ Range(todo') = {e} \cup Range(Tail(todo))
       /\ Grants(todo') = RightsOf(r.key, Tail(r.members)) \cup Grants(Tail(todo))
       /\ (h \in DOMAIN rmap' /\ rmap'[h].key = r.key) => OpenIsInMap'
  <2>1. todo' = <<e>> \o Tail(todo)
    BY <1>6, <1>12
  <2> QED
    BY <1>1, <1>2, <1>3, <1>13, <2>1, TodoIsKept
<1>15. PICK ms : ms = Merged(rmap[h].members, p, m)
  OBVIOUS
<1>16. PICK n : n = [rmap[h] EXCEPT !.members = ms]
  OBVIOUS
<1>17. ms \in Seq(Members) /\ KeysOf(ms) \subseteq KeysOf(rmap[h].members) \cup {m.key}
  BY <1>6, <1>10, <1>11, <1>15, MergedMembers
<1>18. RightsOf(r.key, ms) = RightsOf(r.key, rmap[h].members) \cup {<<r.key, m.key, a>> : a \in m.mask}
  BY <1>6, <1>10, <1>11, <1>15, MergedMembers
<1>19. n \in Rules /\ n.key = r.key /\ n.members = ms
  BY <1>9, <1>10, <1>16, <1>17 DEF Rules
<1>20. rmap' = [rmap EXCEPT ![h] = n]
  BY <1>6, <1>15, <1>16
<1>21. /\ rmap' \in Seq(Rules) /\ DOMAIN rmap' = DOMAIN rmap /\ rmap'[h] = n
       /\ \A i \in DOMAIN rmap : i # h => rmap'[i] = rmap[i]
  BY <1>8, <1>9, <1>19, <1>20
<1>22. n \in Range(rmap') /\ Range(rmap') \subseteq Range(rmap) \cup {n}
       /\ Range(rmap) \subseteq Range(rmap') \cup {rmap[h]}
  <2>1. /\ n \in Range([rmap EXCEPT ![h] = n])
        /\ Range([rmap EXCEPT ![h] = n]) \subseteq Range(rmap) \cup {n}
        /\ Range(rmap) \subseteq Range([rmap EXCEPT ![h] = n]) \cup {rmap[h]}
    BY <1>8, <1>9, <1>19, RangeOfChange
  <2> QED
    BY <1>20, <2>1
<1>23. MemberKeys' = MemberKeys /\ KeysOf(input)' = KeysOf(input)
  BY <1>3 DEF MemberKeys
<1>24. m.key \in MemberKeys /\ r.key \in KeysOf(input)
  <2>1. m.key \in KeysOf(r.members)
    BY <1>11, KeysInRange
  <2> QED
    BY <1>1, <1>7, <2>1 DEF KeysAreGiven
<1>25. NormalTypeOK' /\ OpenIsInMap'
  BY <1>3, <1>8, <1>9, <1>14, <1>19, <1>21 DEF NormalTypeOK
<1>26. KeysAreGiven'
  <2>1. ASSUME NEW q \in Range(todo') PROVE q.key \in KeysOf(input) /\ KeysOf(q.members) \subseteq MemberKeys
    <3>1. KeysOf(Tail(r.members)) \subseteq KeysOf(r.members)
      BY <1>11, KeysInRange
    <3> QED
      BY <1>1, <1>7, <1>13, <1>14, <3>1 DEF KeysAreGiven
  <2>2. ASSUME NEW q \in Range(rmap') PROVE q.key \in KeysOf(input) /\ KeysOf(q.members) \subseteq MemberKeys
    <3>1. CASE q = n
      BY <1>1, <1>10, <1>17, <1>19, <1>24, <3>1 DEF KeysAreGiven
    <3>2. CASE q # n
      BY <1>1, <1>22, <3>2 DEF KeysAreGiven
    <3> QED
      BY <3>1, <3>2
  <2> QED
    BY <1>23, <2>1, <2>2 DEF KeysAreGiven
<1>27. Grants(rmap') = Grants(rmap) \cup {<<r.key, m.key, a>> : a \in m.mask}
  <2>1. ASSUME NEW g
        PROVE  g \in Grants(rmap')
                 <=> g \in Grants(rmap) \/ g \in {<<r.key, m.key, a>> : a \in m.mask}
    <3>1. g \in RightsOf(n.key, n.members)
            <=> g \in RightsOf(r.key, rmap[h].members) \/ g \in {<<r.key, m.key, a>> : a \in m.mask}
      BY <1>18, <1>19
    <3>2. g \in Grants(rmap') <=> \E q \in Range(rmap') : g \in RightsOf(q.key, q.members)
      BY GrantsByRule
    <3>3. g \in Grants(rmap) <=> \E q \in Range(rmap) : g \in RightsOf(q.key, q.members)
      BY GrantsByRule
    <3> QED
      BY <1>9, <1>10, <1>22, <3>1, <3>2, <3>3
  <2> QED
    BY <2>1
<1>28. RightsOf(r.key, r.members) = RightsOf(r.key, Tail(r.members)) \cup {<<r.key, m.key, a>> : a \in m.mask}
  <2>1. ASSUME NEW g
        PROVE  g \in RightsOf(r.key, r.members)
                 <=> g \in RightsOf(r.key, Tail(r.members)) \/ g \in {<<r.key, m.key, a>> : a \in m.mask}
    BY <1>11, RightsByMember
  <2> QED
    BY <2>1
<1>29. NormalKeepsRights'
  BY <1>1, <1>3, <1>7, <1>14, <1>27, <1>28 DEF NormalKeepsRights
<1>30. ASSUME Comparable(KeysOf(input)) PROVE Ordered(rmap')
  <2>1. Ordered(rmap)
    BY <1>1, <1>30 DEF NormalIsSorted
  <2>2. Ordered([rmap EXCEPT ![h] = n])
    BY <1>8, <1>9, <1>19, <2>1, ChangeOrders
  <2> QED
    BY <1>20, <2>2
<1>31. ASSUME Comparable(MemberKeys), NEW i \in DOMAIN rmap' PROVE Ordered(rmap'[i].members)
  <2>1. \A j \in DOMAIN rmap : Ordered(rmap[j].members)
    BY <1>1, <1>31 DEF NormalIsSorted, MemberKeys
  <2>2. CASE i # h
    BY <1>21, <2>1, <2>2
  <2>3. CASE i = h
    <3>1. KeysOf(rmap[h].members) \subseteq MemberKeys
      BY <1>1, <1>10 DEF KeysAreGiven
    <3>2. MemberKeys \in SUBSET Pairs
      BY <1>1, KeysArePairs
    <3>3. Ordered(ms)
      BY <1>6, <1>9, <1>10, <1>11, <1>15, <1>24, <1>31, <2>1, <3>1, <3>2, MergedOrders
    <3> QED
      BY <1>19, <1>21, <2>3, <3>3
  <2> QED
    BY <2>2, <2>3
<1>32. NormalIsSorted'
  BY <1>3, <1>30, <1>31 DEF NormalIsSorted, MemberKeys
<1> QED
  BY <1>25, <1>26, <1>29, <1>32 DEF NInv

LEMMA NextRuleKeeps == NInv /\ NextRule => NInv'
<1> SUFFICES ASSUME NInv, NextRule PROVE NInv'
  OBVIOUS
<1>1. NormalTypeOK /\ OpenIsInMap /\ KeysAreGiven /\ NormalKeepsRights /\ NormalIsSorted
  BY DEF NInv
<1>2. /\ todo # <<>> /\ Head(todo).members = <<>> /\ input' = input /\ rmap' = rmap
      /\ todo' = Tail(todo)
  BY DEF NextRule
<1>3. /\ Tail(todo) \in Seq(Pending)
      /\ Range(todo) = {Head(todo)} \cup Range(Tail(todo))
      /\ Grants(todo) = RightsOf(Head(todo).key, <<>>) \cup Grants(Tail(todo))
  BY <1>1, <1>2, HeadOfTodo
<1>4. NormalTypeOK'
  BY <1>1, <1>2, <1>3 DEF NormalTypeOK
<1>5. OpenIsInMap'
  <2>1. ASSUME NEW i \in DOMAIN Tail(todo) PROVE ~Tail(todo)[i].open
    <3>1. i \in Nat \ {0} /\ i + 1 \in DOMAIN todo /\ Tail(todo)[i] = todo[i + 1]
      BY <1>1, <1>2, TailOf DEF NormalTypeOK
    <3>2. i + 1 # 1
      BY <3>1
    <3> QED
      BY <1>1, <3>1, <3>2 DEF OpenIsInMap
  <2> QED
    BY <1>2, <2>1 DEF OpenIsInMap
<1>6. KeysAreGiven'
  BY <1>1, <1>2, <1>3 DEF KeysAreGiven, MemberKeys
<1>7. NormalKeepsRights'
  <2>1. RightsOf(Head(todo).key, <<>>) = {}
    BY DEF RightsOf
  <2> QED
    BY <1>1, <1>2, <1>3, <2>1 DEF NormalKeepsRights
<1>8. NormalIsSorted'
  BY <1>1, <1>2 DEF NormalIsSorted
<1> QED
  BY <1>4, <1>5, <1>6, <1>7, <1>8 DEF NInv

LEMMA NormalizeInitInv == PoliciesAssumption /\ NormalizeInit(Inputs) => NInv
<1> SUFFICES ASSUME PoliciesAssumption, NormalizeInit(Inputs) PROVE NInv
  OBVIOUS
<1>1. input \in Seq(Rules) /\ rmap = <<>> /\ rmap \in Seq(Rules) /\ Range(rmap) = {} /\ KeysOf(rmap) = {}
  BY DEF PoliciesAssumption, NormalizeInit, Range, KeysOf
<1>2. todo = [i \in DOMAIN input |-> [key |-> input[i].key, members |-> input[i].members,
                                      open |-> FALSE, at |-> 0]]
  BY DEF NormalizeInit
<1>3. ASSUME NEW i \in DOMAIN input
      PROVE  /\ todo[i] \in Pending /\ ~todo[i].open
             /\ todo[i].key = input[i].key /\ todo[i].members = input[i].members
  <2>1. input[i] \in Rules
    BY <1>1
  <2>2. input[i].key \in Pairs /\ input[i].members \in Seq(Members)
    BY <2>1, RulesAreKeyed
  <2>3. todo[i] = [key |-> input[i].key, members |-> input[i].members, open |-> FALSE, at |-> 0]
    BY <1>2
  <2>4. todo[i] \in Pending
    BY <2>2, <2>3 DEF Pending
  <2> QED
    BY <2>3, <2>4
<1>4. DOMAIN todo = DOMAIN input
  BY <1>2
<1>5. todo \in Seq(Pending)
  <2>1. Len(input) \in Nat /\ DOMAIN todo = 1 .. Len(input)
    BY <1>1, <1>4
  <2>2. todo \in [1 .. Len(input) -> Pending]
    BY <1>2, <1>3, <1>4, <2>1
  <2> QED
    BY <2>1, <2>2
<1>6. NormalTypeOK /\ OpenIsInMap
  BY <1>1, <1>3, <1>4, <1>5 DEF NormalTypeOK, OpenIsInMap
<1>7. KeysAreGiven
  <2>1. ASSUME NEW i \in DOMAIN todo
        PROVE  todo[i].key \in KeysOf(input) /\ KeysOf(todo[i].members) \subseteq MemberKeys
    BY <1>3, <1>4 DEF KeysOf, MemberKeys
  <2> QED
    BY <1>1, <2>1 DEF KeysAreGiven, Range
<1>8. NormalKeepsRights
  <2>1. ASSUME NEW g PROVE g \in Grants(todo) <=> g \in Grants(input)
    <3>1. g \in Grants(todo) <=> \E i \in DOMAIN todo : g \in RightsOf(todo[i].key, todo[i].members)
      BY GrantsByRule DEF Range
    <3>2. g \in Grants(input) <=> \E i \in DOMAIN input : g \in RightsOf(input[i].key, input[i].members)
      BY GrantsByRule DEF Range
    <3> QED
      BY <1>3, <1>4, <3>1, <3>2
  <2>2. ASSUME NEW g PROVE g \notin Grants(rmap)
    BY <1>1, GrantsByRule
  <2> QED
    BY <2>1, <2>2 DEF NormalKeepsRights
<1>9. NormalIsSorted
  BY <1>1 DEF NormalIsSorted, Ordered
<1> QED
  BY <1>6, <1>7, <1>8, <1>9 DEF NInv

LEMMA StepKeepsNInv == NInv /\ [Command \/ Normalize]_pvars => NInv'
<1> SUFFICES ASSUME NInv, [Command \/ Normalize]_pvars PROVE NInv'
  OBVIOUS
<1>1. CASE Normalize
  BY <1>1, AddRuleKeeps, AddMemberKeeps, NextRuleKeeps DEF Normalize
<1>2. CASE UNCHANGED normalized
  <2>1. input' = input /\ todo' = todo /\ rmap' = rmap
    BY <1>2 DEF normalized
  <2>2. NormalTypeOK' /\ OpenIsInMap'
    BY <2>1 DEF NInv, NormalTypeOK, OpenIsInMap
  <2>3. KeysAreGiven'
    BY <2>1 DEF NInv, KeysAreGiven, MemberKeys
  <2>4. NormalKeepsRights'
    BY <2>1 DEF NInv, NormalKeepsRights
  <2>5. NormalIsSorted'
    BY <2>1 DEF NInv, NormalIsSorted
  <2> QED
    BY <2>2, <2>3, <2>4, <2>5 DEF NInv
<1> QED
  BY <1>1, <1>2 DEF Command, pvars

LEMMA NormalInv == PolicySpec => []NInv
<1>1. GeneratorInit /\ NormalizeInit(Inputs) => NInv
  BY PoliciesAssumption, NormalizeInitInv
<1> QED
  BY <1>1, StepKeepsNInv, PTL DEF PolicySpec

\* For any access control list, however the maps search: AddRules and AddMembers neither add
\* nor lose a right, at any step.
THEOREM RightsAreKept == PolicySpec => []NormalKeepsRights
<1>1. NInv => NormalKeepsRights
  BY DEF NInv
<1> QED
  BY <1>1, NormalInv, PTL

\* Where RuleCompare and MemberCompare are an order on the keys that occur, the maps of
\* NormalizePolicy are sorted and hold no key twice.
THEOREM NormalIsInOrder == PolicySpec => []NormalIsSorted
<1>1. NInv => NormalIsSorted
  BY DEF NInv
<1> QED
  BY <1>1, NormalInv, PTL

--------------------------------------------------------------------------------
(* Policies of the command line *)

\* A policy is put together from its lists.
LEMMA RangeOfConcat ==
  ASSUME NEW S, NEW s \in Seq(S), NEW t \in Seq(S)
  PROVE  Range(s \o t) = Range(s) \cup Range(t)
<1> DEFINE u == s \o t
<1>1. /\ DOMAIN s = 1 .. Len(s) /\ DOMAIN t = 1 .. Len(t) /\ DOMAIN u = 1 .. Len(s) + Len(t)
      /\ Len(s) \in Nat /\ Len(t) \in Nat
      /\ \A i \in 1 .. Len(s) : u[i] = s[i]
      /\ \A i \in 1 .. Len(t) : u[Len(s) + i] = t[i]
  OBVIOUS
<1> HIDE DEF u
<1>2. ASSUME NEW i \in DOMAIN u PROVE u[i] \in Range(s) \cup Range(t)
  <2>1. CASE i <= Len(s)
    BY <1>1, <2>1 DEF Range
  <2>2. CASE i > Len(s)
    <3>1. i - Len(s) \in DOMAIN t /\ u[Len(s) + (i - Len(s))] = t[i - Len(s)]
      BY <1>1, <2>2
    <3> QED
      BY <1>1, <3>1 DEF Range
  <2> QED
    BY <1>1, <2>1, <2>2
<1>3. ASSUME NEW i \in DOMAIN s PROVE s[i] \in Range(u)
  BY <1>1 DEF Range
<1>4. ASSUME NEW i \in DOMAIN t PROVE t[i] \in Range(u)
  <2>1. Len(s) + i \in DOMAIN u /\ u[Len(s) + i] = t[i]
    BY <1>1
  <2> QED
    BY <2>1 DEF Range
<1> QED
  BY <1>2, <1>3, <1>4 DEF Range, u

\* The lists of a policy, whatever their order.
LEMMA ListsOfPolicy ==
  ASSUME NEW gs \in Seq(Groups)
  PROVE  Range(DefaultPolicy(gs)) = (IF deniedKeys = {} THEN {} ELSE {DenyAcl}) \cup {AdminAcl}
                                      \cup {DefaultGroupPolicyAcl(g) : g \in Range(gs)}
<1> DEFINE A == {DenyAcl, AdminAcl} \cup {DefaultGroupPolicyAcl(g) : g \in Groups}
           d == IF deniedKeys = {} THEN <<>> ELSE <<DenyAcl>>
           w == [i \in DOMAIN gs |-> DefaultGroupPolicyAcl(gs[i])]
<1>1. DenyAcl \in A /\ AdminAcl \in A /\ \A g \in Groups : DefaultGroupPolicyAcl(g) \in A
  OBVIOUS
<1>2. Range(w) = {DefaultGroupPolicyAcl(g) : g \in Range(gs)}
  BY DEF Range
<1> HIDE DEF A
<1>3. d \in Seq(A) /\ Range(d) = (IF deniedKeys = {} THEN {} ELSE {DenyAcl})
  <2>1. CASE deniedKeys = {}
    BY <2>1 DEF Range
  <2>2. CASE deniedKeys # {}
    BY <1>1, <2>2 DEF Range
  <2> QED
    BY <2>1, <2>2
<1>4. <<AdminAcl>> \in Seq(A) /\ Range(<<AdminAcl>>) = {AdminAcl}
  BY <1>1 DEF Range
<1>5. w \in Seq(A)
  <2>1. Len(gs) \in Nat /\ DOMAIN gs = 1 .. Len(gs) /\ \A i \in DOMAIN gs : gs[i] \in Groups
    OBVIOUS
  <2>2. w \in [1 .. Len(gs) -> A]
    BY <1>1, <2>1
  <2> QED
    BY <2>1, <2>2
<1>6. DefaultPolicy(gs) = (d \o <<AdminAcl>>) \o w
  BY DEF DefaultPolicy
<1> DEFINE a == <<AdminAcl>>
           da == d \o a
<1> HIDE DEF d, w, a
<1>7. a \in Seq(A) /\ da \in Seq(A)
  <2>1. a \in Seq(A)
    BY <1>4 DEF a
  <2> QED
    BY <1>3, <2>1
<1>8. Range(da) = Range(d) \cup Range(a)
  BY <1>3, <1>7, RangeOfConcat
<1> HIDE DEF da
<1>9. Range(da \o w) = Range(da) \cup Range(w)
  BY <1>5, <1>7, RangeOfConcat
<1>10. Range(DefaultPolicy(gs)) = Range(da) \cup Range(w)
  BY <1>6, <1>9 DEF da, a
<1> QED
  BY <1>2, <1>3, <1>4, <1>8, <1>10 DEF a

LEMMA DefaultPolicySaysWho ==
  ASSUME NEW gs \in Seq(Groups)
  PROVE  SaysWho(DefaultPolicy(gs), Range(gs))
<1> DEFINE acls == DefaultPolicy(gs)
<1> SUFFICES ASSUME NEW k \in Keys, NEW mine \in SUBSET (Groups \cup {Admins})
             PROVE  Allowed(acls, k, mine)
                      <=> k \notin deniedKeys /\ mine \cap (Range(gs) \cup {Admins}) # {}
  BY DEF SaysWho
<1>1. Range(acls) = (IF deniedKeys = {} THEN {} ELSE {DenyAcl}) \cup {AdminAcl}
                      \cup {DefaultGroupPolicyAcl(g) : g \in Range(gs)}
  BY ListsOfPolicy
<1> HIDE DEF acls
<1>2. /\ DenyAcl.type = "key" /\ DenyAcl.peers = deniedKeys /\ DenyAcl.mask = {}
      /\ AdminAcl.type = "member" /\ AdminAcl.peers = {Admins} /\ AdminAcl.mask # {}
  BY DEF DenyAcl, AdminAcl
<1>3. \A g : /\ DefaultGroupPolicyAcl(g).type = "member" /\ DefaultGroupPolicyAcl(g).peers = {g}
             /\ DefaultGroupPolicyAcl(g).mask # {}
  BY DEF DefaultGroupPolicyAcl
<1>4. (\A acl \in Range(acls) : acl.type = "key" /\ k \in acl.peers => acl.mask # {})
        <=> k \notin deniedKeys
  BY <1>1, <1>2, <1>3
<1>5. (\E acl \in Range(acls) : acl.type = "member" /\ acl.peers \cap mine # {} /\ acl.mask # {})
        <=> mine \cap (Range(gs) \cup {Admins}) # {}
  <2>1. ASSUME NEW acl \in Range(acls), acl.type = "member", acl.peers \cap mine # {}
        PROVE  mine \cap (Range(gs) \cup {Admins}) # {}
    BY <1>1, <1>2, <1>3, <2>1
  <2>2. ASSUME Admins \in mine
        PROVE  AdminAcl \in Range(acls) /\ AdminAcl.peers \cap mine # {}
    BY <1>1, <1>2, <2>2
  <2>3. ASSUME NEW g \in Range(gs), g \in mine
        PROVE  /\ DefaultGroupPolicyAcl(g) \in Range(acls)
               /\ DefaultGroupPolicyAcl(g).peers \cap mine # {}
    BY <1>1, <1>3, <2>3
  <2>4. ASSUME NEW g \in mine, g \in Range(gs) \cup {Admins}
        PROVE  \E acl \in Range(acls) : acl.type = "member" /\ acl.peers \cap mine # {} /\ acl.mask # {}
    BY <1>2, <1>3, <2>2, <2>3, <2>4
  <2> QED
    BY <2>1, <2>4
<1> QED
  BY <1>4, <1>5 DEF Allowed

(***************************************************************************)
(* For any keys, groups and blacklists: the policy that DefaultPolicy      *)
(* writes allows the administrators and the members of the groups it was   *)
(* asked for, and nobody on the list of denied keys.                       *)
(***************************************************************************)
THEOREM PoliciesAreExact == PolicySpec => PoliciesSayWho
<1>1. ASSUME NEW gs \in Requests, InstallPolicy(gs) PROVE SaysWho(policy'.acls, Range(gs))
  <2>1. gs \in Seq(Groups)
    <3>1. CASE gs = <<>>
      BY <3>1
    <3>2. ASSUME NEW g \in Groups, gs = <<g>> PROVE gs \in Seq(Groups)
      BY <3>2
    <3>3. ASSUME NEW g \in Groups, NEW h \in Groups, gs = <<g, h>> PROVE gs \in Seq(Groups)
      BY <3>3
    <3> QED
      BY <3>1, <3>2, <3>3 DEF Requests
  <2>2. policy'.acls = DefaultPolicy(gs)
    BY <1>1 DEF InstallPolicy
  <2> QED
    BY <2>1, <2>2, DefaultPolicySaysWho
<1>2. [\A gs \in Requests : InstallPolicy(gs) => SaysWho(policy'.acls, Range(gs))]_generated
  BY <1>1
<1> QED
  BY <1>2, PTL DEF PoliciesSayWho

--------------------------------------------------------------------------------
(* The rights of manifests *)

\* What a rule allows, and what is left of it, one right at a time.
LEMMA RightsAre ==
  ASSUME NEW rules, NEW x
  PROVE  x \in Rights(rules) <=>
           \E r \in rules : \E m \in r.members : \E a \in m.mask : x = <<r.on, m.id, a>>
BY DEF Rights

LEMMA LeftIs ==
  ASSUME NEW m, NEW members, NEW a
  PROVE  a \in Left(m, members) <=>
           a \in m.mask /\ ~\E y \in members : y.id = m.id /\ a \in y.mask
BY DEF Left

\* Some member of these with this name and type has this action.
Allows(members, id, a) == \E m \in members : m.id = id /\ a \in m.mask

\* What is left of a rule is what no rule about its object allows.
LEMMA RemainingIs ==
  ASSUME NEW r, NEW others, NEW id, NEW a
  PROVE  Allows(Remaining(r, others), id, a) <=>
           /\ Allows(r.members, id, a)
           /\ ~\E o \in others : o.on = r.on /\ Allows(o.members, id, a)
<1> DEFINE same == {o \in others : o.on = r.on}
           denied == UNION {o.members : o \in same}
<1>1. CASE same = {}
  BY <1>1 DEF Remaining, Allows
<1>2. CASE same # {}
  <2>1. Remaining(r, others) =
          {l \in {[id |-> m.id, mask |-> Left(m, denied)] : m \in r.members} : l.mask # {}}
    BY <1>2 DEF Remaining
  <2>2. (\E l \in Remaining(r, others) : l.id = id /\ a \in l.mask) <=>
          \E m \in r.members : m.id = id /\ a \in Left(m, denied)
    <3>1. ASSUME NEW m \in r.members, m.id = id, a \in Left(m, denied)
          PROVE  \E l \in Remaining(r, others) : l.id = id /\ a \in l.mask
      <4> DEFINE l == [id |-> m.id, mask |-> Left(m, denied)]
      <4>1. l \in Remaining(r, others)
        BY <2>1, <3>1
      <4>2. QED
        BY <3>1, <4>1
    <3>2. ASSUME NEW l \in Remaining(r, others), l.id = id, a \in l.mask
          PROVE  \E m \in r.members : m.id = id /\ a \in Left(m, denied)
      <4>1. PICK m \in r.members : l = [id |-> m.id, mask |-> Left(m, denied)]
        BY <2>1
      <4>2. l.id = m.id /\ l.mask = Left(m, denied)
        BY <4>1
      <4>3. QED
        BY <3>2, <4>2
    <3>3. QED
      BY <3>1, <3>2
  <2>3. \A m \in r.members : a \in Left(m, denied) <=>
          a \in m.mask /\ ~\E y \in denied : y.id = m.id /\ a \in y.mask
    BY LeftIs
  <2>4. (\E y \in denied : y.id = id /\ a \in y.mask) <=>
          \E o \in others : o.on = r.on /\ Allows(o.members, id, a)
    BY DEF Allows
  <2>5. QED
    BY <2>2, <2>3, <2>4 DEF Allows
<1>3. QED
  BY <1>1, <1>2

\* The difference of two manifests is the difference of their rights.
LEMMA SubtractIsExact ==
  ASSUME NEW rules, NEW others
  PROVE  Rights(Subtract(rules, others)) = Rights(rules) \ Rights(others)
<1>1. ASSUME NEW x \in Rights(Subtract(rules, others))
      PROVE  x \in Rights(rules) /\ x \notin Rights(others)
  <2>1. PICK s \in Subtract(rules, others) : \E m \in s.members : \E a \in m.mask : x = <<s.on, m.id, a>>
    BY RightsAre
  <2>2. PICK l \in s.members : \E a \in l.mask : x = <<s.on, l.id, a>>
    BY <2>1
  <2>3. PICK a \in l.mask : x = <<s.on, l.id, a>>
    BY <2>2
  <2>4. PICK r \in rules : s = [on |-> r.on, members |-> Remaining(r, others)]
    BY DEF Subtract
  <2>5. Allows(r.members, l.id, a) /\ ~\E o \in others : o.on = r.on /\ Allows(o.members, l.id, a)
    <3>1. Allows(Remaining(r, others), l.id, a)
      BY <2>4 DEF Allows
    <3>2. QED
      BY <3>1, RemainingIs
  <2>6. x = <<r.on, l.id, a>>
    BY <2>4, <2>3
  <2>7. x \in Rights(rules)
    BY <2>5, <2>6, RightsAre DEF Allows
  <2>8. ASSUME x \in Rights(others) PROVE FALSE
    <3>1. PICK o \in others : \E y \in o.members : \E b \in y.mask : x = <<o.on, y.id, b>>
      BY <2>8, RightsAre
    <3>2. PICK y \in o.members : \E b \in y.mask : x = <<o.on, y.id, b>>
      BY <3>1
    <3>3. PICK b \in y.mask : x = <<o.on, y.id, b>>
      BY <3>2
    <3>4. o.on = r.on /\ y.id = l.id /\ b = a
      BY <2>6, <3>3
    <3>5. QED
      BY <2>5, <3>4 DEF Allows
  <2>9. QED
    BY <2>7, <2>8
<1>2. ASSUME NEW x \in Rights(rules), x \notin Rights(others)
      PROVE  x \in Rights(Subtract(rules, others))
  <2>1. PICK r \in rules : \E m \in r.members : \E a \in m.mask : x = <<r.on, m.id, a>>
    BY <1>2, RightsAre
  <2>2. PICK m \in r.members : \E a \in m.mask : x = <<r.on, m.id, a>>
    BY <2>1
  <2>3. PICK a \in m.mask : x = <<r.on, m.id, a>>
    BY <2>2
  <2>4. ~\E o \in others : o.on = r.on /\ Allows(o.members, m.id, a)
    <3>1. ASSUME NEW o \in others, o.on = r.on, NEW y \in o.members, y.id = m.id, a \in y.mask
          PROVE  FALSE
      BY <1>2, <2>3, <3>1, RightsAre
    <3>2. QED
      BY <3>1 DEF Allows
  <2>5. PICK l \in Remaining(r, others) : l.id = m.id /\ a \in l.mask
    <3>1. Allows(r.members, m.id, a)
      BY DEF Allows
    <3>2. Allows(Remaining(r, others), m.id, a)
      BY <2>4, <3>1, RemainingIs
    <3>3. QED
      BY <3>2 DEF Allows
  <2> DEFINE s == [on |-> r.on, members |-> Remaining(r, others)]
  <2>6. s \in Subtract(rules, others)
    BY <2>5 DEF Subtract
  <2>7. s.on = r.on /\ l \in s.members
    BY <2>5
  <2>8. QED
    BY <2>3, <2>5, <2>6, <2>7, RightsAre
<1>3. QED
  BY <1>1, <1>2

LEMMA NothingAllowsNothing == Rights({}) = {}
BY DEF Rights

\* A manifest that is as it was serialised, with rules.
Whole(m) == m = [rules |-> m.rules, bytes |-> m.rules]
Filled(m) == Whole(m) /\ m.rules # {}

\* What is told of an update is exact: it was made while Util could serialise.
Told(u) ==
  /\ u = [old |-> u.old, new |-> u.new, additional |-> u.additional, removed |-> u.removed]
  /\ Exact(u)
  /\ \A p \in {"old", "new", "additional", "removed"} : Whole(u[p])

\* An update of which the old manifest was shown: to show what it adds is to show all of the new one.
Shown(u) == Rights(u.old.rules) \subseteq approved /\ u.new.rules # {}

\* The bus attachment stays until the updater and the queue have ended, and no job begins without it.
JobHasBus ==
  /\ ba \in BOOLEAN /\ agent \in {"down", "up", "ending", "stopped"}
  /\ job.pc \in {"idle", "identity", "compare"}
  /\ job.pc # "idle" => ba /\ agent \in {"up", "ending"}
  /\ agent = "down" => ~ba

\* A job has manifests that are whole, and the one it has read was shown.
JobIsWhole ==
  /\ app.template # {} /\ row.bytes # {}
  /\ DOMAIN job = DOMAIN NoJob
  /\ job.pc # "idle" => Filled(job.mf) /\ Rights(job.mf.rules) \subseteq approved
  /\ job.pc = "compare" => Filled(job.new)

OffersAreShown ==
  /\ event = NoUpdate \/ (Told(event) /\ Shown(event))
  /\ offers \in Seq({offers[i] : i \in DOMAIN offers})
  /\ \A i \in DOMAIN offers : Told(offers[i]) /\ Shown(offers[i])

MInv == OnlyShownRights /\ JobHasBus /\ JobIsWhole /\ OffersAreShown

\* A sequence is one of what is in it.
LEMMA SeqOfItsOwn ==
  ASSUME NEW S, NEW s \in Seq(S)
  PROVE  s \in Seq({s[i] : i \in DOMAIN s})
<1>1. Len(s) \in Nat /\ DOMAIN s = 1 .. Len(s) /\ s = [i \in 1 .. Len(s) |-> s[i]]
  OBVIOUS
<1>2. \A i \in 1 .. Len(s) : s[i] \in {s[j] : j \in DOMAIN s}
  BY <1>1
<1>3. s \in [1 .. Len(s) -> {s[j] : j \in DOMAIN s}]
  BY <1>1, <1>2
<1>4. QED
  BY <1>1, <1>3

\* An update that is made while Util can serialise is told as it is.
LEMMA UpdateIsTold ==
  ASSUME NEW old, NEW new, Filled(old), Filled(new), ba
  PROVE  /\ Told(ManifestUpdate(old, new))
         /\ ManifestUpdate(old, new).old = old /\ ManifestUpdate(old, new).new = new
<1> DEFINE u == ManifestUpdate(old, new)
<1>1. old.bytes = old.rules /\ new.bytes = new.rules /\ old.rules # {} /\ new.rules # {}
  BY DEF Filled, Whole
<1>2. Copy(old) = old /\ Copy(new) = new
  BY <1>1 DEF Copy
<1>3. u = [old |-> old, new |-> new, additional |-> Difference(new, old, Empty),
           removed |-> Difference(old, new, Empty)]
  BY <1>2 DEF ManifestUpdate
<1>4. ASSUME NEW m, NEW o, m.rules # {}, o.rules # {}
      PROVE  /\ Whole(Difference(m, o, Empty))
             /\ Rights(Difference(m, o, Empty).rules) = Rights(m.rules) \ Rights(o.rules)
  <2>1. CASE Subtract(m.rules, o.rules) = {}
    <3>1. Difference(m, o, Empty) = Empty
      BY <2>1 DEF Difference
    <3>2. Rights(m.rules) \ Rights(o.rules) = {}
      BY <2>1, SubtractIsExact, NothingAllowsNothing
    <3>3. QED
      BY <3>1, <3>2, NothingAllowsNothing DEF Empty, Whole
  <2>2. CASE Subtract(m.rules, o.rules) # {}
    <3>1. Difference(m, o, Empty) = [rules |-> Subtract(m.rules, o.rules), bytes |-> Subtract(m.rules, o.rules)]
      BY <1>4, <2>2 DEF Difference, SetFromRules, Marshals
    <3>2. QED
      BY <3>1, SubtractIsExact DEF Whole
  <2>3. QED
    BY <2>1, <2>2
<1>5. Whole(u.additional) /\ Whole(u.removed) /\ Whole(u.old) /\ Whole(u.new)
  BY <1>1, <1>3, <1>4 DEF Filled
<1>6. Exact(u)
  <2>1. /\ Rights(u.additional.rules) = Rights(u.new.rules) \ Rights(u.old.rules)
        /\ Rights(u.removed.rules) = Rights(u.old.rules) \ Rights(u.new.rules)
    BY <1>1, <1>3, <1>4
  <2>2. ASSUME NEW p \in DOMAIN u PROVE u[p].bytes = u[p].rules
    <3>1. p \in {"old", "new", "additional", "removed"}
      BY <1>3
    <3>2. Whole(u[p])
      BY <1>5, <3>1
    <3>3. QED
      BY <3>2 DEF Whole
  <2>3. QED
    BY <2>1, <2>2 DEF Exact
<1>7. QED
  BY <1>3, <1>5, <1>6 DEF Told

\* A copy of an update that is whole is the update.
LEMMA CopyIsSame ==
  ASSUME NEW u, Told(u)
  PROVE  [p \in DOMAIN u |-> Copy(u[p])] = u
<1>1. DOMAIN u = {"old", "new", "additional", "removed"}
  BY DEF Told
<1>2. ASSUME NEW p \in DOMAIN u PROVE Copy(u[p]) = u[p]
  <2>1. Whole(u[p])
    BY <1>1 DEF Told
  <2>2. QED
    BY <2>1 DEF Whole, Copy, Empty
<1>3. u = [p \in DOMAIN u |-> u[p]]
  BY DEF Told
<1>4. QED
  BY <1>2, <1>3

LEMMA ManifestInitInv == ManifestInit => MInv
<1> SUFFICES ASSUME ManifestInit PROVE MInv
  OBVIOUS
<1>1. OnlyShownRights
  BY DEF ManifestInit, OnlyShownRights
<1>2. job = NoJob /\ ba = FALSE /\ agent = "down"
  BY DEF ManifestInit
<1>3. app.template # {} /\ row.bytes # {}
  <2>1. PICK t \in Templates : app = [template |-> t, needs |-> FALSE] /\ row = [bytes |-> t, fresh |-> FALSE]
    BY DEF ManifestInit
  <2>2. QED
    BY <2>1, ManifestsAssumption
<1>4. JobHasBus /\ JobIsWhole
  BY <1>2, <1>3 DEF JobHasBus, JobIsWhole, NoJob
<1>5. OffersAreShown
  BY DEF ManifestInit, OffersAreShown
<1>6. QED
  BY <1>1, <1>5, <1>4 DEF MInv

\* A step of the agent or of Util leaves what manifests there are, or takes one away.
LEMMA AgentKeepsMInv ==
  ASSUME MInv, AgentInit \/ DestroyUpdater \/ StopQueue \/ UtilFini
  PROVE  MInv'
<1>1. UNCHANGED <<app, row, job, offers, approved>>
  BY DEF AgentInit, DestroyUpdater, StopQueue, UtilFini
<1>2. event' = event \/ event' = NoUpdate
  BY DEF AgentInit, DestroyUpdater, StopQueue, UtilFini
<1>3. OnlyShownRights'
  BY <1>1 DEF MInv, OnlyShownRights
<1>4. JobHasBus'
  BY DEF MInv, JobHasBus, AgentInit, DestroyUpdater, StopQueue, UtilFini
<1>5. JobIsWhole'
  BY <1>1 DEF MInv, JobIsWhole
<1>6. OffersAreShown'
  BY <1>1, <1>2 DEF MInv, OffersAreShown, Shown
<1>7. QED
  BY <1>3, <1>4, <1>5, <1>6 DEF MInv

\* The updater reads manifests while Util can, and tells of them whole.
LEMMA UpdaterKeepsMInv ==
  ASSUME MInv, ReadStored \/ SendIdentity \/ ReadTemplate \/ Compare
  PROVE  MInv'
<1>1. UNCHANGED <<ba, agent, offers, approved>>
  BY DEF ReadStored, SendIdentity, ReadTemplate, Compare
<1>2. CASE ReadStored
  <2>1. UNCHANGED <<app, row, event>>
    BY <1>2 DEF ReadStored
  <2>2. CASE ~ba
    <3>1. job' = NoJob
      BY <1>2, <2>2 DEF ReadStored
    <3>2. JobHasBus' /\ JobIsWhole'
      BY <1>1, <2>1, <3>1 DEF MInv, JobHasBus, JobIsWhole, NoJob
    <3>3. QED
      BY <1>1, <2>1, <3>2 DEF MInv, OnlyShownRights, OffersAreShown, Shown
  <2>3. CASE ba
    <3> DEFINE mf == [rules |-> row.bytes, bytes |-> row.bytes]
    <3>1. job' = [NoJob EXCEPT !.pc = "identity", !.mf = mf, !.send = row.fresh]
      BY <1>2, <2>3 DEF ReadStored, SetFromByteArray, Marshals
    <3>2. job'.pc = "identity" /\ job'.mf = mf /\ DOMAIN job' = DOMAIN NoJob
      BY <3>1 DEF NoJob
    <3>3. Filled(mf) /\ Rights(mf.rules) \subseteq approved
      BY DEF MInv, JobIsWhole, OnlyShownRights, Filled, Whole
    <3>4. JobHasBus'
      BY <1>1, <1>2, <2>3, <3>2 DEF MInv, JobHasBus, ReadStored
    <3>5. JobIsWhole'
      BY <1>1, <2>1, <3>2, <3>3 DEF MInv, JobIsWhole
    <3>6. QED
      BY <1>1, <2>1, <3>4, <3>5 DEF MInv, OnlyShownRights, OffersAreShown, Shown
  <2>4. QED
    BY <2>2, <2>3
<1>3. CASE SendIdentity
  <2>1. job' = NoJob /\ event' = event /\ row' = [row EXCEPT !.fresh = job.late]
          /\ app' = [app EXCEPT !.needs = FALSE]
    BY <1>3 DEF SendIdentity
  <2>2. row'.bytes = row.bytes /\ app'.template = app.template
    BY <2>1
  <2>3. JobHasBus' /\ JobIsWhole'
    BY <1>1, <2>1, <2>2 DEF MInv, JobHasBus, JobIsWhole, NoJob
  <2>4. QED
    BY <1>1, <2>1, <2>2, <2>3 DEF MInv, OnlyShownRights, OffersAreShown, Shown
<1>4. CASE ReadTemplate
  <2>1. UNCHANGED <<app, row, event>> /\ job.pc = "identity"
    BY <1>4 DEF ReadTemplate
  <2>2. CASE job' = NoJob
    <3>1. JobHasBus' /\ JobIsWhole'
      BY <1>1, <2>1, <2>2 DEF MInv, JobHasBus, JobIsWhole, NoJob
    <3>2. QED
      BY <1>1, <2>1, <3>1 DEF MInv, OnlyShownRights, OffersAreShown, Shown
  <2>3. CASE ba /\ job' = [job EXCEPT !.pc = "compare", !.new = SetFromRules(Empty, app.template)]
    <3> DEFINE new == [rules |-> app.template, bytes |-> app.template]
    <3>1. job' = [job EXCEPT !.pc = "compare", !.new = new]
      BY <2>3 DEF SetFromRules, Marshals
    <3>2. job'.pc = "compare" /\ job'.mf = job.mf /\ job'.new = new /\ DOMAIN job' = DOMAIN NoJob
      BY <3>1 DEF MInv, JobIsWhole, NoJob
    <3>3. Filled(new)
      BY DEF MInv, JobIsWhole, Filled, Whole
    <3>4. JobHasBus'
      BY <1>1, <2>1, <3>2 DEF MInv, JobHasBus
    <3>5. JobIsWhole'
      BY <1>1, <2>1, <3>2, <3>3 DEF MInv, JobIsWhole
    <3>6. QED
      BY <1>1, <2>1, <3>4, <3>5 DEF MInv, OnlyShownRights, OffersAreShown, Shown
  <2>4. QED
    BY <1>4, <2>2, <2>3 DEF ReadTemplate
<1>5. CASE Compare
  <2>1. UNCHANGED <<app, row>> /\ job.pc = "compare" /\ job' = NoJob /\ event' = ManifestUpdate(job.mf, job.new)
    BY <1>5 DEF Compare
  <2>2. /\ Filled(job.mf) /\ Filled(job.new) /\ ba
        /\ Rights(job.mf.rules) \subseteq approved
    BY <2>1 DEF MInv, JobIsWhole, JobHasBus
  <2>3. Told(event') /\ event'.old = job.mf /\ event'.new = job.new
    BY <2>1, <2>2, UpdateIsTold
  <2>4. event'.new.rules # {} /\ Rights(event'.old.rules) \subseteq approved
    BY <2>2, <2>3 DEF Filled
  <2>5. OffersAreShown'
    BY <1>1, <2>3, <2>4 DEF MInv, OffersAreShown, Shown
  <2>6. JobHasBus' /\ JobIsWhole'
    BY <1>1, <2>1 DEF MInv, JobHasBus, JobIsWhole, NoJob
  <2>7. QED
    BY <1>1, <2>1, <2>5, <2>6 DEF MInv, OnlyShownRights
<1>6. QED
  BY <1>2, <1>3, <1>4, <1>5

\* What the listener keeps is what was told, and comes after what it has.
LEMMA ListenerKeepsMInv == ASSUME MInv, OnManifestUpdate PROVE MInv'
<1>1. UNCHANGED <<ba, agent, app, row, job, approved>> /\ event # NoUpdate /\ event' = NoUpdate
  BY DEF OnManifestUpdate
<1>2. Told(event) /\ Shown(event)
  BY <1>1 DEF MInv, OffersAreShown
<1>3. offers' = Append(offers, event)
  BY <1>2, CopyIsSame DEF OnManifestUpdate
<1> DEFINE Of == {offers[i] : i \in DOMAIN offers}
<1>4. offers \in Seq(Of) /\ (\A i \in DOMAIN offers : Told(offers[i]) /\ Shown(offers[i]))
  BY DEF MInv, OffersAreShown
<1> HIDE DEF Of
<1>5. offers \in Seq(Of \cup {event})
  BY <1>4
<1>6. /\ offers' \in Seq(Of \cup {event})
      /\ Len(offers') = Len(offers) + 1 /\ Len(offers) \in Nat
      /\ DOMAIN offers = 1 .. Len(offers) /\ DOMAIN offers' = 1 .. Len(offers')
      /\ \A i \in 1 .. Len(offers) : offers'[i] = offers[i]
      /\ offers'[Len(offers) + 1] = event
  BY <1>3, <1>5
<1>7. offers' \in Seq({offers'[i] : i \in DOMAIN offers'})
  BY <1>6, SeqOfItsOwn
<1>8. ASSUME NEW i \in DOMAIN offers' PROVE Told(offers'[i]) /\ Shown(offers'[i])
  <2>1. i \in DOMAIN offers \/ i = Len(offers) + 1
    BY <1>6
  <2>2. QED
    BY <1>2, <1>4, <1>6, <2>1
<1>9. OffersAreShown'
  BY <1>1, <1>7, <1>8 DEF OffersAreShown, Shown
<1>10. JobHasBus' /\ JobIsWhole' /\ OnlyShownRights'
  BY <1>1 DEF MInv, JobHasBus, JobIsWhole, OnlyShownRights
<1>11. QED
  BY <1>9, <1>10 DEF MInv

\* What the administrator accepts is shown with what it adds, and nothing shown is taken back.
LEMMA AnswerKeepsMInv == ASSUME MInv, HandleManifestUpdate PROVE MInv'
<1>1. UNCHANGED <<ba, agent, app, event>> /\ offers # <<>> /\ offers' = Tail(offers)
  BY DEF HandleManifestUpdate
<1> DEFINE Of == {offers[i] : i \in DOMAIN offers}
           u == Head(offers)
<1>2. offers \in Seq(Of) /\ (\A i \in DOMAIN offers : Told(offers[i]) /\ Shown(offers[i]))
  BY DEF MInv, OffersAreShown
<1> HIDE DEF Of
<1>3. /\ offers' \in Seq(Of) /\ Len(offers) \in Nat /\ Len(offers) > 0
      /\ DOMAIN offers = 1 .. Len(offers) /\ DOMAIN offers' = 1 .. (Len(offers) - 1)
      /\ \A i \in DOMAIN offers' : offers'[i] = offers[i + 1]
      /\ u = offers[1]
  BY <1>1, <1>2
<1>4. offers' \in Seq({offers'[i] : i \in DOMAIN offers'})
  BY <1>3, SeqOfItsOwn
<1>5. Told(u) /\ Shown(u)
  BY <1>2, <1>3
<1>6. \A i \in DOMAIN offers' : i + 1 \in DOMAIN offers
  BY <1>3
<1>7. \A i \in DOMAIN offers' : Told(offers'[i]) /\ Shown(offers'[i])
  BY <1>2, <1>3, <1>6
<1>8. approved \subseteq approved'
  BY DEF HandleManifestUpdate
<1>9. OffersAreShown'
  <2>1. \A o : Shown(o) => Rights(o.old.rules) \subseteq approved' /\ o.new.rules # {}
    BY <1>8 DEF Shown
  <2>2. QED
    BY <1>1, <1>4, <1>7, <2>1 DEF MInv, OffersAreShown, Shown
<1>10. job' = job \/ job' = [job EXCEPT !.late = job.pc # "idle"]
  BY DEF HandleManifestUpdate
<1>11. job'.pc = job.pc /\ job'.mf = job.mf /\ job'.new = job.new /\ DOMAIN job' = DOMAIN job
  BY <1>10 DEF MInv, JobIsWhole, NoJob
<1>12. row' = row \/ (row'.bytes = u.new.bytes /\ approved' = approved \cup Rights(u.additional.rules))
  BY DEF HandleManifestUpdate
<1>13. /\ u.new.bytes = u.new.rules /\ u.new.rules # {}
       /\ Rights(u.additional.rules) = Rights(u.new.rules) \ Rights(u.old.rules)
       /\ Rights(u.old.rules) \subseteq approved
  <2>1. Whole(u.new)
    BY <1>5 DEF Told
  <2>2. QED
    BY <1>5, <2>1 DEF Told, Exact, Shown, Whole
<1>14. OnlyShownRights'
  BY <1>8, <1>12, <1>13 DEF MInv, OnlyShownRights
<1>15. JobHasBus'
  BY <1>1, <1>11 DEF MInv, JobHasBus
<1>16. JobIsWhole'
  BY <1>1, <1>8, <1>11, <1>12, <1>13 DEF MInv, JobIsWhole
<1>17. QED
  BY <1>9, <1>14, <1>15, <1>16 DEF MInv

LEMMA ManifestStepInv == MInv /\ [ManifestNext]_mvars => MInv'
<1> SUFFICES ASSUME MInv, [ManifestNext]_mvars PROVE MInv'
  OBVIOUS
<1>1. CASE TemplateChanges
  <2>1. UNCHANGED <<ba, agent, row, job, event, offers, approved>> /\ app'.template \in Templates
    BY <1>1 DEF TemplateChanges
  <2>2. JobHasBus' /\ JobIsWhole'
    BY <2>1, ManifestsAssumption DEF MInv, JobHasBus, JobIsWhole
  <2>3. QED
    BY <2>1, <2>2 DEF MInv, OnlyShownRights, OffersAreShown, Shown
<1>2. CASE UNCHANGED mvars
  BY <1>2 DEF mvars, MInv, OnlyShownRights, JobHasBus, JobIsWhole, OffersAreShown, Shown
<1>3. QED
  BY <1>1, <1>2, AgentKeepsMInv, UpdaterKeepsMInv, ListenerKeepsMInv, AnswerKeepsMInv DEF ManifestNext

\* No right is stored that the administrator was not shown: Manifest.cc, and the answer of the
\* administrator in secmanager.cc, however old the update and whatever was answered before.
THEOREM RightsAreShown == ManifestSpec => []OnlyShownRights
<1>1. MInv => OnlyShownRights
  BY DEF MInv
<1>2. QED
  BY <1>1, ManifestInitInv, ManifestStepInv, PTL DEF ManifestSpec

\* Every update the administrator has to decide on is the exact difference of its two manifests
\* (ManifestUpdate.h:50), for manifests of any size.
THEOREM UpdatesAreExact == ManifestSpec => []OffersAreExact
<1>1. MInv => OffersAreExact
  BY DEF MInv, OffersAreShown, OffersAreExact, Told
<1>2. QED
  BY <1>1, ManifestInitInv, ManifestStepInv, PTL DEF ManifestSpec
================================================================================
