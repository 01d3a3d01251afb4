-------------------------- MODULE NavigationProofs --------------------------
(***************************************************************************)
(* The root model keeps its informers, its view ids and its sessions       *)
(* straight: for every set of contexts, kinds and namespaces, every depth  *)
(* of the stack and every number of sessions, stores and drill-ins.        *)
(***************************************************************************)
EXTENDS Navigation, SequenceTheorems, TLAPS

-----------------------------------------------------------------------------
(* Sequences *)

\* The front of a sequence is the sequence without its last element.
LEMMA FrontOK ==
  ASSUME NEW S, NEW s \in Seq(S), s # <<>>, NEW u, u = Front(s)
  PROVE  /\ u \in Seq(S) /\ Len(u) = Len(s) - 1 /\ DOMAIN u = 1 .. Len(s) - 1
         /\ \A i \in DOMAIN u : i \in DOMAIN s /\ u[i] = s[i] /\ i # Len(s)
         /\ \A i \in DOMAIN s : i # Len(s) => i \in DOMAIN u
         /\ Len(s) \in DOMAIN s
<1>1. PICK n \in Nat : n = Len(s) /\ n # 0 /\ DOMAIN s = 1 .. n
  BY LenProperties, EmptySeq
<1>2. n - 1 \in Int /\ 1 \in Int /\ \A i \in 1 .. n - 1 : s[i] \in S
  BY <1>1
<1>3. /\ SubSeq(s, 1, n - 1) \in Seq(S)
      /\ Len(SubSeq(s, 1, n - 1)) = IF 1 <= n - 1 THEN (n - 1) - 1 + 1 ELSE 0
      /\ \A i \in 1 .. (n - 1) - 1 + 1 : SubSeq(s, 1, n - 1)[i] = s[1 + i - 1]
  BY <1>2, SubSeqProperties
<1>4. u = SubSeq(s, 1, n - 1)
  BY <1>1 DEF Front
<1>5. u \in Seq(S) /\ Len(u) = n - 1 /\ \A i \in 1 .. n - 1 : u[i] = s[i]
  BY <1>1, <1>3, <1>4
<1>6. DOMAIN u = 1 .. n - 1
  BY <1>5, LenProperties
<1> QED
  BY <1>1, <1>5, <1>6

\* Removing an element leaves elements of the sequence.
LEMMA RemoveOK ==
  ASSUME NEW S, NEW s \in Seq(S), NEW i \in DOMAIN s, NEW u, u = RemoveAt(s, i)
  PROVE  u \in Seq(S) /\ Len(u) = Len(s) - 1 /\ \A j \in DOMAIN u : \E k \in DOMAIN s : u[j] = s[k]
<1>1. PICK n \in Nat : n = Len(s) /\ DOMAIN s = 1 .. n
  BY LenProperties
<1>2. PICK T : T = {s[k] : k \in DOMAIN s}
  OBVIOUS
<1>3. PICK a, b : a = SubSeq(s, 1, i - 1) /\ b = SubSeq(s, i + 1, n)
  OBVIOUS
<1>4. a \in Seq(T) /\ Len(a) = i - 1
  <2>1. 1 \in Int /\ i - 1 \in Int /\ (\A k \in 1 .. i - 1 : s[k] \in T)
    BY <1>1, <1>2
  <2>2. a \in Seq(T) /\ Len(a) = IF 1 <= i - 1 THEN (i - 1) - 1 + 1 ELSE 0
    BY <1>3, <2>1, SubSeqProperties
  <2> QED
    BY <1>1, <2>2
<1>5. b \in Seq(T) /\ Len(b) = n - i
  <2>1. i + 1 \in Int /\ n \in Int /\ (\A k \in i + 1 .. n : s[k] \in T)
    BY <1>1, <1>2
  <2>2. b \in Seq(T) /\ Len(b) = IF i + 1 <= n THEN n - (i + 1) + 1 ELSE 0
    BY <1>3, <2>1, SubSeqProperties
  <2> QED
    BY <1>1, <2>2
<1>6. u = a \o b
  BY <1>1, <1>3 DEF RemoveAt
<1>7. u \in Seq(T) /\ Len(u) = Len(a) + Len(b)
  BY <1>4, <1>5, <1>6, ConcatProperties
<1>8. Len(u) = n - 1
  BY <1>1, <1>4, <1>5, <1>7
<1>9. T \subseteq S
  BY <1>1, <1>2
<1>10. \A j \in DOMAIN u : u[j] \in T
  BY <1>7, LenProperties
<1>11. u \in Seq(S)
  BY <1>7, <1>9, SeqMonotonic
<1> QED
  BY <1>1, <1>2, <1>8, <1>10, <1>11

\* Appending adds one element at the end.
LEMMA AppendOK ==
  ASSUME NEW S, NEW s \in Seq(S), NEW e \in S, NEW u, u = Append(s, e)
  PROVE  /\ u \in Seq(S) /\ Len(u) = Len(s) + 1 /\ u # <<>> /\ u[Len(u)] = e /\ Len(u) \in DOMAIN u
         /\ \A i \in DOMAIN s : i \in DOMAIN u /\ u[i] = s[i]
         /\ \A i \in DOMAIN u : i \in DOMAIN s \/ i = Len(u)
<1>1. PICK n \in Nat : n = Len(s) /\ DOMAIN s = 1 .. n
  BY LenProperties
<1>2. u \in Seq(S) /\ Len(u) = n + 1 /\ u # <<>> /\ u[n + 1] = e /\ \A i \in 1 .. n : u[i] = s[i]
  BY <1>1, AppendProperties
<1>3. DOMAIN u = 1 .. n + 1
  BY <1>2, LenProperties
<1> QED
  BY <1>1, <1>2, <1>3

\* A function on 1 .. n is a sequence of length n.
LEMMA FunctionIsSeq ==
  ASSUME NEW S, NEW n \in Nat, NEW u \in [1 .. n -> S]
  PROVE  u \in Seq(S) /\ Len(u) = n /\ DOMAIN u = 1 .. n
OBVIOUS

-----------------------------------------------------------------------------
(* The engine *)

StoreRec(n) == [sess: 1..MaxSessions, kind: Kinds, ns: Namespaces, view: 0..n,
                reg: BOOLEAN, state: {"run", "terminal", "stopped"}]

\* A store is in the engine's map exactly as long as it was not stopped, and the
\* map holds one store per session and kind.
EngineOK(ss, n) ==
  /\ ss \in Seq(StoreRec(n))
  /\ \A i \in DOMAIN ss : ss[i].reg <=> ss[i].state # "stopped"
  /\ \A i, j \in DOMAIN ss :
       ss[i].reg /\ ss[j].reg /\ ss[i].sess = ss[j].sess /\ ss[i].kind = ss[j].kind => i = j

\* What the engine never changes of a store but by stopping it.
SameStore(a, b) == a.sess = b.sess /\ a.kind = b.kind /\ a.view = b.view /\ (a.reg => a.state = b.state)

\* Store records under the updates the engine makes.
LEMMA StoreFields ==
  ASSUME NEW n \in Nat, NEW r \in StoreRec(n)
  PROVE  /\ r.sess \in 1..MaxSessions /\ r.kind \in Kinds /\ r.ns \in Namespaces /\ r.view \in 0..n
         /\ r.reg \in BOOLEAN /\ r.state \in {"run", "terminal", "stopped"}
BY DEF StoreRec

StoppedStore(r) == [r EXCEPT !.reg = FALSE, !.state = "stopped"]

\* Stopping a store changes its registration and its state.
LEMMA StoreStops ==
  ASSUME NEW n \in Nat, NEW r \in StoreRec(n), NEW q, q = StoppedStore(r)
  PROVE  /\ q \in StoreRec(n) /\ q.sess = r.sess /\ q.kind = r.kind /\ q.view = r.view
         /\ ~q.reg /\ q.state = "stopped"
<1>1. ASSUME NEW A, NEW B, NEW C, NEW D, NEW E, NEW F, "stopped" \in F,
             NEW x \in [sess: A, kind: B, ns: C, view: D, reg: BOOLEAN, state: F],
             NEW y, y = [x EXCEPT !.reg = FALSE, !.state = "stopped"]
      PROVE  /\ y \in [sess: A, kind: B, ns: C, view: D, reg: BOOLEAN, state: F]
             /\ y.sess = x.sess /\ y.kind = x.kind /\ y.view = x.view /\ ~y.reg /\ y.state = "stopped"
  BY <1>1
<1>2. "stopped" \in {"run", "terminal", "stopped"}
  OBVIOUS
<1> QED
  BY <1>1, <1>2 DEF StoreRec, StoppedStore

\* A new view id is larger than every one a store carries.
LEMMA StoreViewed ==
  ASSUME NEW n \in Nat, NEW r \in StoreRec(n), NEW q, q = [r EXCEPT !.view = n + 1]
  PROVE  /\ q \in StoreRec(n + 1) /\ q.sess = r.sess /\ q.kind = r.kind /\ q.view = n + 1
         /\ (q.reg <=> r.reg) /\ q.state = r.state
<1>1. ASSUME NEW A, NEW B, NEW C, NEW D, NEW E, NEW F, NEW G, NEW v \in E,
             NEW x \in [sess: A, kind: B, ns: C, view: D, reg: F, state: G],
             NEW y, y = [x EXCEPT !.view = v]
      PROVE  /\ y \in [sess: A, kind: B, ns: C, view: E, reg: F, state: G]
             /\ y.sess = x.sess /\ y.kind = x.kind /\ y.view = v /\ (y.reg <=> x.reg) /\ y.state = x.state
  BY <1>1
<1>2. n + 1 \in 0 .. n + 1
  OBVIOUS
<1> QED
  BY <1>1, <1>2 DEF StoreRec

\* A store of fewer view ids is a store of more.
LEMMA StoreGrows ==
  ASSUME NEW n \in Nat, NEW r \in StoreRec(n)
  PROVE  r \in StoreRec(n + 1)
<1>1. ASSUME NEW A, NEW B, NEW C, NEW D, NEW E, NEW F, NEW G, D \subseteq E,
             NEW x \in [sess: A, kind: B, ns: C, view: D, reg: F, state: G]
      PROVE  x \in [sess: A, kind: B, ns: C, view: E, reg: F, state: G]
  BY <1>1
<1>2. 0 .. n \subseteq 0 .. n + 1
  OBVIOUS
<1> QED
  BY <1>1, <1>2 DEF StoreRec

\* A failing store stays registered.
LEMMA StoreFailing ==
  ASSUME NEW n \in Nat, NEW r \in StoreRec(n), NEW q, q = [r EXCEPT !.state = "terminal"]
  PROVE  /\ q \in StoreRec(n) /\ q.sess = r.sess /\ q.kind = r.kind /\ q.view = r.view
         /\ (q.reg <=> r.reg) /\ q.state = "terminal"
<1>1. ASSUME NEW A, NEW B, NEW C, NEW D, NEW E, NEW F, "terminal" \in F,
             NEW x \in [sess: A, kind: B, ns: C, view: D, reg: E, state: F],
             NEW y, y = [x EXCEPT !.state = "terminal"]
      PROVE  /\ y \in [sess: A, kind: B, ns: C, view: D, reg: E, state: F]
             /\ y.sess = x.sess /\ y.kind = x.kind /\ y.view = x.view /\ (y.reg <=> x.reg) /\ y.state = "terminal"
  BY <1>1
<1>2. "terminal" \in {"run", "terminal", "stopped"}
  OBVIOUS
<1> QED
  BY <1>1, <1>2 DEF StoreRec

\* StopKind and StopAll stop the registered stores of the given sessions and
\* kinds, and no other store.
LEMMA Stopped ==
  ASSUME NEW n \in Nat, NEW ss, EngineOK(ss, n), NEW sks, NEW u, u = StopKinds(ss, sks)
  PROVE  /\ EngineOK(u, n) /\ Len(u) = Len(ss) /\ DOMAIN u = DOMAIN ss
         /\ \A i \in DOMAIN ss :
              /\ SameStore(u[i], ss[i])
              /\ u[i].reg <=> (ss[i].reg /\ <<ss[i].sess, ss[i].kind>> \notin sks)
<1>1. PICK len \in Nat : len = Len(ss) /\ DOMAIN ss = 1 .. len /\ \A i \in 1 .. len : ss[i] \in StoreRec(n)
  <2>1. ss \in Seq(StoreRec(n))
    BY DEF EngineOK
  <2> QED
    BY <2>1, LenProperties
<1>2. u = [i \in 1 .. len |-> IF ss[i].reg /\ <<ss[i].sess, ss[i].kind>> \in sks
                               THEN [ss[i] EXCEPT !.reg = FALSE, !.state = "stopped"] ELSE ss[i]]
  BY <1>1 DEF StopKinds
<1>3. ASSUME NEW i \in 1 .. len
      PROVE  /\ u[i] \in StoreRec(n) /\ SameStore(u[i], ss[i])
             /\ u[i].reg <=> (ss[i].reg /\ <<ss[i].sess, ss[i].kind>> \notin sks)
             /\ u[i].reg <=> u[i].state # "stopped"
  <2>1. PICK r \in StoreRec(n) : r = ss[i]
    BY <1>1
  <2>2. r.reg <=> r.state # "stopped"
    BY <1>1, <2>1 DEF EngineOK
  <2>3. CASE r.reg /\ <<r.sess, r.kind>> \in sks
    <3>1. PICK q : q = StoppedStore(r)
      OBVIOUS
    <3>2. /\ q \in StoreRec(n) /\ q.sess = r.sess /\ q.kind = r.kind /\ q.view = r.view
          /\ ~q.reg /\ q.state = "stopped"
      BY <3>1, StoreStops
    <3>3. u[i] = q
      BY <1>2, <2>1, <2>3, <3>1 DEF StoppedStore
    <3> QED
      BY <2>1, <2>3, <3>2, <3>3, Zenon DEF SameStore
  <2>4. CASE ~(r.reg /\ <<r.sess, r.kind>> \in sks)
    <3>1. u[i] = r
      BY <1>2, <2>1, <2>4
    <3> QED
      BY <2>1, <2>2, <2>4, <3>1, Zenon DEF SameStore
  <2> QED
    BY <2>3, <2>4
<1>4. u \in [1 .. len -> StoreRec(n)]
  BY <1>2, <1>3
<1>5. u \in Seq(StoreRec(n)) /\ Len(u) = len /\ DOMAIN u = 1 .. len
  BY <1>4
<1>6. \A i, j \in 1 .. len :
        u[i].reg /\ u[j].reg /\ u[i].sess = u[j].sess /\ u[i].kind = u[j].kind => i = j
  <2> SUFFICES ASSUME NEW i \in 1 .. len, NEW j \in 1 .. len,
                      u[i].reg, u[j].reg, u[i].sess = u[j].sess, u[i].kind = u[j].kind
               PROVE  i = j
    OBVIOUS
  <2>1. ss[i].reg /\ ss[j].reg /\ ss[i].sess = ss[j].sess /\ ss[i].kind = ss[j].kind
    BY <1>3, Zenon DEF SameStore
  <2> QED
    BY <1>1, <2>1 DEF EngineOK
<1> QED
  BY <1>1, <1>3, <1>5, <1>6, Zenon DEF EngineOK

\* The record of a new store.
LEMMA StoreIsNew ==
  ASSUME NEW n \in Nat, NEW s \in 1..MaxSessions, NEW k \in Kinds, NEW ns \in Namespaces, NEW q, q = NewStore(s, k, ns)
  PROVE  /\ q \in StoreRec(n) /\ q.sess = s /\ q.kind = k /\ q.view = 0 /\ q.reg /\ q.state = "run"
<1>1. 0 \in 0 .. n
  OBVIOUS
<1> QED
  BY <1>1 DEF NewStore, StoreRec

\* Ensure hands back the running store of the session and kind, an old one or a
\* new one, and leaves the stores of other sessions and kinds alone.
LEMMA Ensured ==
  ASSUME NEW n \in Nat, NEW ss, EngineOK(ss, n), NEW s \in 1..MaxSessions, NEW k \in Kinds, NEW ns \in Namespaces,
         NEW es, es = Ensure(ss, s, k, ns), NEW i, i = CHOOSE j \in Registered(es, s, k) : TRUE
  PROVE  /\ EngineOK(es, n) /\ i \in DOMAIN es
         /\ es[i].reg /\ es[i].state = "run" /\ es[i].sess = s /\ es[i].kind = k
         /\ \A j \in DOMAIN ss :
              /\ j \in DOMAIN es /\ SameStore(es[j], ss[j])
              /\ j # i => (es[j].reg <=> (ss[j].reg /\ ~(ss[j].sess = s /\ ss[j].kind = k)))
         /\ \A j \in DOMAIN es : j \in DOMAIN ss \/ j = i
<1>1. ASSUME NEW t, EngineOK(t, n), NEW x \in DOMAIN t, t[x].reg, t[x].sess = s, t[x].kind = k, t = es
      PROVE  i = x
  <2>1. x \in Registered(es, s, k)
    BY <1>1 DEF Registered
  <2>2. i \in Registered(es, s, k)
    BY <2>1
  <2>3. i \in DOMAIN t /\ t[i].reg /\ t[i].sess = s /\ t[i].kind = k
    BY <1>1, <2>2 DEF Registered
  <2> QED
    BY <1>1, <2>3, Zenon DEF EngineOK
<1>2. CASE \E x \in Registered(ss, s, k) : ss[x].ns = ns /\ ss[x].state # "terminal"
  <2>1. es = ss
    BY <1>2 DEF Ensure
  <2>2. PICK x \in DOMAIN ss : ss[x].reg /\ ss[x].sess = s /\ ss[x].kind = k /\ ss[x].state # "terminal"
    BY <1>2 DEF Registered
  <2>3. i = x
    BY <1>1, <2>1, <2>2
  <2>4. ss[x] \in StoreRec(n)
    BY LenProperties DEF EngineOK
  <2>5. ss[x].state \in {"run", "terminal", "stopped"}
    BY <2>4, StoreFields
  <2>6. ss[x].state = "run"
    BY <2>2, <2>5 DEF EngineOK
  <2>7. \A j \in DOMAIN ss : j # x => ~(ss[j].reg /\ ss[j].sess = s /\ ss[j].kind = k)
    BY <2>2, Zenon DEF EngineOK
  <2>8. \A j \in DOMAIN ss : SameStore(ss[j], ss[j])
    BY DEF SameStore
  <2> QED
    BY <2>1, <2>2, <2>3, <2>6, <2>7, <2>8, Zenon
<1>3. CASE ~ \E x \in Registered(ss, s, k) : ss[x].ns = ns /\ ss[x].state # "terminal"
  <2>0. PICK sks : sks = {<<s, k>>}
    OBVIOUS
  <2>1. PICK u, q : u = StopKinds(ss, sks) /\ q = NewStore(s, k, ns)
    OBVIOUS
  <2>2. /\ EngineOK(u, n) /\ Len(u) = Len(ss) /\ DOMAIN u = DOMAIN ss
        /\ \A j \in DOMAIN ss :
             /\ SameStore(u[j], ss[j])
             /\ u[j].reg <=> (ss[j].reg /\ <<ss[j].sess, ss[j].kind>> \notin sks)
    BY <2>1, Stopped
  <2>3. /\ q \in StoreRec(n) /\ q.sess = s /\ q.kind = k /\ q.reg /\ q.state = "run"
    BY <2>1, StoreIsNew
  <2>4. es = Append(u, q)
    BY <1>3, <2>0, <2>1 DEF Ensure
  <2>5. u \in Seq(StoreRec(n))
    BY <2>2 DEF EngineOK
  <2>6. /\ es \in Seq(StoreRec(n)) /\ es[Len(es)] = q /\ Len(es) \in DOMAIN es
        /\ \A j \in DOMAIN u : j \in DOMAIN es /\ es[j] = u[j]
        /\ \A j \in DOMAIN es : j \in DOMAIN u \/ j = Len(es)
    BY <2>3, <2>4, <2>5, AppendOK
  <2>7. PICK x : x = Len(es)
    OBVIOUS
  <2>8. \A j \in DOMAIN ss : u[j].reg <=> (ss[j].reg /\ ~(ss[j].sess = s /\ ss[j].kind = k))
    <3>1. \A a, b : <<a, b>> \notin sks <=> ~(a = s /\ b = k)
      BY <2>0
    <3> QED
      BY <2>2, <3>1, Zenon
  <2>9. \A j \in DOMAIN u : ~(u[j].reg /\ u[j].sess = s /\ u[j].kind = k)
    BY <2>2, <2>8, Zenon DEF SameStore
  <2>10. EngineOK(es, n)
    <3>1. \A j \in DOMAIN es : es[j].reg <=> es[j].state # "stopped"
      <4> TAKE j \in DOMAIN es
      <4>1. CASE j \in DOMAIN u
        BY <2>2, <2>6, <4>1, Zenon DEF EngineOK
      <4>2. CASE j = Len(es)
        <5>1. q.reg <=> q.state # "stopped"
          BY <2>3
        <5> QED
          BY <2>6, <4>2, <5>1, Zenon
      <4> QED
        BY <2>6, <4>1, <4>2
    <3>2. ASSUME NEW j \in DOMAIN es, NEW l \in DOMAIN es, es[j].reg, es[l].reg,
                 es[j].sess = es[l].sess, es[j].kind = es[l].kind
          PROVE  j = l
      <4>1. CASE j \in DOMAIN u /\ l \in DOMAIN u
        BY <2>2, <2>6, <3>2, <4>1, ZenonT(30) DEF EngineOK
      <4>2. CASE j = Len(es) /\ l = Len(es)
        BY <4>2
      <4>3. CASE j \in DOMAIN u /\ l = Len(es)
        BY <2>3, <2>6, <2>9, <3>2, <4>3, ZenonT(30)
      <4>4. CASE j = Len(es) /\ l \in DOMAIN u
        <5>1. u[l].reg /\ u[l].sess = s /\ u[l].kind = k
          BY <2>3, <2>6, <3>2, <4>4
        <5> QED
          BY <2>9, <4>4, <5>1, Zenon
      <4> QED
        BY <2>6, <4>1, <4>2, <4>3, <4>4
    <3> QED
      BY <2>6, <3>1, <3>2, Zenon DEF EngineOK
  <2>11. x \in DOMAIN es /\ es[x].reg /\ es[x].sess = s /\ es[x].kind = k /\ es[x].state = "run"
    BY <2>3, <2>6, <2>7, Zenon
  <2>12. i = x
    BY <1>1, <2>10, <2>11
  <2>13. \A j \in DOMAIN ss : j \in DOMAIN es /\ SameStore(es[j], ss[j])
              /\ (es[j].reg <=> (ss[j].reg /\ ~(ss[j].sess = s /\ ss[j].kind = k)))
    BY <2>2, <2>6, <2>8, Zenon
  <2>14. \A j \in DOMAIN es : j \in DOMAIN ss \/ j = i
    BY <2>2, <2>6, <2>7, <2>12, Zenon
  <2> QED
    BY <2>10, <2>11, <2>12, <2>13, <2>14, Zenon
<1> QED
  BY <1>2, <1>3

Stamp(es, i, v) == [es EXCEPT ![i].view = v]

\* OnEnter's stamp: the store of the page gets the next view id, which no store
\* had before.
LEMMA StampOK ==
  ASSUME NEW n \in Nat, NEW es, EngineOK(es, n), NEW i \in DOMAIN es, NEW u, u = Stamp(es, i, n + 1)
  PROVE  /\ EngineOK(u, n + 1) /\ DOMAIN u = DOMAIN es /\ Len(u) = Len(es)
         /\ \A j \in DOMAIN es : /\ u[j].sess = es[j].sess /\ u[j].kind = es[j].kind
                                 /\ (u[j].reg <=> es[j].reg) /\ u[j].state = es[j].state
                                 /\ j # i => u[j].view = es[j].view
         /\ u[i].view = n + 1
<1>0. PICK m \in Nat : m = n + 1
  OBVIOUS
<1>1. PICK len \in Nat : len = Len(es) /\ DOMAIN es = 1 .. len /\ \A j \in 1 .. len : es[j] \in StoreRec(n)
  BY LenProperties DEF EngineOK
<1>2. es = [j \in 1 .. len |-> es[j]]
  <2>1. es \in Seq(StoreRec(n))
    BY DEF EngineOK
  <2>2. es \in [1 .. len -> StoreRec(n)]
    BY <1>1, <2>1, LenProperties
  <2> QED
    BY <2>2
<1>3. u = [j \in 1 .. len |-> IF j = i THEN [es[i] EXCEPT !.view = n + 1] ELSE es[j]]
  BY <1>1, <1>2 DEF Stamp
<1>4. ASSUME NEW j \in 1 .. len
      PROVE  /\ u[j] \in StoreRec(m) /\ u[j].sess = es[j].sess /\ u[j].kind = es[j].kind
             /\ (u[j].reg <=> es[j].reg) /\ u[j].state = es[j].state
             /\ j # i => u[j].view = es[j].view
             /\ j = i => u[j].view = m
  <2>1. CASE j = i
    <3>1. PICK r \in StoreRec(n) : r = es[i]
      BY <1>1
    <3>2. PICK q : q = [r EXCEPT !.view = m]
      OBVIOUS
    <3>3. /\ q \in StoreRec(m) /\ q.sess = r.sess /\ q.kind = r.kind /\ q.view = m
          /\ (q.reg <=> r.reg) /\ q.state = r.state
      BY <1>0, <3>2, StoreViewed
    <3>4. u[i] = q
      BY <1>0, <1>1, <1>3, <3>1, <3>2
    <3> QED
      BY <2>1, <3>1, <3>3, <3>4, Zenon
  <2>2. CASE j # i
    <3>1. u[j] = es[j]
      BY <1>3, <2>2
    <3>2. es[j] \in StoreRec(m)
      BY <1>0, <1>1, StoreGrows
    <3> QED
      BY <2>2, <3>1, <3>2, Zenon
  <2> QED
    BY <2>1, <2>2
<1>5. u \in [1 .. len -> StoreRec(m)]
  BY <1>3, <1>4
<1>6. u \in Seq(StoreRec(m)) /\ Len(u) = len /\ DOMAIN u = 1 .. len
  BY <1>5, FunctionIsSeq, Zenon
<1>7. EngineOK(u, m)
  <2>1. \A j \in 1 .. len : u[j].reg <=> u[j].state # "stopped"
    BY <1>1, <1>4 DEF EngineOK
  <2>2. \A j, l \in 1 .. len :
          u[j].reg /\ u[l].reg /\ u[j].sess = u[l].sess /\ u[j].kind = u[l].kind => j = l
    BY <1>1, <1>4 DEF EngineOK
  <2> QED
    BY <1>6, <2>1, <2>2 DEF EngineOK
<1> QED
  BY <1>0, <1>1, <1>4, <1>6, <1>7

-----------------------------------------------------------------------------
(* Pages over the engine *)

\* A table page has the store it entered, and no other store carries its view id.
Attached(p, ss, n) ==
  IF p.kind \in Kinds
    THEN /\ p.store \in DOMAIN ss /\ ss[p.store].sess = p.sess /\ ss[p.store].kind = p.kind
         /\ p.view \in 1..n /\ \A i \in DOMAIN ss : ss[i].view = p.view => i = p.store
    ELSE p.store = 0

StackOK(ps, ss, n) == ps \in Seq(PageType) /\ \A k \in DOMAIN ps : Attached(ps[k], ss, n)

\* A running screen-scoped store has its page.
Screened(ps, ss) ==
  \A i \in DOMAIN ss : ss[i].state = "run" /\ ss[i].kind \notin Warm => \E k \in DOMAIN ps : ps[k].store = i

\* Every table of the stack is fed, and no two show the same kind.
Live(ps, ss) ==
  \A k \in DOMAIN ps : ps[k].kind \in Kinds =>
    ss[ps[k].store].view = ps[k].view /\ ss[ps[k].store].state # "stopped"
Distinct(ps) == \A j, k \in DOMAIN ps : ps[j].kind \in Kinds /\ ps[j].kind = ps[k].kind => j = k

\* Every registered store is of session s.
Owned(ss, s) == \A i \in DOMAIN ss : ss[i].reg => ss[i].sess = s

\* What the engine looks like after page p has entered it and got store i.
Entered(u, ss, i, p, n) ==
  /\ i \in DOMAIN u /\ u[i].reg /\ u[i].state = "run" /\ u[i].sess = p.sess /\ u[i].kind = p.kind /\ u[i].view = n + 1
  /\ \A j \in DOMAIN ss :
       /\ j \in DOMAIN u /\ u[j].sess = ss[j].sess /\ u[j].kind = ss[j].kind
       /\ j # i => /\ u[j].view = ss[j].view /\ (u[j].reg => u[j].state = ss[j].state)
                   /\ u[j].reg <=> (ss[j].reg /\ ~(ss[j].sess = p.sess /\ ss[j].kind = p.kind))
  /\ \A j \in DOMAIN u : j \in DOMAIN ss \/ j = i

\* The fields of a page.
LEMMA PageFields ==
  ASSUME NEW p \in PageType
  PROVE  /\ p.sess \in 1..MaxSessions /\ p.kind \in Kinds \cup {"text"} /\ p.ns \in Namespaces /\ p.view \in Nat
         /\ p.store \in 0..MaxStores
BY DEF PageType

ViewedPage(p, v, i) == [p EXCEPT !.view = v, !.store = i]

\* A page that was given its view id and its store.
LEMMA PageViewed ==
  ASSUME NEW p \in PageType, NEW v \in Nat, NEW i \in 0..MaxStores, NEW q, q = ViewedPage(p, v, i)
  PROVE  q \in PageType /\ q.sess = p.sess /\ q.kind = p.kind /\ q.ns = p.ns /\ q.view = v /\ q.store = i
<1>1. ASSUME NEW A, NEW B, NEW C, NEW D, NEW E, NEW x \in [sess: A, kind: B, ns: C, view: D, store: E],
             NEW d \in D, NEW e \in E, NEW y, y = [x EXCEPT !.view = d, !.store = e]
      PROVE  /\ y \in [sess: A, kind: B, ns: C, view: D, store: E]
             /\ y.sess = x.sess /\ y.kind = x.kind /\ y.ns = x.ns /\ y.view = d /\ y.store = e
  BY <1>1
<1> QED
  BY <1>1 DEF PageType, ViewedPage

\* OnEnter of a table: Ensure, the next view id, the stamp.
LEMMA TableEnters ==
  ASSUME viewSeq \in Nat, NEW ss, EngineOK(ss, viewSeq), NEW ps, NEW p \in PageType, p.kind \in Kinds,
         EnterPage(ss, ps, p)
  PROVE  \E i, q : /\ EngineOK(stores', viewSeq + 1) /\ viewSeq' = viewSeq + 1
                   /\ Entered(stores', ss, i, p, viewSeq)
                   /\ q \in PageType /\ q.kind = p.kind /\ q.sess = p.sess /\ q.view = viewSeq + 1 /\ q.store = i
                   /\ pages' = Append(ps, q)
<1>1. PICK es : es = Ensure(ss, p.sess, p.kind, p.ns)
  OBVIOUS
<1>2. PICK i : i = CHOOSE j \in Registered(es, p.sess, p.kind) : TRUE
  OBVIOUS
<1>3. PICK n \in Nat : n = viewSeq
  OBVIOUS
<1>4. PICK q : q = ViewedPage(p, n + 1, i)
  OBVIOUS
<1>5. /\ Len(es) <= MaxStores /\ stores' = Stamp(es, i, n + 1) /\ viewSeq' = n + 1
      /\ pages' = Append(ps, q)
  BY <1>1, <1>2, <1>3, <1>4 DEF EnterPage, IsTable, NextViewID, Stamp, ViewedPage
<1>6. p.sess \in 1..MaxSessions /\ p.kind \in Kinds /\ p.ns \in Namespaces
  BY PageFields
<1>7. /\ EngineOK(es, n) /\ i \in DOMAIN es
      /\ es[i].reg /\ es[i].state = "run" /\ es[i].sess = p.sess /\ es[i].kind = p.kind
      /\ \A j \in DOMAIN ss :
           /\ j \in DOMAIN es /\ SameStore(es[j], ss[j])
           /\ j # i => (es[j].reg <=> (ss[j].reg /\ ~(ss[j].sess = p.sess /\ ss[j].kind = p.kind)))
      /\ \A j \in DOMAIN es : j \in DOMAIN ss \/ j = i
  BY <1>1, <1>2, <1>3, <1>6, Ensured
<1>8. PICK u : u = Stamp(es, i, n + 1)
  OBVIOUS
<1>9. /\ EngineOK(u, n + 1) /\ DOMAIN u = DOMAIN es
      /\ \A j \in DOMAIN es : /\ u[j].sess = es[j].sess /\ u[j].kind = es[j].kind
                              /\ (u[j].reg <=> es[j].reg) /\ u[j].state = es[j].state
                              /\ j # i => u[j].view = es[j].view
      /\ u[i].view = n + 1
  <2>1. EngineOK(es, n) /\ i \in DOMAIN es
    BY <1>7
  <2> QED
    BY <1>8, <2>1, StampOK
<1>10. Entered(u, ss, i, p, n)
  BY <1>7, <1>9, ZenonT(30) DEF Entered, SameStore
<1>11. i \in 0..MaxStores
  <2>1. es \in Seq(StoreRec(n))
    BY <1>7 DEF EngineOK
  <2>2. i \in 1 .. Len(es) /\ Len(es) \in Nat /\ MaxStores \in Nat
    BY <1>7, <2>1, LenProperties, NavAssumption
  <2> QED
    BY <1>5, <2>2
<1>12. n + 1 \in Nat
  OBVIOUS
<1>13. q \in PageType /\ q.sess = p.sess /\ q.kind = p.kind /\ q.view = n + 1 /\ q.store = i
  BY <1>4, <1>11, <1>12, PageViewed
<1> QED
  BY <1>3, <1>5, <1>8, <1>9, <1>10, <1>13, Zenon

\* The stack that grows by the page that entered: every page has its store, the
\* view ids stay unique, and the new store has its page.
LEMMA StackGrows ==
  ASSUME NEW n \in Nat, NEW ss, EngineOK(ss, n), NEW u, EngineOK(u, n + 1), NEW i, NEW p, p.kind \in Kinds, Entered(u, ss, i, p, n),
         NEW ps, StackOK(ps, ss, n), Screened(ps, ss),
         NEW q \in PageType, q.kind = p.kind, q.sess = p.sess, q.view = n + 1, q.store = i,
         NEW qs, qs = Append(ps, q)
  PROVE  StackOK(qs, u, n + 1) /\ Screened(qs, u)
<1>1. ps \in Seq(PageType) /\ \A k \in DOMAIN ps : Attached(ps[k], ss, n)
  BY DEF StackOK
<1>2. /\ qs \in Seq(PageType) /\ Len(qs) = Len(ps) + 1 /\ qs[Len(qs)] = q /\ Len(qs) \in DOMAIN qs
      /\ \A k \in DOMAIN ps : k \in DOMAIN qs /\ qs[k] = ps[k]
      /\ \A k \in DOMAIN qs : k \in DOMAIN ps \/ k = Len(qs)
  BY <1>1, AppendOK
<1>3. \A j \in DOMAIN ss : ss[j].view \in 0..n
  <2>1. \A j \in DOMAIN ss : ss[j] \in StoreRec(n)
    BY LenProperties DEF EngineOK
  <2> QED
    BY <2>1, StoreFields
<1>4. Attached(q, u, n + 1)
  <2>1. \A j \in DOMAIN ss : ss[j].view # n + 1
    BY <1>3
  <2>2. q.view \in 1 .. n + 1
    OBVIOUS
  <2>3. \A j \in DOMAIN u : u[j].view = q.view => j = i
    BY <2>1 DEF Entered
  <2>4. q.store \in DOMAIN u /\ u[q.store].sess = q.sess /\ u[q.store].kind = q.kind
    BY DEF Entered
  <2> QED
    BY <2>2, <2>3, <2>4 DEF Attached
<1>5. ASSUME NEW k \in DOMAIN ps
      PROVE  Attached(ps[k], u, n + 1)
  <2>0. PICK r : r = ps[k]
    OBVIOUS
  <2>1. Attached(r, ss, n)
    BY <1>1, <2>0
  <2>2. CASE r.kind \in Kinds
    <3>1. /\ r.store \in DOMAIN ss /\ ss[r.store].sess = r.sess /\ ss[r.store].kind = r.kind
          /\ r.view \in 1..n /\ \A j \in DOMAIN ss : ss[j].view = r.view => j = r.store
      BY <2>1, <2>2 DEF Attached
    <3>2. r.store \in DOMAIN u /\ u[r.store].sess = r.sess /\ u[r.store].kind = r.kind
      BY <3>1 DEF Entered
    <3>3. r.view \in 1 .. n + 1 /\ r.view # n + 1
      BY <3>1
    <3>4. \A j \in DOMAIN u : u[j].view = r.view => j = r.store
      BY <3>1, <3>3 DEF Entered
    <3> QED
      BY <2>0, <2>2, <3>2, <3>3, <3>4 DEF Attached
  <2>3. CASE r.kind \notin Kinds
    BY <2>0, <2>1, <2>3 DEF Attached
  <2> QED
    BY <2>2, <2>3
<1>6. StackOK(qs, u, n + 1)
  <2>1. \A k \in DOMAIN qs : Attached(qs[k], u, n + 1)
    BY <1>2, <1>4, <1>5, Zenon
  <2> QED
    BY <1>2, <2>1, Zenon DEF StackOK
<1>7. Screened(qs, u)
  <2> SUFFICES ASSUME NEW j \in DOMAIN u, u[j].state = "run", u[j].kind \notin Warm, u[j].reg
               PROVE  \E k \in DOMAIN qs : qs[k].store = j
    <3>1. \A j \in DOMAIN u : u[j].state = "run" => u[j].reg
      BY DEF EngineOK
    <3> QED
      BY <3>1 DEF Screened
  <2>1. CASE j = i
    BY <1>2, <2>1
  <2>2. CASE j # i
    <3>1. j \in DOMAIN ss /\ ss[j].state = "run" /\ ss[j].kind \notin Warm
      BY <2>2 DEF Entered
    <3>2. PICK k \in DOMAIN ps : ps[k].store = j
      BY <3>1 DEF Screened
    <3> QED
      BY <1>2, <3>2
  <2> QED
    BY <2>1, <2>2
<1> QED
  BY <1>6, <1>7

\* For a stack whose pages show other kinds, the entry leaves every table fed.
LEMMA LiveGrows ==
  ASSUME NEW n \in Nat, NEW ss, EngineOK(ss, n), NEW u, EngineOK(u, n + 1), NEW i, NEW p, p.kind \in Kinds,
         Entered(u, ss, i, p, n), NEW ps, StackOK(ps, ss, n), Live(ps, ss), Distinct(ps),
         \A k \in DOMAIN ps : ps[k].kind # p.kind,
         NEW q \in PageType, q.kind = p.kind, q.view = n + 1, q.store = i, NEW qs, qs = Append(ps, q)
  PROVE  Live(qs, u) /\ Distinct(qs)
<1>1. ps \in Seq(PageType) /\ \A k \in DOMAIN ps : Attached(ps[k], ss, n)
  BY DEF StackOK
<1>2. /\ qs[Len(qs)] = q /\ Len(qs) \in DOMAIN qs
      /\ \A k \in DOMAIN ps : k \in DOMAIN qs /\ qs[k] = ps[k]
      /\ \A k \in DOMAIN qs : k \in DOMAIN ps \/ k = Len(qs)
  BY <1>1, AppendOK
<1>3. ASSUME NEW k \in DOMAIN ps, ps[k].kind \in Kinds
      PROVE  u[ps[k].store].view = ps[k].view /\ u[ps[k].store].state # "stopped"
  <2>0. PICK r : r = ps[k]
    OBVIOUS
  <2>1. r.store \in DOMAIN ss /\ ss[r.store].kind = r.kind /\ r.kind # p.kind
    BY <1>1, <1>3, <2>0 DEF Attached
  <2>2. ss[r.store].view = r.view /\ ss[r.store].state # "stopped"
    BY <1>3, <2>0 DEF Live
  <2>3. ss[r.store].reg
    BY <2>1, <2>2, Zenon DEF EngineOK
  <2>4. r.store # i
    BY <2>1 DEF Entered
  <2>5. u[r.store].view = r.view /\ u[r.store].reg /\ r.store \in DOMAIN u
    BY <2>1, <2>2, <2>3, <2>4, Zenon DEF Entered
  <2>6. u[r.store].state # "stopped"
    BY <2>5, Zenon DEF EngineOK
  <2> QED
    BY <2>0, <2>5, <2>6
<1>4. Live(qs, u)
  <2> SUFFICES ASSUME NEW k \in DOMAIN qs, qs[k].kind \in Kinds
               PROVE  u[qs[k].store].view = qs[k].view /\ u[qs[k].store].state # "stopped"
    BY DEF Live
  <2>1. CASE k \in DOMAIN ps
    BY <1>2, <1>3, <2>1, Zenon
  <2>2. CASE k = Len(qs)
    BY <1>2, <2>2 DEF Entered
  <2> QED
    BY <1>2, <2>1, <2>2
<1>5. Distinct(qs)
  <2> SUFFICES ASSUME NEW j \in DOMAIN qs, NEW k \in DOMAIN qs, qs[j].kind \in Kinds, qs[j].kind = qs[k].kind
               PROVE  j = k
    BY DEF Distinct
  <2>1. CASE j \in DOMAIN ps /\ k \in DOMAIN ps
    BY <1>2, <2>1, Zenon DEF Distinct
  <2>2. CASE j \in DOMAIN ps /\ k = Len(qs)
    BY <1>2, <2>2, Zenon
  <2>3. CASE j = Len(qs) /\ k \in DOMAIN ps
    <3>1. qs[k] = ps[k] /\ qs[j] = q
      BY <1>2, <2>3, Zenon
    <3> QED
      BY <2>3, <3>1
  <2> QED
    BY <1>2, <2>1, <2>2, <2>3
<1> QED
  BY <1>4, <1>5

\* Pages only lose by a stop what their stores lose.
LEMMA StackStops ==
  ASSUME NEW n \in Nat, NEW ss, EngineOK(ss, n), NEW sks, NEW u, u = StopKinds(ss, sks), NEW ps, StackOK(ps, ss, n)
  PROVE  StackOK(ps, u, n)
<1>1. DOMAIN u = DOMAIN ss /\ \A i \in DOMAIN ss : SameStore(u[i], ss[i])
  BY Stopped
<1>2. \A k \in DOMAIN ps : Attached(ps[k], ss, n) => Attached(ps[k], u, n)
  BY <1>1, Zenon DEF Attached, SameStore
<1> QED
  BY <1>2, Zenon DEF StackOK

\* The pages of L leave: their screen-scoped stores stop, so that what still runs
\* has its page among the others.
LEMMA LeaveScreens ==
  ASSUME NEW n \in Nat, NEW ss, EngineOK(ss, n), NEW sks, NEW u, u = StopKinds(ss, sks),
         NEW ps, StackOK(ps, ss, n), Screened(ps, ss), NEW L,
         \A k \in L : ps[k].kind \notin Warm => <<ps[k].sess, ps[k].kind>> \in sks,
         NEW qs, \A k \in DOMAIN ps : k \in L \/ (k \in DOMAIN qs /\ qs[k] = ps[k])
  PROVE  Screened(qs, u)
<1>1. /\ EngineOK(u, n) /\ DOMAIN u = DOMAIN ss
      /\ \A i \in DOMAIN ss : /\ SameStore(u[i], ss[i])
                              /\ u[i].reg <=> (ss[i].reg /\ <<ss[i].sess, ss[i].kind>> \notin sks)
  BY Stopped
<1> SUFFICES ASSUME NEW i \in DOMAIN u, u[i].state = "run", u[i].kind \notin Warm
             PROVE  \E k \in DOMAIN qs : qs[k].store = i
  BY DEF Screened
<1>2. u[i].reg
  BY <1>1 DEF EngineOK
<1>3. /\ i \in DOMAIN ss /\ ss[i].state = "run" /\ ss[i].kind \notin Warm
      /\ <<ss[i].sess, ss[i].kind>> \notin sks
  BY <1>1, <1>2 DEF SameStore
<1>4. PICK k \in DOMAIN ps : ps[k].store = i
  BY <1>3, Zenon DEF Screened
<1>5. i # 0
  <2>1. ss \in Seq(StoreRec(n))
    BY DEF EngineOK
  <2>2. DOMAIN ss = 1 .. Len(ss)
    BY <2>1, LenProperties
  <2> QED
    BY <1>3, <2>2
<1>6. ps[k].sess = ss[i].sess /\ ps[k].kind = ss[i].kind
  BY <1>4, <1>5 DEF StackOK, Attached
<1>7. k \notin L
  BY <1>3, <1>6, Zenon
<1> QED
  BY <1>4, <1>7, Zenon

\* A stop of other sessions or kinds leaves a fed table fed.
LEMMA LiveStops ==
  ASSUME NEW n \in Nat, NEW ss, EngineOK(ss, n), NEW sks, NEW u, u = StopKinds(ss, sks),
         NEW ps, StackOK(ps, ss, n), Live(ps, ss), \A k \in DOMAIN ps : <<ps[k].sess, ps[k].kind>> \notin sks
  PROVE  Live(ps, u)
<1>1. /\ EngineOK(u, n) /\ DOMAIN u = DOMAIN ss
      /\ \A i \in DOMAIN ss : /\ SameStore(u[i], ss[i])
                              /\ u[i].reg <=> (ss[i].reg /\ <<ss[i].sess, ss[i].kind>> \notin sks)
  BY Stopped
<1> SUFFICES ASSUME NEW k \in DOMAIN ps, ps[k].kind \in Kinds
             PROVE  u[ps[k].store].view = ps[k].view /\ u[ps[k].store].state # "stopped"
  BY DEF Live
<1>2. PICK r : r = ps[k]
  OBVIOUS
<1>3. r.store \in DOMAIN ss /\ ss[r.store].kind = r.kind /\ ss[r.store].sess = r.sess
  BY <1>2 DEF StackOK, Attached
<1>4. ss[r.store].view = r.view /\ ss[r.store].state # "stopped"
  BY <1>2 DEF Live
<1>5. ss[r.store].reg
  BY <1>3, <1>4, Zenon DEF EngineOK
<1>6. u[r.store].reg
  BY <1>1, <1>2, <1>3, <1>5, Zenon
<1>7. u[r.store].state # "stopped" /\ u[r.store].view = ss[r.store].view
  BY <1>1, <1>3, <1>6, Zenon DEF EngineOK, SameStore
<1> QED
  BY <1>2, <1>4, <1>7

\* The stack qs is ps with page p on top, as it is after OnEnter.
Pushed(qs, ps, p) == \E q \in PageType : qs = Append(ps, q) /\ q.kind = p.kind /\ q.sess = p.sess

\* A new view id means that the page on top has a running store.
TopRuns ==
  viewSeq' # viewSeq => stores'[pages'[Len(pages')].store].state = "run" /\ stores'[pages'[Len(pages')].store].reg

\* OnEnter of any page, over the stack ps and the stores ss.
LEMMA PageEnters ==
  ASSUME viewSeq \in Nat, NEW ss, EngineOK(ss, viewSeq), NEW ps, StackOK(ps, ss, viewSeq), Screened(ps, ss),
         NEW p \in PageType, p.kind \notin Kinds => p.store = 0, EnterPage(ss, ps, p)
  PROVE  /\ viewSeq' \in Nat /\ EngineOK(stores', viewSeq') /\ StackOK(pages', stores', viewSeq') /\ Screened(pages', stores')
         /\ TopRuns
         /\ Pushed(pages', ps, p)
         /\ \A s : Owned(ss, s) /\ p.sess = s => Owned(stores', s)
         /\ (/\ Live(ps, ss) /\ Distinct(ps)
             /\ p.kind \in Kinds => \A k \in DOMAIN ps : ps[k].kind # p.kind) => Live(pages', stores') /\ Distinct(pages')
<1>0. ps \in Seq(PageType) /\ \A k \in DOMAIN ps : Attached(ps[k], ss, viewSeq)
  BY DEF StackOK
<1>1. CASE p.kind \in Kinds
  <2>1. PICK i, q : /\ EngineOK(stores', viewSeq + 1) /\ viewSeq' = viewSeq + 1
                    /\ Entered(stores', ss, i, p, viewSeq)
                    /\ q \in PageType /\ q.kind = p.kind /\ q.sess = p.sess /\ q.view = viewSeq + 1 /\ q.store = i
                    /\ pages' = Append(ps, q)
    BY <1>1, TableEnters
  <2>2. PICK u, qs : u = stores' /\ qs = pages'
    OBVIOUS
  <2>3. StackOK(qs, u, viewSeq + 1) /\ Screened(qs, u)
    BY <1>1, <2>1, <2>2, StackGrows
  <2>4. qs[Len(qs)] = q
    BY <1>0, <2>1, <2>2, AppendOK
  <2>5. u[i].state = "run" /\ u[i].reg
    BY <2>1, <2>2 DEF Entered
  <2>6. ASSUME NEW s, Owned(ss, s), p.sess = s
        PROVE  Owned(u, s)
    <3> SUFFICES ASSUME NEW j \in DOMAIN u, u[j].reg PROVE u[j].sess = s
      BY DEF Owned
    <3>1. Entered(u, ss, i, p, viewSeq)
      BY <2>1, <2>2
    <3>2. CASE j = i
      BY <2>6, <3>1, <3>2 DEF Entered
    <3>3. CASE j # i
      BY <2>6, <3>1, <3>3, Zenon DEF Entered, Owned
    <3> QED
      BY <3>2, <3>3
  <2>7. ASSUME Live(ps, ss), Distinct(ps), \A k \in DOMAIN ps : ps[k].kind # p.kind
        PROVE  Live(qs, u) /\ Distinct(qs)
    <3>1. EngineOK(u, viewSeq + 1) /\ Entered(u, ss, i, p, viewSeq) /\ qs = Append(ps, q)
      BY <2>1, <2>2
    <3> QED
      BY <1>1, <2>1, <2>7, <3>1, LiveGrows
  <2>8. viewSeq + 1 \in Nat
    OBVIOUS
  <2> QED
    BY <1>1, <2>1, <2>2, <2>3, <2>4, <2>5, <2>6, <2>7, <2>8, Zenon DEF Pushed, TopRuns
<1>2. CASE p.kind \notin Kinds
  <2>1. PICK qs : qs = Append(ps, p)
    OBVIOUS
  <2>2. stores' = ss /\ pages' = qs /\ viewSeq' = viewSeq
    BY <1>2, <2>1 DEF EnterPage, IsTable
  <2>3. /\ qs \in Seq(PageType) /\ qs[Len(qs)] = p /\ Len(qs) \in DOMAIN qs
        /\ \A k \in DOMAIN ps : k \in DOMAIN qs /\ qs[k] = ps[k]
        /\ \A k \in DOMAIN qs : k \in DOMAIN ps \/ k = Len(qs)
    BY <1>0, <2>1, AppendOK
  <2>4. Attached(p, ss, viewSeq)
    BY <1>2 DEF Attached
  <2>5. StackOK(qs, ss, viewSeq)
    <3>1. \A k \in DOMAIN qs : Attached(qs[k], ss, viewSeq)
      BY <1>0, <2>3, <2>4, Zenon
    <3> QED
      BY <2>3, <3>1, Zenon DEF StackOK
  <2>6. Screened(qs, ss)
    BY <2>3, Zenon DEF Screened
  <2>7. ASSUME Live(ps, ss), Distinct(ps)
        PROVE  Live(qs, ss) /\ Distinct(qs)
    <3>1. \A k \in DOMAIN qs : qs[k].kind \in Kinds => k \in DOMAIN ps /\ qs[k] = ps[k]
      BY <1>2, <2>3, Zenon
    <3>2. Live(qs, ss)
      BY <2>7, <3>1, Zenon DEF Live
    <3>3. Distinct(qs)
      BY <2>7, <3>1, Zenon DEF Distinct
    <3> QED
      BY <3>2, <3>3
  <2> QED
    BY <2>1, <2>2, <2>5, <2>6, <2>7, Zenon DEF Pushed, TopRuns
<1> QED
  BY <1>1, <1>2

-----------------------------------------------------------------------------
(* The root model *)

SessOK ==
  /\ boots \subseteq (1..MaxSessions) \X Contexts
  /\ built \in 1..MaxSessions /\ sess \in 0..MaxSessions
  /\ ctxOf \in [1..MaxSessions -> Contexts]
  /\ disposed \subseteq 1..MaxSessions
  /\ override \in Contexts /\ booting \in BOOLEAN /\ fatal \in BOOLEAN /\ user \in Users

EntriesOK ==
  /\ viewSeq \in Nat /\ EngineOK(stores, viewSeq) /\ StackOK(pages, stores, viewSeq) /\ Screened(pages, stores)

FlightOK ==
  /\ flight \in Seq(PageType)
  /\ \A k \in DOMAIN flight : flight[k].kind \in {"pods", "text"} /\ flight[k].store = 0

\* What holds while the user waits for sessions and drill-ins: one boot at a time,
\* with nothing on screen; one drill-in at a time, of the page on screen; no kind
\* twice on the stack, so that no page takes another one's store away.
PatientOK ==
  /\ \A b \in boots : b[2] = override
  /\ \A b, c \in boots : b = c
  /\ boots # {} => sess = 0
  /\ ~booting /\ ~fatal => ctxOf[sess] = override
  /\ sess = 0 => pages = <<>> /\ flight = <<>>
  /\ \A k \in DOMAIN pages : pages[k].sess = sess /\ (pages[k].kind \in Workloads => k = 1)
  /\ \A k \in DOMAIN flight : flight[k].sess = sess /\ (flight[k].kind = "pods" => \A j \in DOMAIN pages : pages[j].kind # "pods")
  /\ Len(flight) <= 1
  /\ Live(pages, stores) /\ Distinct(pages) /\ Owned(stores, sess)

NavInv == SessOK /\ EntriesOK /\ FlightOK /\ (user = "patient" => PatientOK)

\* A page as it is built, before it is entered.
LEMMA FreshPage ==
  ASSUME NEW s \in 1..MaxSessions, NEW k \in Kinds \cup {"text"}, NEW ns \in Namespaces, NEW p, p = Page(s, k, ns)
  PROVE  p \in PageType /\ p.sess = s /\ p.kind = k /\ p.ns = ns /\ p.store = 0
<1>1. 0 \in 0..MaxStores /\ 0 \in Nat
  BY NavAssumption
<1> QED
  BY <1>1 DEF Page, PageType

\* An empty stack.
LEMMA NoPages ==
  ASSUME NEW ss, NEW n
  PROVE  StackOK(<<>>, ss, n) /\ Live(<<>>, ss) /\ Distinct(<<>>) /\ DOMAIN <<>> = {}
<1>1. DOMAIN <<>> = {} /\ <<>> \in Seq(PageType)
  OBVIOUS
<1> QED
  BY <1>1, Zenon DEF StackOK, Live, Distinct

\* OnLeave of the whole stack.
LEMMA AllLeave ==
  ASSUME EntriesOK, NEW v, v = Leave(stores, ToSet(pages))
  PROVE  /\ EngineOK(v, viewSeq) /\ Screened(<<>>, v) /\ \A s : Owned(stores, s) => Owned(v, s)
<1>1. PICK sks : sks = {<<p.sess, p.kind>> : p \in {q \in ToSet(pages) : q.kind \notin Warm}}
  OBVIOUS
<1>2. v = StopKinds(stores, sks)
  BY <1>1 DEF Leave
<1>3. \A k \in DOMAIN pages : pages[k].kind \notin Warm => <<pages[k].sess, pages[k].kind>> \in sks
  BY <1>1 DEF ToSet
<1>4. /\ EngineOK(v, viewSeq) /\ DOMAIN v = DOMAIN stores
      /\ \A i \in DOMAIN stores : /\ SameStore(v[i], stores[i])
                                  /\ v[i].reg <=> (stores[i].reg /\ <<stores[i].sess, stores[i].kind>> \notin sks)
  BY <1>2, Stopped DEF EntriesOK
<1>5. Screened(<<>>, v)
  <2>1. PICK L : L = DOMAIN pages
    OBVIOUS
  <2>2. \A k \in L : pages[k].kind \notin Warm => <<pages[k].sess, pages[k].kind>> \in sks
    BY <1>3, <2>1
  <2>3. \A k \in DOMAIN pages : k \in L \/ (k \in DOMAIN <<>> /\ <<>>[k] = pages[k])
    BY <2>1
  <2>4. viewSeq \in Nat /\ EngineOK(stores, viewSeq) /\ StackOK(pages, stores, viewSeq) /\ Screened(pages, stores)
    BY DEF EntriesOK
  <2>5. PICK e : e = <<>>
    OBVIOUS
  <2> QED
    BY <1>2, <2>2, <2>3, <2>4, <2>5, LeaveScreens
<1>6. \A s : Owned(stores, s) => Owned(v, s)
  BY <1>4, Zenon DEF Owned, SameStore
<1> QED
  BY <1>4, <1>5, <1>6

\* The program starts with one boot under way and nothing on screen.
LEMMA NavInit == Init => NavInv
<1> SUFFICES ASSUME Init PROVE NavInv
  OBVIOUS
<1>1. SessOK
  <2>1. MaxSessions \in Nat \ {0}
    BY NavAssumption
  <2>2. 1 \in 1..MaxSessions /\ 0 \in 0..MaxSessions
    BY <2>1
  <2>3. override \in Contexts /\ boots = {<<1, override>>} /\ built = 1 /\ sess = 0 /\ user \in Users /\ disposed = {}
    BY DEF Init
  <2>4. boots \subseteq (1..MaxSessions) \X Contexts
    BY <2>2, <2>3
  <2>5. ctxOf \in [1..MaxSessions -> Contexts]
    BY <2>3 DEF Init
  <2>6. booting \in BOOLEAN /\ fatal \in BOOLEAN
    BY Zenon DEF Init
  <2> QED
    BY <2>2, <2>3, <2>4, <2>5, <2>6, Zenon DEF SessOK
<1>2. PICK e : e = <<>> /\ DOMAIN e = {} /\ \A S : e \in Seq(S)
  <2>1. DOMAIN <<>> = {} /\ \A S : <<>> \in Seq(S)
    OBVIOUS
  <2> QED
    BY <2>1, Zenon
<1>3. EngineOK(e, 0) /\ Screened(e, e) /\ \A s : Owned(e, s)
  BY <1>2, Zenon DEF EngineOK, Screened, Owned
<1>4. StackOK(e, e, 0) /\ Live(e, e) /\ Distinct(e)
  BY <1>2, NoPages
<1>5. stores = e /\ pages = e /\ flight = e /\ viewSeq = 0 /\ 0 \in Nat
  BY <1>2, SMT DEF Init
<1>6. EntriesOK /\ FlightOK
  BY <1>2, <1>3, <1>4, <1>5, Zenon DEF EntriesOK, FlightOK
<1>7. PatientOK
  <2>1. boots = {<<1, override>>} /\ sess = 0 /\ booting
    BY Zenon DEF Init
  <2>2. /\ \A b \in boots : b[2] = override
        /\ \A b, c \in boots : b = c
    BY <2>1
  <2>3. Len(flight) <= 1
    BY <1>2, <1>5
  <2> QED
    BY <1>2, <1>3, <1>4, <1>5, <2>1, <2>2, <2>3, Zenon DEF PatientOK
<1> QED
  BY <1>1, <1>6, <1>7 DEF NavInv

\* Entering a page keeps the engine and the stack in step.
LEMMA EntriesKept ==
  ASSUME NavInv, NEW ss, EngineOK(ss, viewSeq), NEW ps, StackOK(ps, ss, viewSeq), Screened(ps, ss),
         NEW p \in PageType, p.kind \notin Kinds => p.store = 0, EnterPage(ss, ps, p)
  PROVE  EntriesOK'
<1>1. viewSeq \in Nat
  BY DEF NavInv, EntriesOK
<1>2. viewSeq' \in Nat /\ EngineOK(stores', viewSeq') /\ StackOK(pages', stores', viewSeq') /\ Screened(pages', stores')
  BY <1>1, PageEnters
<1> QED
  BY <1>2, Zenon DEF EntriesOK

\* switchContext, also through reconnect and the picker.
LEMMA SwitchKeeps ==
  ASSUME NavInv, NEW c \in Contexts, SwitchContext(c)
  PROVE  NavInv'
<1>0. SessOK /\ EntriesOK /\ FlightOK /\ (user = "patient" => PatientOK)
  BY DEF NavInv
<1>1. /\ user' = user /\ (user = "hasty" \/ (flight = <<>> /\ boots = {}))
      /\ built < MaxSessions /\ built' = built + 1 /\ boots' = boots \cup {<<built + 1, c>>}
      /\ pages' = <<>> /\ disposed' = disposed \cup ({sess} \ {0})
      /\ sess' = 0 /\ override' = c /\ UNCHANGED <<ctxOf, fatal, viewSeq, flight>>
  BY DEF SwitchContext, KeyOK, StartBootstrap
<1>2. booting'
  BY Zenon DEF SwitchContext
<1>3. PICK v : v = Leave(stores, ToSet(pages))
  OBVIOUS
<1>4. PICK sks : sks = {sess} \X Kinds
  OBVIOUS
<1>5. stores' = IF sess = 0 THEN v ELSE StopKinds(v, sks)
  BY <1>3, <1>4 DEF SwitchContext, StopAll
<1>6. EngineOK(v, viewSeq) /\ Screened(<<>>, v) /\ \A s : Owned(stores, s) => Owned(v, s)
  BY <1>0, <1>3, AllLeave
<1>7. PICK n \in Nat : n = viewSeq
  BY <1>0 DEF EntriesOK
<1>8. PICK w : w = StopKinds(v, sks)
  OBVIOUS
<1>9. /\ EngineOK(w, n) /\ DOMAIN w = DOMAIN v
      /\ \A i \in DOMAIN v : /\ SameStore(w[i], v[i])
                             /\ w[i].reg <=> (v[i].reg /\ <<v[i].sess, v[i].kind>> \notin sks)
  BY <1>6, <1>7, <1>8, Stopped
<1>10. Screened(<<>>, w)
  <2>1. PICK e : e = <<>> /\ DOMAIN e = {}
    OBVIOUS
  <2>2. \A i \in DOMAIN v : v[i].state = "run" => v[i].reg
    BY <1>6, Zenon DEF EngineOK
  <2>3. \A i \in DOMAIN w : w[i].state = "run" => w[i].reg
    BY <1>9, Zenon DEF EngineOK
  <2>4. ASSUME NEW i \in DOMAIN w, w[i].state = "run", w[i].kind \notin Warm
        PROVE  FALSE
    <3>1. i \in DOMAIN v /\ v[i].state = "run" /\ v[i].kind \notin Warm
      BY <1>9, <2>3, <2>4, Zenon DEF SameStore
    <3> QED
      BY <1>6, <2>1, <3>1, Zenon DEF Screened
  <2> QED
    BY <2>4 DEF Screened
<1>11. EntriesOK'
  <2>1. EngineOK(stores', n) /\ Screened(<<>>, stores')
    BY <1>5, <1>6, <1>7, <1>8, <1>9, <1>10, Zenon
  <2>2. StackOK(<<>>, stores', n)
    BY NoPages
  <2> QED
    BY <1>1, <1>7, <2>1, <2>2, Zenon DEF EntriesOK
<1>12. SessOK'
  <2>1. built + 1 \in 1..MaxSessions /\ 0 \in 0..MaxSessions /\ sess \in 0..MaxSessions
    BY <1>0, <1>1, NavAssumption DEF SessOK
  <2>2. boots' \subseteq (1..MaxSessions) \X Contexts /\ disposed' \subseteq 1..MaxSessions
    BY <1>0, <1>1, <2>1 DEF SessOK
  <2>3. booting' \in BOOLEAN
    BY Zenon DEF SwitchContext
  <2> QED
    BY <1>0, <1>1, <2>1, <2>2, <2>3, Zenon DEF SessOK
<1>13. FlightOK'
  BY <1>0, <1>1, Zenon DEF FlightOK
<1>14. ASSUME user = "patient"
       PROVE  PatientOK'
  <2>1. PatientOK /\ flight = <<>> /\ boots = {}
    BY <1>0, <1>1, <1>14
  <2>2. boots' = {<<built + 1, c>>}
    BY <1>1, <2>1
  <2>3. /\ \A b \in boots' : b[2] = override'
        /\ \A b, d \in boots' : b = d
    BY <1>1, <2>2
  <2>4. Len(flight') <= 1 /\ DOMAIN flight' = {} /\ flight' = <<>>
    BY <1>1, <2>1
  <2>5. Live(<<>>, stores') /\ Distinct(<<>>) /\ DOMAIN <<>> = {}
    BY NoPages
  <2>6. Owned(stores', 0)
    <3>1. Owned(v, sess)
      BY <1>6, <2>1 DEF PatientOK
    <3>2. CASE sess = 0
      BY <1>5, <3>1, <3>2
    <3>3. CASE sess # 0
      <4>1. \A i \in DOMAIN v : v[i].kind \in Kinds
        <5>1. \A i \in DOMAIN v : v[i] \in StoreRec(n)
          BY <1>6, <1>7, LenProperties DEF EngineOK
        <5> QED
          BY <5>1, StoreFields
      <4>2. \A i \in DOMAIN v : v[i].reg => <<v[i].sess, v[i].kind>> \in sks
        BY <1>4, <3>1, <4>1 DEF Owned
      <4>3. \A i \in DOMAIN w : ~w[i].reg
        BY <1>9, <4>2, Zenon
      <4> QED
        BY <1>5, <1>8, <3>3, <4>3 DEF Owned
    <3> QED
      BY <3>2, <3>3
  <2> QED
    BY <1>1, <1>2, <2>3, <2>4, <2>5, <2>6, Zenon DEF PatientOK
<1> QED
  BY <1>1, <1>11, <1>12, <1>13, <1>14, Zenon DEF NavInv

\* What a patient user's engine and stack are after the first page of an emptied
\* stack has entered it.
LEMMA FirstPage ==
  ASSUME NavInv, NEW s \in 1..MaxSessions, NEW k \in Kinds, NEW ns \in Namespaces,
         EnterPage(Leave(stores, ToSet(pages)), <<>>, Page(s, k, ns))
  PROVE  /\ EntriesOK'
         /\ \A j \in DOMAIN pages' : j = 1 /\ pages'[j].sess = s /\ pages'[j].kind = k
         /\ Live(pages', stores') /\ Distinct(pages') /\ TopRuns
         /\ Owned(stores, s) => Owned(stores', s)
<1>0. EntriesOK /\ viewSeq \in Nat
  BY DEF NavInv, EntriesOK
<1>1. PICK v, p, e : v = Leave(stores, ToSet(pages)) /\ p = Page(s, k, ns) /\ e = <<>>
  OBVIOUS
<1>2. EngineOK(v, viewSeq) /\ Screened(e, v) /\ (Owned(stores, s) => Owned(v, s))
  BY <1>0, <1>1, AllLeave
<1>3. StackOK(e, v, viewSeq) /\ Live(e, v) /\ Distinct(e) /\ DOMAIN e = {}
  BY <1>1, NoPages
<1>4. p \in PageType /\ p.sess = s /\ p.kind = k
  BY <1>1, FreshPage
<1>5. EnterPage(v, e, p)
  BY <1>1
<1>6. /\ Pushed(pages', e, p)
      /\ Owned(v, s) => Owned(stores', s)
      /\ Live(pages', stores') /\ Distinct(pages') /\ TopRuns
  <2>1. \A j \in DOMAIN e : e[j].kind # p.kind
    BY <1>3
  <2>2. p.kind \notin Kinds => p.store = 0
    BY <1>4
  <2>3. Pushed(pages', e, p)
    BY <1>0, <1>2, <1>3, <1>4, <1>5, <2>2, PageEnters
  <2>4. \A x : Owned(v, x) /\ p.sess = x => Owned(stores', x)
    BY <1>0, <1>2, <1>3, <1>4, <1>5, <2>2, PageEnters
  <2>5. Live(pages', stores') /\ Distinct(pages')
    BY <1>0, <1>2, <1>3, <1>4, <1>5, <2>1, <2>2, PageEnters
  <2>6. TopRuns
    BY <1>0, <1>2, <1>3, <1>4, <1>5, <2>2, PageEnters
  <2> QED
    BY <1>4, <2>3, <2>4, <2>5, <2>6, Zenon
<1>7. EntriesOK'
  BY <1>2, <1>3, <1>4, <1>5, EntriesKept
<1>8. \A j \in DOMAIN pages' : j = 1 /\ pages'[j].sess = s /\ pages'[j].kind = k
  <2>1. PICK q \in PageType : pages' = Append(e, q) /\ q.kind = p.kind /\ q.sess = p.sess
    BY <1>6 DEF Pushed
  <2>2. pages' = <<q>>
    BY <1>1, <2>1
  <2> QED
    BY <1>4, <2>1, <2>2
<1> QED
  BY <1>2, <1>6, <1>7, <1>8

\* onSessionReady: the first page of the new session.
LEMMA ReadyKeeps ==
  ASSUME NavInv, NEW b \in boots, SessionReady(b)
  PROVE  NavInv' /\ TopRuns
<1>0. SessOK /\ EntriesOK /\ FlightOK /\ (user = "patient" => PatientOK)
  BY DEF NavInv
<1>1. PICK ns \in Namespaces : EnterPage(Leave(stores, ToSet(pages)), <<>>, Page(b[1], "pods", ns))
  BY DEF SessionReady
<1>2. /\ boots' = boots \ {b} /\ sess' = b[1] /\ ctxOf' = [ctxOf EXCEPT ![b[1]] = b[2]]
      /\ UNCHANGED <<built, disposed, override, fatal, flight, user>>
  BY DEF SessionReady
<1>3. booting' \in BOOLEAN
  BY Zenon DEF SessionReady
<1>4. b[1] \in 1..MaxSessions /\ b[2] \in Contexts /\ "pods" \in Kinds
  BY <1>0, NavAssumption DEF SessOK
<1>5. /\ EntriesOK'
      /\ \A j \in DOMAIN pages' : j = 1 /\ pages'[j].sess = b[1] /\ pages'[j].kind = "pods"
      /\ Live(pages', stores') /\ Distinct(pages') /\ TopRuns
      /\ Owned(stores, b[1]) => Owned(stores', b[1])
  BY <1>1, <1>4, FirstPage
<1>6. SessOK'
  <2>1. boots' \subseteq (1..MaxSessions) \X Contexts /\ ctxOf' \in [1..MaxSessions -> Contexts]
    BY <1>0, <1>2, <1>4 DEF SessOK
  <2>2. b[1] \in 0..MaxSessions
    BY <1>4
  <2> QED
    BY <1>0, <1>2, <1>3, <2>1, <2>2, Zenon DEF SessOK
<1>7. FlightOK'
  BY <1>0, <1>2, Zenon DEF FlightOK
<1>8. ASSUME user = "patient"
      PROVE  PatientOK'
  <2>1. PatientOK /\ sess = 0 /\ flight = <<>> /\ boots = {b} /\ b[2] = override
    BY <1>0, <1>8 DEF PatientOK
  <2>2. boots' = {} /\ flight' = <<>> /\ DOMAIN <<>> = {} /\ Len(<<>>) <= 1
    BY <1>2, <2>1
  <2>3. ctxOf'[sess'] = override'
    BY <1>0, <1>2, <1>4, <2>1 DEF SessOK
  <2>4. sess' # 0
    BY <1>2, <1>4
  <2>5. Owned(stores', sess')
    <3>1. ASSUME NEW i \in DOMAIN stores, stores[i].reg
          PROVE  FALSE
      <4>1. stores[i].sess = 0
        BY <2>1, <3>1 DEF PatientOK, Owned
      <4>2. stores[i] \in StoreRec(viewSeq) /\ viewSeq \in Nat
        BY <1>0, LenProperties DEF EntriesOK, EngineOK
      <4>3. stores[i].sess \in 1..MaxSessions
        BY <4>2, StoreFields
      <4> QED
        BY <4>1, <4>3
    <3>2. Owned(stores, b[1])
      BY <3>1 DEF Owned
    <3> QED
      BY <1>2, <1>5, <3>2
  <2> QED
    BY <1>2, <1>5, <2>2, <2>3, <2>4, <2>5, Zenon DEF PatientOK
<1> QED
  BY <1>2, <1>5, <1>6, <1>7, <1>8, Zenon DEF NavInv

\* A boot fails: the fatal screen.
LEMMA ErrorKeeps ==
  ASSUME NavInv, NEW b \in boots, SessionError(b)
  PROVE  NavInv'
<1>0. SessOK /\ EntriesOK /\ FlightOK /\ (user = "patient" => PatientOK)
  BY DEF NavInv
<1>1. /\ boots' = boots \ {b} /\ UNCHANGED <<built, sess, ctxOf, disposed, override, user>>
      /\ UNCHANGED <<stores, viewSeq, pages, flight>>
  BY DEF SessionError, navVars
<1>2. booting' \in BOOLEAN /\ fatal' \in BOOLEAN /\ fatal'
  BY Zenon DEF SessionError
<1>3. boots' \subseteq boots
  BY <1>1
<1>4. SessOK'
  <2>1. boots' \subseteq (1..MaxSessions) \X Contexts
    BY <1>0, <1>3 DEF SessOK
  <2> QED
    BY <1>0, <1>1, <1>2, <2>1, Zenon DEF SessOK
<1>5. EntriesOK' /\ FlightOK'
  BY <1>0, <1>1, Zenon DEF EntriesOK, FlightOK
<1>6. ASSUME user = "patient"
      PROVE  PatientOK'
  <2>1. PatientOK
    BY <1>0, <1>6
  <2>2. /\ \A x \in boots' : x[2] = override'
        /\ \A x, y \in boots' : x = y
        /\ boots' # {} => sess' = 0
    BY <1>1, <1>3, <2>1 DEF PatientOK
  <2> QED
    BY <1>1, <1>2, <2>1, <2>2, Zenon DEF PatientOK
<1> QED
  BY <1>1, <1>4, <1>5, <1>6, Zenon DEF NavInv

\* Nothing of the sessions changes.
LEMMA SessionsStay ==
  ASSUME SessOK, UNCHANGED sessVars, user' = user
  PROVE  SessOK'
BY Zenon DEF SessOK, sessVars

\* navigate.
LEMMA NavigateKeeps ==
  ASSUME NavInv, NEW k \in Kinds, NEW ns \in Namespaces, Navigate(k, ns)
  PROVE  NavInv' /\ TopRuns
<1>0. SessOK /\ EntriesOK /\ FlightOK /\ (user = "patient" => PatientOK)
  BY DEF NavInv
<1>1. /\ EnterPage(Leave(stores, ToSet(pages)), <<>>, Page(sess, k, ns)) /\ sess # 0
      /\ UNCHANGED sessVars /\ flight' = flight /\ user' = user /\ (user = "hasty" \/ flight = <<>>)
  BY DEF Navigate, KeyOK
<1>2. sess \in 1..MaxSessions
  BY <1>0, <1>1 DEF SessOK
<1>3. /\ EntriesOK'
      /\ \A j \in DOMAIN pages' : j = 1 /\ pages'[j].sess = sess /\ pages'[j].kind = k
      /\ Live(pages', stores') /\ Distinct(pages') /\ TopRuns
      /\ Owned(stores, sess) => Owned(stores', sess)
  BY <1>1, <1>2, FirstPage
<1>4. SessOK' /\ FlightOK'
  BY <1>0, <1>1, SessionsStay, Zenon DEF FlightOK
<1>5. ASSUME user = "patient"
      PROVE  PatientOK'
  <2>1. PatientOK /\ flight' = <<>> /\ DOMAIN <<>> = {} /\ Len(<<>>) <= 1
    BY <1>0, <1>1, <1>5
  <2> QED
    BY <1>1, <1>3, <2>1, Zenon DEF PatientOK, sessVars
<1> QED
  BY <1>1, <1>3, <1>4, <1>5, Zenon DEF NavInv

\* A key builds the page of a drill-in.
LEMMA DrillKeeps ==
  ASSUME NavInv, NEW k \in {"pods", "text"}, NEW ns \in Namespaces, DrillIn(k, ns)
  PROVE  NavInv'
<1>0. SessOK /\ EntriesOK /\ FlightOK /\ (user = "patient" => PatientOK)
  BY DEF NavInv
<1>1. PICK p : p = Page(Top.sess, k, ns)
  OBVIOUS
<1>2. /\ pages # <<>> /\ (k = "pods" => Top.kind \in Workloads)
      /\ flight' = Append(flight, p) /\ (user = "hasty" \/ flight = <<>>)
      /\ UNCHANGED sessVars /\ UNCHANGED <<stores, viewSeq, pages, user>>
  BY <1>1 DEF DrillIn, KeyOK
<1>3. pages \in Seq(PageType) /\ flight \in Seq(PageType)
  BY <1>0 DEF EntriesOK, StackOK, FlightOK
<1>4. Len(pages) \in DOMAIN pages /\ Top \in PageType /\ Top = pages[Len(pages)]
  <2>1. Len(pages) \in Nat \ {0} /\ DOMAIN pages = 1 .. Len(pages)
    BY <1>2, <1>3, EmptySeq, LenProperties
  <2>2. Len(pages) \in 1 .. Len(pages)
    BY <2>1
  <2> QED
    BY <1>3, <2>1, <2>2, ElementOfSeq DEF Top
<1>5. p \in PageType /\ p.sess = Top.sess /\ p.kind = k /\ p.store = 0
  <2>1. Top.sess \in 1..MaxSessions /\ k \in Kinds \cup {"text"}
    BY <1>4, PageFields, NavAssumption
  <2> QED
    BY <1>1, <2>1, FreshPage
<1>6. PICK fs : fs = Append(flight, p)
  OBVIOUS
<1>7. /\ fs \in Seq(PageType) /\ Len(fs) = Len(flight) + 1 /\ fs[Len(fs)] = p
      /\ \A j \in DOMAIN flight : j \in DOMAIN fs /\ fs[j] = flight[j]
      /\ \A j \in DOMAIN fs : j \in DOMAIN flight \/ j = Len(fs)
  BY <1>3, <1>5, <1>6, AppendOK
<1>8. FlightOK'
  <2>1. \A j \in DOMAIN fs : fs[j].kind \in {"pods", "text"} /\ fs[j].store = 0
    BY <1>0, <1>5, <1>7, Zenon DEF FlightOK
  <2>2. flight' = fs
    BY <1>2, <1>6
  <2> QED
    BY <1>7, <2>1, <2>2, Zenon DEF FlightOK
<1>9. SessOK' /\ EntriesOK'
  BY <1>0, <1>2, SessionsStay, Zenon DEF EntriesOK
<1>10. ASSUME user = "patient"
       PROVE  PatientOK'
  <2>1. PatientOK /\ flight = <<>> /\ DOMAIN flight = {} /\ Len(flight) = 0
    BY <1>0, <1>2, <1>10
  <2>2. \A j \in DOMAIN fs : fs[j] = p
    BY <1>7, <2>1, Zenon
  <2>3. Len(fs) <= 1
    BY <1>7, <2>1
  <2>4. Top.sess = sess /\ sess # 0
    BY <1>2, <1>4, <2>1, Zenon DEF PatientOK
  <2>5. k = "pods" => \A j \in DOMAIN pages : pages[j].kind # "pods"
    <3> SUFFICES ASSUME k = "pods", NEW j \in DOMAIN pages PROVE pages[j].kind # "pods"
      OBVIOUS
    <3>1. Len(pages) = 1 /\ Top.kind \in Workloads
      BY <1>2, <1>4, <2>1, Zenon DEF PatientOK
    <3>2. j = 1
      BY <1>3, <3>1, LenProperties
    <3>3. pages[j] = Top
      BY <1>4, <3>1, <3>2
    <3> QED
      BY <3>1, <3>3, NavAssumption
  <2>6. \A j \in DOMAIN fs : fs[j].sess = sess /\ (fs[j].kind = "pods" => \A l \in DOMAIN pages : pages[l].kind # "pods")
    BY <1>5, <2>2, <2>4, <2>5, Zenon
  <2>7. flight' = fs
    BY <1>2, <1>6
  <2> QED
    BY <1>2, <2>1, <2>3, <2>4, <2>6, <2>7, Zenon DEF PatientOK, sessVars
<1> QED
  BY <1>2, <1>8, <1>9, <1>10, Zenon DEF NavInv

\* pushPage.
LEMMA PushKeeps ==
  ASSUME NavInv, NEW i, PushMsg(i)
  PROVE  NavInv' /\ TopRuns
<1>0. SessOK /\ EntriesOK /\ FlightOK /\ (user = "patient" => PatientOK)
  BY DEF NavInv
<1>1. PICK p : p = flight[i]
  OBVIOUS
<1>2. /\ i \in DOMAIN flight /\ flight' = RemoveAt(flight, i) /\ EnterPage(stores, pages, p)
      /\ UNCHANGED sessVars /\ user' = user
  BY <1>1 DEF PushMsg
<1>3. flight \in Seq(PageType)
  BY <1>0 DEF FlightOK
<1>4. p \in PageType /\ p.kind \in {"pods", "text"} /\ p.store = 0
  BY <1>0, <1>1, <1>2, <1>3, LenProperties DEF FlightOK
<1>5. PICK fs : fs = RemoveAt(flight, i)
  OBVIOUS
<1>6. fs \in Seq(PageType) /\ Len(fs) = Len(flight) - 1 /\ \A j \in DOMAIN fs : \E k \in DOMAIN flight : fs[j] = flight[k]
  BY <1>2, <1>3, <1>5, RemoveOK
<1>7. FlightOK'
  <2>1. \A j \in DOMAIN fs : fs[j].kind \in {"pods", "text"} /\ fs[j].store = 0
    BY <1>0, <1>6, Zenon DEF FlightOK
  <2> QED
    BY <1>2, <1>5, <1>6, <2>1, Zenon DEF FlightOK
<1>8. viewSeq \in Nat /\ EngineOK(stores, viewSeq) /\ StackOK(pages, stores, viewSeq) /\ Screened(pages, stores)
  BY <1>0 DEF EntriesOK
<1>9. EntriesOK' /\ SessOK'
  <2>1. EntriesOK'
    BY <1>2, <1>4, <1>8, EntriesKept
  <2> QED
    BY <1>0, <1>2, <2>1, SessionsStay
<1>11. TopRuns
  BY <1>2, <1>4, <1>8, PageEnters
<1>10. ASSUME user = "patient"
       PROVE  PatientOK'
  <2>1. PatientOK
    BY <1>0, <1>10
  <2>2. p.sess = sess /\ (p.kind = "pods" => \A j \in DOMAIN pages : pages[j].kind # "pods")
    BY <1>1, <1>2, <2>1, Zenon DEF PatientOK
  <2>3. p.kind \in Kinds => \A j \in DOMAIN pages : pages[j].kind # p.kind
    <3>1. p.kind = "pods" \/ p.kind \notin Kinds
      BY <1>4, NavAssumption
    <3> QED
      BY <2>2, <3>1
  <2>4. Live(pages, stores) /\ Distinct(pages) /\ Owned(stores, sess)
    BY <2>1 DEF PatientOK
  <2>5. Pushed(pages', pages, p)
    BY <1>2, <1>4, <1>8, PageEnters
  <2>6. Live(pages', stores') /\ Distinct(pages')
    BY <1>2, <1>4, <1>8, <2>3, <2>4, PageEnters
  <2>7. Owned(stores', sess)
    BY <1>2, <1>4, <1>8, <2>2, <2>4, PageEnters
  <2>8. PICK q \in PageType : pages' = Append(pages, q) /\ q.kind = p.kind /\ q.sess = p.sess
    BY <2>5 DEF Pushed
  <2>9. PICK qs : qs = Append(pages, q)
    OBVIOUS
  <2>10. /\ qs[Len(qs)] = q
         /\ \A k \in DOMAIN pages : k \in DOMAIN qs /\ qs[k] = pages[k]
         /\ \A k \in DOMAIN qs : k \in DOMAIN pages \/ k = Len(qs)
    <3>1. pages \in Seq(PageType)
      BY <1>8 DEF StackOK
    <3> QED
      BY <2>9, <3>1, AppendOK
  <2>11. q.kind \notin Workloads
    BY <1>4, <2>8, NavAssumption
  <2>12. \A k \in DOMAIN qs : qs[k].sess = sess /\ (qs[k].kind \in Workloads => k = 1)
    BY <2>1, <2>2, <2>8, <2>10, <2>11, Zenon DEF PatientOK
  <2>13. DOMAIN fs = {} /\ Len(fs) = 0
    <3>1. Len(flight) <= 1 /\ Len(flight) \in Nat /\ Len(fs) \in Nat
      BY <1>3, <1>6, <2>1, LenProperties DEF PatientOK
    <3>2. Len(fs) = 0
      BY <1>6, <3>1
    <3>3. DOMAIN fs = 1 .. Len(fs)
      BY <1>6, LenProperties
    <3> QED
      BY <3>2, <3>3
  <2>14. Len(fs) <= 1
    BY <2>13
  <2>15. sess # 0
    BY <1>4, <2>2, PageFields
  <2> QED
    BY <1>2, <1>5, <2>1, <2>6, <2>7, <2>8, <2>9, <2>12, <2>13, <2>14, <2>15, Zenon DEF PatientOK, sessVars
<1> QED
  BY <1>2, <1>7, <1>9, <1>10, <1>11, Zenon DEF NavInv

\* What is left of the stack when its top leaves.
LEMMA TopLeaves ==
  ASSUME EntriesOK, pages # <<>>, NEW qs, qs = Front(pages)
  PROVE  /\ qs \in Seq(PageType) /\ Len(pages) \in DOMAIN pages /\ Top = pages[Len(pages)]
         /\ \A k \in DOMAIN qs : k \in DOMAIN pages /\ qs[k] = pages[k] /\ k # Len(pages)
         /\ \A k \in DOMAIN pages : k # Len(pages) => k \in DOMAIN qs /\ qs[k] = pages[k]
         /\ StackOK(qs, stores, viewSeq)
         /\ Live(pages, stores) => Live(qs, stores)
         /\ Distinct(pages) => Distinct(qs) /\ \A k \in DOMAIN qs : Top.kind \in Kinds => qs[k].kind # Top.kind
<1>1. pages \in Seq(PageType) /\ StackOK(pages, stores, viewSeq)
  BY DEF EntriesOK, StackOK
<1>2. /\ qs \in Seq(PageType) /\ \A k \in DOMAIN qs : k \in DOMAIN pages /\ qs[k] = pages[k] /\ k # Len(pages)
      /\ \A k \in DOMAIN pages : k # Len(pages) => k \in DOMAIN qs
      /\ Len(pages) \in DOMAIN pages
  BY <1>1, FrontOK
<1>3. Top = pages[Len(pages)]
  BY DEF Top
<1>4. StackOK(qs, stores, viewSeq)
  BY <1>1, <1>2, Zenon DEF StackOK
<1>5. Live(pages, stores) => Live(qs, stores)
  BY <1>2, Zenon DEF Live
<1>6. Distinct(pages) => Distinct(qs) /\ \A k \in DOMAIN qs : Top.kind \in Kinds => qs[k].kind # Top.kind
  <2> SUFFICES ASSUME Distinct(pages)
               PROVE  Distinct(qs) /\ \A k \in DOMAIN qs : Top.kind \in Kinds => qs[k].kind # Top.kind
    OBVIOUS
  <2>1. Distinct(qs)
    <3> SUFFICES ASSUME NEW j \in DOMAIN qs, NEW k \in DOMAIN qs, qs[j].kind \in Kinds, qs[j].kind = qs[k].kind
                 PROVE  j = k
      BY DEF Distinct
    <3>1. j \in DOMAIN pages /\ k \in DOMAIN pages /\ pages[j].kind \in Kinds /\ pages[j].kind = pages[k].kind
      BY <1>2
    <3> QED
      BY <3>1, Zenon DEF Distinct
  <2>2. ASSUME NEW k \in DOMAIN qs, Top.kind \in Kinds, qs[k].kind = Top.kind
        PROVE  FALSE
    <3>1. k \in DOMAIN pages /\ pages[k].kind = pages[Len(pages)].kind /\ k # Len(pages)
      BY <1>2, <1>3, <2>2, Zenon
    <3> QED
      BY <1>2, <1>3, <2>2, <3>1, Zenon DEF Distinct
  <2> QED
    BY <2>1, <2>2
<1> QED
  BY <1>2, <1>3, <1>4, <1>5, <1>6, Zenon

\* popPage.
LEMMA PopKeeps ==
  ASSUME NavInv, PopPage
  PROVE  NavInv'
<1>0. SessOK /\ EntriesOK /\ FlightOK /\ (user = "patient" => PatientOK)
  BY DEF NavInv
<1>1. PICK qs : qs = Front(pages)
  OBVIOUS
<1>2. PICK sks : sks = {<<p.sess, p.kind>> : p \in {q \in {Top} : q.kind \notin Warm}}
  OBVIOUS
<1>3. PICK u : u = StopKinds(stores, sks)
  OBVIOUS
<1>4. /\ pages' = qs /\ stores' = u /\ Len(pages) > 1 /\ UNCHANGED sessVars /\ viewSeq' = viewSeq
      /\ flight' = flight /\ user' = user /\ (user = "hasty" \/ flight = <<>>)
  BY <1>1, <1>2, <1>3 DEF PopPage, KeyOK, Leave
<1>5. pages # <<>>
  BY <1>4
<1>6. /\ qs \in Seq(PageType) /\ Len(pages) \in DOMAIN pages /\ Top = pages[Len(pages)]
      /\ \A k \in DOMAIN qs : k \in DOMAIN pages /\ qs[k] = pages[k] /\ k # Len(pages)
      /\ \A k \in DOMAIN pages : k # Len(pages) => k \in DOMAIN qs /\ qs[k] = pages[k]
      /\ StackOK(qs, stores, viewSeq)
      /\ Live(pages, stores) => Live(qs, stores)
      /\ Distinct(pages) => Distinct(qs) /\ \A k \in DOMAIN qs : Top.kind \in Kinds => qs[k].kind # Top.kind
  BY <1>0, <1>1, <1>5, TopLeaves
<1>7. viewSeq \in Nat /\ EngineOK(stores, viewSeq) /\ StackOK(pages, stores, viewSeq) /\ Screened(pages, stores)
  BY <1>0 DEF EntriesOK
<1>8. /\ EngineOK(u, viewSeq) /\ DOMAIN u = DOMAIN stores
      /\ \A i \in DOMAIN stores : SameStore(u[i], stores[i]) /\ (u[i].reg => stores[i].reg)
  BY <1>3, <1>7, Stopped
<1>9. StackOK(qs, u, viewSeq)
  BY <1>3, <1>6, <1>7, StackStops
<1>10. Screened(qs, u)
  <2>1. PICK L : L = {Len(pages)}
    OBVIOUS
  <2>2. \A k \in L : pages[k].kind \notin Warm => <<pages[k].sess, pages[k].kind>> \in sks
    BY <1>2, <1>6, <2>1
  <2>3. \A k \in DOMAIN pages : k \in L \/ (k \in DOMAIN qs /\ qs[k] = pages[k])
    BY <1>6, <2>1
  <2> QED
    BY <1>3, <1>7, <2>2, <2>3, LeaveScreens, ZenonT(30)
<1>11. SessOK' /\ EntriesOK' /\ FlightOK'
  BY <1>0, <1>4, <1>7, <1>8, <1>9, <1>10, SessionsStay, Zenon DEF EntriesOK, FlightOK
<1>12. ASSUME user = "patient"
       PROVE  PatientOK'
  <2>1. PatientOK /\ flight' = <<>> /\ DOMAIN <<>> = {} /\ Len(<<>>) <= 1
    BY <1>0, <1>4, <1>12
  <2>2. Live(qs, stores) /\ Distinct(qs) /\ \A k \in DOMAIN qs : Top.kind \in Kinds => qs[k].kind # Top.kind
    BY <1>6, <2>1, Zenon DEF PatientOK
  <2>3. Live(qs, u)
    <3>1. CASE Top.kind \in Kinds
      <4>1. \A k \in DOMAIN qs : <<qs[k].sess, qs[k].kind>> \notin sks
        BY <1>2, <2>2, <3>1
      <4> QED
        BY <1>3, <1>6, <1>7, <2>2, <4>1, LiveStops
    <3>2. CASE Top.kind \notin Kinds
      <4>1. \A i \in DOMAIN stores : stores[i].kind \in Kinds
        <5>1. \A i \in DOMAIN stores : stores[i] \in StoreRec(viewSeq)
          BY <1>7, LenProperties DEF EngineOK
        <5> QED
          BY <1>7, <5>1, StoreFields
      <4>2. \A i \in DOMAIN stores : <<stores[i].sess, stores[i].kind>> \notin sks
        BY <1>2, <3>2, <4>1
      <4>3. \A i \in DOMAIN stores : SameStore(u[i], stores[i]) /\ (stores[i].reg => u[i].reg)
        BY <1>3, <1>7, <4>2, Stopped
      <4>4. \A i \in DOMAIN stores : stores[i].state # "stopped" => u[i].state # "stopped"
        BY <1>7, <1>8, <4>3, Zenon DEF EngineOK
      <4>5. \A k \in DOMAIN qs : qs[k].kind \in Kinds => qs[k].store \in DOMAIN stores
        BY <1>6, Zenon DEF StackOK, Attached
      <4> QED
        BY <2>2, <4>3, <4>4, <4>5, Zenon DEF Live, SameStore
    <3> QED
      BY <3>1, <3>2
  <2>4. Owned(u, sess)
    BY <1>8, <2>1, Zenon DEF PatientOK, Owned, SameStore
  <2>5. \A k \in DOMAIN qs : qs[k].sess = sess /\ (qs[k].kind \in Workloads => k = 1)
    BY <1>6, <2>1, Zenon DEF PatientOK
  <2>6. sess # 0
    BY <1>5, <2>1 DEF PatientOK
  <2> QED
    BY <1>4, <2>1, <2>2, <2>3, <2>4, <2>5, <2>6, Zenon DEF PatientOK, sessVars
<1> QED
  BY <1>4, <1>11, <1>12, Zenon DEF NavInv

\* retryActive: the page's store is stopped and entered anew in place.
LEMMA RetryKeeps ==
  ASSUME NavInv, Retry
  PROVE  NavInv' /\ TopRuns
<1>0. SessOK /\ EntriesOK /\ FlightOK /\ (user = "patient" => PatientOK)
  BY DEF NavInv
<1>1. PICK qs : qs = Front(pages)
  OBVIOUS
<1>2. PICK sks : sks = {<<sess, Top.kind>>}
  OBVIOUS
<1>3. PICK u : u = StopKinds(stores, sks)
  OBVIOUS
<1>4. /\ pages # <<>> /\ Top.kind \in Kinds /\ stores[Top.store].state = "terminal"
      /\ EnterPage(u, qs, Top) /\ UNCHANGED sessVars
      /\ flight' = flight /\ user' = user /\ (user = "hasty" \/ flight = <<>>)
  BY <1>1, <1>2, <1>3 DEF Retry, KeyOK, IsTable
<1>5. /\ qs \in Seq(PageType) /\ Len(pages) \in DOMAIN pages /\ Top = pages[Len(pages)]
      /\ \A k \in DOMAIN qs : k \in DOMAIN pages /\ qs[k] = pages[k] /\ k # Len(pages)
      /\ \A k \in DOMAIN pages : k # Len(pages) => k \in DOMAIN qs /\ qs[k] = pages[k]
      /\ StackOK(qs, stores, viewSeq)
      /\ Live(pages, stores) => Live(qs, stores)
      /\ Distinct(pages) => Distinct(qs) /\ \A k \in DOMAIN qs : Top.kind \in Kinds => qs[k].kind # Top.kind
  BY <1>0, <1>1, <1>4, TopLeaves
<1>6. viewSeq \in Nat /\ EngineOK(stores, viewSeq) /\ StackOK(pages, stores, viewSeq) /\ Screened(pages, stores)
  BY <1>0 DEF EntriesOK
<1>7. /\ EngineOK(u, viewSeq) /\ DOMAIN u = DOMAIN stores
      /\ \A i \in DOMAIN stores : SameStore(u[i], stores[i]) /\ (u[i].reg => stores[i].reg)
  BY <1>3, <1>6, Stopped
<1>8. StackOK(qs, u, viewSeq)
  BY <1>3, <1>5, <1>6, StackStops
<1>9. Screened(qs, u)
  <2> SUFFICES ASSUME NEW i \in DOMAIN u, u[i].state = "run", u[i].kind \notin Warm
               PROVE  \E k \in DOMAIN qs : qs[k].store = i
    BY DEF Screened
  <2>1. u[i].reg
    BY <1>7 DEF EngineOK
  <2>2. i \in DOMAIN stores /\ stores[i].state = "run" /\ stores[i].kind \notin Warm
    BY <1>7, <2>1, Zenon DEF SameStore
  <2>3. PICK k \in DOMAIN pages : pages[k].store = i
    BY <1>6, <2>2, Zenon DEF Screened
  <2>4. k # Len(pages)
    BY <1>4, <1>5, <2>2, <2>3
  <2> QED
    BY <1>5, <2>3, <2>4
<1>10. Top \in PageType
  <2>1. pages \in Seq(PageType)
    BY <1>6 DEF StackOK
  <2> QED
    BY <1>5, <2>1, LenProperties, ElementOfSeq
<1>11. EntriesOK'
  BY <1>4, <1>7, <1>8, <1>9, <1>10, EntriesKept
<1>12. SessOK' /\ FlightOK'
  BY <1>0, <1>4, SessionsStay, Zenon DEF FlightOK
<1>14. TopRuns
  BY <1>4, <1>6, <1>7, <1>8, <1>9, <1>10, PageEnters
<1>13. ASSUME user = "patient"
       PROVE  PatientOK'
  <2>1. PatientOK /\ flight' = <<>> /\ DOMAIN <<>> = {} /\ Len(<<>>) <= 1
    BY <1>0, <1>4, <1>13
  <2>2. Live(qs, stores) /\ Distinct(qs) /\ \A k \in DOMAIN qs : qs[k].kind # Top.kind
    BY <1>4, <1>5, <2>1, Zenon DEF PatientOK
  <2>3. Live(qs, u)
    <3>1. \A k \in DOMAIN qs : <<qs[k].sess, qs[k].kind>> \notin sks
      BY <1>2, <2>2
    <3> QED
      BY <1>3, <1>5, <1>6, <2>2, <3>1, LiveStops
  <2>4. Owned(u, sess) /\ Top.sess = sess
    BY <1>5, <1>7, <2>1, Zenon DEF PatientOK, Owned, SameStore
  <2>5. Pushed(pages', qs, Top)
    BY <1>4, <1>6, <1>7, <1>8, <1>9, <1>10, PageEnters
  <2>6. Live(pages', stores') /\ Distinct(pages')
    BY <1>4, <1>6, <1>7, <1>8, <1>9, <1>10, <2>2, <2>3, PageEnters
  <2>7. Owned(stores', sess)
    BY <1>4, <1>6, <1>7, <1>8, <1>9, <1>10, <2>4, PageEnters
  <2>8. PICK q \in PageType : pages' = Append(qs, q) /\ q.kind = Top.kind /\ q.sess = Top.sess
    BY <2>5 DEF Pushed
  <2>9. PICK ps : ps = Append(qs, q)
    OBVIOUS
  <2>10. /\ ps[Len(ps)] = q /\ Len(ps) = Len(qs) + 1
         /\ \A k \in DOMAIN qs : k \in DOMAIN ps /\ ps[k] = qs[k]
         /\ \A k \in DOMAIN ps : k \in DOMAIN qs \/ k = Len(ps)
    BY <1>5, <2>9, AppendOK
  <2>11. Len(ps) = Len(pages)
    <3>1. pages \in Seq(PageType)
      BY <1>6 DEF StackOK
    <3>2. Len(qs) = Len(pages) - 1 /\ Len(pages) \in Nat
      BY <1>1, <1>4, <3>1, FrontOK, LenProperties
    <3> QED
      BY <2>10, <3>2
  <2>12. \A k \in DOMAIN ps : ps[k].sess = sess /\ (ps[k].kind \in Workloads => k = 1)
    <3> TAKE k \in DOMAIN ps
    <3>1. CASE k \in DOMAIN qs
      BY <1>5, <2>1, <2>10, <3>1, Zenon DEF PatientOK
    <3>2. CASE k = Len(ps)
      <4>1. ps[k].kind = pages[k].kind /\ k \in DOMAIN pages /\ ps[k].sess = Top.sess
        BY <1>5, <2>8, <2>10, <2>11, <3>2
      <4> QED
        BY <2>1, <2>4, <4>1, Zenon DEF PatientOK
    <3> QED
      BY <2>10, <3>1, <3>2
  <2>13. sess # 0
    BY <1>4, <2>1 DEF PatientOK
  <2> QED
    BY <1>4, <2>1, <2>6, <2>7, <2>8, <2>9, <2>12, <2>13, Zenon DEF PatientOK, sessVars
<1> QED
  BY <1>4, <1>11, <1>12, <1>13, <1>14, Zenon DEF NavInv

FailedStores(ss, i) == [ss EXCEPT ![i].state = "terminal"]

\* OnTerminalError: a running store fails, and stays registered.
LEMMA StoreFailed ==
  ASSUME NEW n \in Nat, NEW ss, EngineOK(ss, n), NEW i \in DOMAIN ss, ss[i].state = "run", NEW u, u = FailedStores(ss, i)
  PROVE  /\ EngineOK(u, n) /\ DOMAIN u = DOMAIN ss
         /\ \A j \in DOMAIN ss : /\ u[j].sess = ss[j].sess /\ u[j].kind = ss[j].kind /\ u[j].view = ss[j].view
                                 /\ (u[j].reg <=> ss[j].reg)
                                 /\ u[j].state = "run" => ss[j].state = "run"
                                 /\ u[j].state = "stopped" => ss[j].state = "stopped"
<1>1. PICK len \in Nat : len = Len(ss) /\ DOMAIN ss = 1 .. len /\ \A j \in 1 .. len : ss[j] \in StoreRec(n)
  BY LenProperties DEF EngineOK
<1>2. ss = [j \in 1 .. len |-> ss[j]]
  <2>1. ss \in Seq(StoreRec(n))
    BY DEF EngineOK
  <2>2. ss \in [1 .. len -> StoreRec(n)]
    BY <1>1, <2>1, LenProperties
  <2> QED
    BY <2>2
<1>3. u = [j \in 1 .. len |-> IF j = i THEN [ss[i] EXCEPT !.state = "terminal"] ELSE ss[j]]
  BY <1>1, <1>2 DEF FailedStores
<1>4. ASSUME NEW j \in 1 .. len
      PROVE  /\ u[j] \in StoreRec(n) /\ u[j].sess = ss[j].sess /\ u[j].kind = ss[j].kind /\ u[j].view = ss[j].view
             /\ (u[j].reg <=> ss[j].reg)
             /\ j # i => u[j].state = ss[j].state
             /\ j = i => u[j].state = "terminal"
  <2>1. CASE j = i
    <3>1. PICK r \in StoreRec(n) : r = ss[i]
      BY <1>1
    <3>2. PICK q : q = [r EXCEPT !.state = "terminal"]
      OBVIOUS
    <3>3. /\ q \in StoreRec(n) /\ q.sess = r.sess /\ q.kind = r.kind /\ q.view = r.view
          /\ (q.reg <=> r.reg) /\ q.state = "terminal"
      BY <3>2, StoreFailing
    <3>4. u[i] = q
      BY <1>1, <1>3, <3>1, <3>2
    <3> QED
      BY <2>1, <3>1, <3>3, <3>4, Zenon
  <2>2. CASE j # i
    <3>1. u[j] = ss[j]
      BY <1>3, <2>2
    <3> QED
      BY <1>1, <2>2, <3>1, Zenon
  <2> QED
    BY <2>1, <2>2
<1>5. u \in [1 .. len -> StoreRec(n)]
  BY <1>3, <1>4
<1>6. u \in Seq(StoreRec(n)) /\ Len(u) = len /\ DOMAIN u = 1 .. len
  BY <1>5, FunctionIsSeq, Zenon
<1>7. ss[i].reg
  <2>1. "run" # "stopped"
    OBVIOUS
  <2> QED
    BY <2>1, Zenon DEF EngineOK
<1>8. EngineOK(u, n)
  <2>1. \A j \in 1 .. len : u[j].reg <=> u[j].state # "stopped"
    BY <1>1, <1>4, <1>7 DEF EngineOK
  <2>2. \A j, l \in 1 .. len :
          u[j].reg /\ u[l].reg /\ u[j].sess = u[l].sess /\ u[j].kind = u[l].kind => j = l
    BY <1>1, <1>4 DEF EngineOK
  <2> QED
    BY <1>6, <2>1, <2>2 DEF EngineOK
<1> QED
  BY <1>1, <1>4, <1>6, <1>8

\* A watch fails for good: the page that shows the store keeps its stack.
LEMMA FailKeeps ==
  ASSUME NavInv, NEW i, StoreFails(i)
  PROVE  NavInv'
<1>0. SessOK /\ EntriesOK /\ FlightOK /\ (user = "patient" => PatientOK)
  BY DEF NavInv
<1>1. PICK u : u = FailedStores(stores, i)
  OBVIOUS
<1>2. /\ i \in DOMAIN stores /\ stores[i].state = "run" /\ stores' = u
      /\ UNCHANGED sessVars /\ viewSeq' = viewSeq /\ pages' = pages /\ flight' = flight /\ user' = user
  BY <1>1 DEF StoreFails, FailedStores
<1>3. viewSeq \in Nat /\ EngineOK(stores, viewSeq) /\ StackOK(pages, stores, viewSeq) /\ Screened(pages, stores)
  BY <1>0 DEF EntriesOK
<1>4. /\ EngineOK(u, viewSeq) /\ DOMAIN u = DOMAIN stores
      /\ \A j \in DOMAIN stores : /\ u[j].sess = stores[j].sess /\ u[j].kind = stores[j].kind /\ u[j].view = stores[j].view
                                  /\ (u[j].reg <=> stores[j].reg)
                                  /\ u[j].state = "run" => stores[j].state = "run"
                                  /\ u[j].state = "stopped" => stores[j].state = "stopped"
  BY <1>1, <1>2, <1>3, StoreFailed
<1>5. StackOK(pages, u, viewSeq)
  <2>1. \A k \in DOMAIN pages : Attached(pages[k], stores, viewSeq) => Attached(pages[k], u, viewSeq)
    BY <1>4, Zenon DEF Attached
  <2> QED
    BY <1>3, <2>1, Zenon DEF StackOK
<1>6. Screened(pages, u)
  BY <1>3, <1>4, Zenon DEF Screened
<1>7. SessOK' /\ EntriesOK' /\ FlightOK'
  BY <1>0, <1>2, <1>3, <1>4, <1>5, <1>6, SessionsStay, Zenon DEF EntriesOK, FlightOK
<1>8. ASSUME user = "patient"
      PROVE  PatientOK'
  <2>1. PatientOK
    BY <1>0, <1>8
  <2>2. \A k \in DOMAIN pages : pages[k].kind \in Kinds => pages[k].store \in DOMAIN stores
    BY <1>3, Zenon DEF StackOK, Attached
  <2>3. Live(pages, u)
    BY <1>4, <2>1, <2>2, Zenon DEF PatientOK, Live
  <2>4. Owned(u, sess)
    BY <1>4, <2>1, Zenon DEF PatientOK, Owned
  <2> QED
    BY <1>2, <2>1, <2>3, <2>4, Zenon DEF PatientOK, sessVars
<1> QED
  BY <1>2, <1>7, <1>8, Zenon DEF NavInv

\* Every handler and command of the root model keeps the invariant.
LEMMA NavStep == NavInv /\ [Next]_vars => NavInv'
<1> SUFFICES ASSUME NavInv, [Next]_vars PROVE NavInv'
  OBVIOUS
<1>1. CASE UNCHANGED vars
  BY <1>1, Zenon DEF vars, sessVars, navVars, NavInv, SessOK, EntriesOK, FlightOK, PatientOK
<1>2. ASSUME NEW c \in Contexts, SwitchContext(c) PROVE NavInv'
  BY <1>2, SwitchKeeps
<1>3. ASSUME NEW b \in boots, SessionReady(b) PROVE NavInv'
  BY <1>3, ReadyKeeps
<1>4. ASSUME NEW b \in boots, SessionError(b) PROVE NavInv'
  BY <1>4, ErrorKeeps
<1>5. ASSUME NEW k \in Kinds, NEW ns \in Namespaces, Navigate(k, ns) PROVE NavInv'
  BY <1>5, NavigateKeeps
<1>6. ASSUME NEW k \in {"pods", "text"}, NEW ns \in Namespaces, DrillIn(k, ns) PROVE NavInv'
  BY <1>6, DrillKeeps
<1>7. ASSUME NEW i, PushMsg(i) PROVE NavInv'
  BY <1>7, PushKeeps
<1>8. CASE PopPage
  BY <1>8, PopKeeps
<1>9. CASE Retry
  BY <1>9, RetryKeeps
<1>10. ASSUME NEW i, StoreFails(i) PROVE NavInv'
  BY <1>10, FailKeeps
<1> QED
  BY <1>1, <1>2, <1>3, <1>4, <1>5, <1>6, <1>7, <1>8, <1>9, <1>10, Zenon DEF Next

\* The invariant of the root model.
LEMMA NavInvariance == Spec => []NavInv
BY NavInit, NavStep, PTL DEF Spec

\* TypeOK is the typed part of the invariant.
LEMMA NavTyped == NavInv => TypeOK
<1> SUFFICES ASSUME NavInv PROVE TypeOK
  OBVIOUS
<1>1. viewSeq \in Nat /\ stores \in Seq(StoreRec(viewSeq)) /\ pages \in Seq(PageType) /\ flight \in Seq(PageType)
  BY DEF NavInv, EntriesOK, EngineOK, StackOK, FlightOK
<1> QED
  BY <1>1, Zenon DEF NavInv, SessOK, TypeOK, StoreRec

\* Every running informer is the only one of its kind in its session, a
\* screen-scoped one has a page on the stack and, for a user who waits for
\* drill-ins to open, it is of the current session (Ensure, Leave, StopAll).
THEOREM InformersStayHome == Spec => []InformersBelong
<1>1. NavInv => InformersBelong
  <2> SUFFICES ASSUME NavInv PROVE InformersBelong
    OBVIOUS
  <2>1. \A i \in DOMAIN stores : stores[i].state = "run" => stores[i].reg
    BY DEF NavInv, EntriesOK, EngineOK
  <2>2. OneStorePerKind
    BY <2>1, Zenon DEF OneStorePerKind, NavInv, EntriesOK, EngineOK
  <2>3. OnlyCurrentSessionRuns
    BY <2>1, Zenon DEF OnlyCurrentSessionRuns, NavInv, PatientOK, Owned
  <2>4. ScreenScopedStops
    <3> SUFFICES ASSUME NEW i \in DOMAIN stores, stores[i].state = "run", stores[i].kind \notin Warm
                 PROVE  \E p \in ToSet(pages) : p.store = i
      BY DEF ScreenScopedStops
    <3>1. PICK k \in DOMAIN pages : pages[k].store = i
      BY Zenon DEF NavInv, EntriesOK, Screened
    <3>2. pages[k] \in ToSet(pages)
      BY DEF ToSet
    <3> QED
      BY <3>1, <3>2
  <2> QED
    BY <2>2, <2>3, <2>4, NavTyped DEF InformersBelong
<1> QED
  BY <1>1, NavInvariance, PTL

\* A snapshot the active table takes comes from the store the page entered: no
\* other store, of this session or of a disposed one, carries the page's view id.
THEOREM SnapshotsAreOwn == Spec => []SnapshotOwnership
<1>1. NavInv => SnapshotOwnership
  <2> SUFFICES ASSUME NavInv, pages # <<>>, Top.kind \in Kinds, NEW i \in DOMAIN stores, stores[i].view = Top.view
               PROVE  i = Top.store
    BY DEF SnapshotOwnership, IsTable
  <2>1. Len(pages) \in DOMAIN pages /\ Top = pages[Len(pages)]
    <3>1. EntriesOK
      BY DEF NavInv
    <3>2. PICK qs : qs = Front(pages)
      OBVIOUS
    <3> QED
      BY <3>1, <3>2, TopLeaves
  <2>2. Attached(Top, stores, viewSeq)
    BY <2>1 DEF NavInv, EntriesOK, StackOK
  <2> QED
    BY <2>2, Zenon DEF Attached
<1> QED
  BY <1>1, NavInvariance, PTL

\* A user who waits for drill-ins and sessions looks at what was asked for: the
\* table on top is fed by a store that carries its view id, and the session is
\* that of the context chosen last (popPage, switchContext, onSessionReady).
THEOREM PatientUserSeesRightPage == Spec => []RightPage
<1>1. NavInv => RightPage
  <2> SUFFICES ASSUME NavInv PROVE RightPage
    OBVIOUS
  <2>1. RightContext
    BY Zenon DEF RightContext, NavInv, PatientOK
  <2>2. TopPageLive
    <3> SUFFICES ASSUME user = "patient", pages # <<>>, Top.kind \in Kinds
                 PROVE  stores[Top.store].view = Top.view /\ stores[Top.store].state # "stopped"
      BY DEF TopPageLive, IsTable
    <3>1. Len(pages) \in DOMAIN pages /\ Top = pages[Len(pages)]
      <4>1. EntriesOK
        BY DEF NavInv
      <4>2. PICK qs : qs = Front(pages)
        OBVIOUS
      <4> QED
        BY <4>1, <4>2, TopLeaves
    <3>2. Live(pages, stores)
      BY DEF NavInv, PatientOK
    <3> QED
      BY <3>1, <3>2 DEF Live
  <2> QED
    BY <2>1, <2>2 DEF RightPage
<1> QED
  BY <1>1, NavInvariance, PTL

\* Every entry of a table (navigation, drill-in, retry) ends with a running store:
\* Ensure rebuilds a terminal one and never hands it back.
THEOREM EntriesRun == Spec => EntryRuns
<1>1. NavInv /\ [Next]_vars => [viewSeq' # viewSeq => stores'[Top'.store].state = "run" /\ stores'[Top'.store].reg]_vars
  <2> SUFFICES ASSUME NavInv, Next PROVE viewSeq' = viewSeq \/ TopRuns
    BY Zenon DEF Top, TopRuns
  <2>1. ASSUME NEW c \in Contexts, SwitchContext(c) PROVE viewSeq' = viewSeq
    BY <2>1 DEF SwitchContext
  <2>2. ASSUME NEW b \in boots, SessionReady(b) PROVE TopRuns
    BY <2>2, ReadyKeeps
  <2>3. ASSUME NEW b \in boots, SessionError(b) PROVE viewSeq' = viewSeq
    BY <2>3 DEF SessionError, navVars
  <2>4. ASSUME NEW k \in Kinds, NEW ns \in Namespaces, Navigate(k, ns) PROVE TopRuns
    BY <2>4, NavigateKeeps
  <2>5. ASSUME NEW k \in {"pods", "text"}, NEW ns \in Namespaces, DrillIn(k, ns) PROVE viewSeq' = viewSeq
    BY <2>5 DEF DrillIn
  <2>6. ASSUME NEW i, PushMsg(i) PROVE TopRuns
    BY <2>6, PushKeeps
  <2>7. CASE PopPage
    BY <2>7 DEF PopPage
  <2>8. CASE Retry
    BY <2>8, RetryKeeps
  <2>9. ASSUME NEW i, StoreFails(i) PROVE viewSeq' = viewSeq
    BY <2>9 DEF StoreFails
  <2> QED
    BY <2>1, <2>2, <2>3, <2>4, <2>5, <2>6, <2>7, <2>8, <2>9, Zenon DEF Next
<1> QED
  BY <1>1, NavInvariance, PTL DEF Spec, EntryRuns
=============================================================================
