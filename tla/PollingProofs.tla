---------------------------- MODULE PollingProofs ----------------------------
(***************************************************************************)
(* Pages that refresh themselves go on doing so, once, and take their own  *)
(* answers only; a toast stays as long as its own timer: for every number  *)
(* of pages, of tokens, of requests and timers in flight, of sessions and  *)
(* of toasts.                                                              *)
(***************************************************************************)
EXTENDS Polling, SequenceTheorems, TLAPS

-----------------------------------------------------------------------------
(* Bags *)

\* A command alone in a bag.
LEMMA OneBag == \A i : /\ IsABag(One(i)) /\ BagToSet(One(i)) = {i}
                       /\ \A e : Copies(e, One(i)) = IF e = i THEN 1 ELSE 0
BY DEF One, SetToBag, IsABag, BagToSet, Copies

\* The empty bag.
LEMMA NoBag == /\ IsABag(EmptyBag) /\ BagToSet(EmptyBag) = {}
               /\ \A e : Copies(e, EmptyBag) = 0
BY DEF EmptyBag, SetToBag, IsABag, BagToSet, Copies

\* In a bag is what it has copies of.
LEMMA InBag ==
  ASSUME NEW B, IsABag(B)
  PROVE  \A e : Copies(e, B) \in Nat /\ (e \in BagToSet(B) <=> Copies(e, B) > 0)
BY DEF IsABag, BagToSet, Copies

\* Two bags put together.
LEMMA AddBag ==
  ASSUME NEW B, IsABag(B), NEW C, IsABag(C), NEW D, D = B (+) C
  PROVE  IsABag(D) /\ BagToSet(D) = BagToSet(B) \cup BagToSet(C)
         /\ \A e : Copies(e, D) = Copies(e, B) + Copies(e, C)
BY DEF IsABag, BagToSet, Copies, (+)

\* One copy of an element is taken out.
LEMMA TakeBag ==
  ASSUME NEW B, IsABag(B), NEW i \in BagToSet(B), NEW D, D = B (-) One(i)
  PROVE  IsABag(D) /\ BagToSet(D) \subseteq BagToSet(B)
         /\ \A e : Copies(e, D) = IF e = i THEN Copies(e, B) - 1 ELSE Copies(e, B)
<1>1. PICK A : A = [e \in DOMAIN B |-> IF e = i THEN B[e] - 1 ELSE B[e]]
  OBVIOUS
<1>2. DOMAIN One(i) = {i} /\ One(i)[i] = 1
  BY DEF One, SetToBag
<1>3. A = [e \in DOMAIN B |-> IF e \in DOMAIN One(i) THEN B[e] - One(i)[e] ELSE B[e]]
  BY <1>1, <1>2
<1>4. D = [e \in {d \in DOMAIN A : A[d] > 0} |-> A[e]]
  BY <1>3, Zenon DEF (-)
<1>5. DOMAIN A = DOMAIN B /\ \A e \in DOMAIN B : B[e] \in Nat /\ B[e] > 0
  BY <1>1 DEF IsABag
<1>6. \A e \in DOMAIN B : A[e] = IF e = i THEN B[e] - 1 ELSE B[e]
  BY <1>1
<1>7. \A e \in DOMAIN B : A[e] \in Nat
  BY <1>5, <1>6
<1>8. PICK T : T = {d \in DOMAIN B : A[d] > 0}
  OBVIOUS
<1>9. DOMAIN D = T /\ \A e \in T : D[e] = A[e]
  BY <1>4, <1>5, <1>8
<1>10. D = [e \in T |-> A[e]]
  BY <1>4, <1>5, <1>8
<1>11. \A e \in T : A[e] \in {n \in Nat : n > 0}
  BY <1>7, <1>8
<1>12. IsABag(D)
  BY <1>9, <1>10, <1>11 DEF IsABag
<1>13. ASSUME NEW e PROVE Copies(e, D) = IF e = i THEN Copies(e, B) - 1 ELSE Copies(e, B)
  <2>1. CASE e \in DOMAIN B
    BY <1>5, <1>6, <1>7, <1>8, <1>9, <2>1 DEF Copies, BagToSet
  <2>2. CASE e \notin DOMAIN B
    BY <1>8, <1>9, <2>2 DEF Copies, BagToSet
  <2> QED
    BY <2>1, <2>2
<1> QED
  BY <1>8, <1>9, <1>12, <1>13 DEF BagToSet

-----------------------------------------------------------------------------
(* The inductive invariant *)

\* Everything but the pages, the flight and the toasts.
ScalarsOK ==
  /\ scene \in Scenes /\ built \in 0 .. MaxPages /\ tokenSeq \in 0 .. MaxTokens
  /\ trouble \in 0 .. MaxTrouble /\ cluster \in 0 .. trouble + 1
  /\ sess \in 1 .. MaxSessions /\ alive \in BOOLEAN
  /\ poller \in [1 .. MaxSessions -> PollerStates]
  /\ served \in BOOLEAN /\ metricsOK \in {"off"} \cup Namespaces /\ pollNs \in Namespaces

\* A page: tokens are handed out in order, to browse pages only, and a browse page
\* shows only its own table.
PageOK(p, seq) ==
  /\ p \in PageRec /\ p.token <= seq
  /\ p.rows # Nothing => p.loaded
  /\ (p.token # 0) <=> (p.kind = "browse")
  /\ p.kind = "browse" => p.rows.by \in {0, p.id}

\* No two browse pages share a token.
StackOK(ps, seq) ==
  /\ ps \in Seq(PageRec) /\ Len(ps) <= MaxDepth
  /\ \A n \in 1 .. Len(ps) : PageOK(ps[n], seq)
  /\ \A m, n \in 1 .. Len(ps) : ps[n].kind = "browse" /\ ps[m].token = ps[n].token => m = n

\* A request or an answer with the token of a page is that page's; nothing in flight has
\* a token that has not been handed out yet.
Sender(i) == IF i.what = "fetch" THEN i.by ELSE i.rows.by
Member(i, ps, seq, tt) ==
  /\ i \in Item \cup AnswerRec
  /\ IF i.what = "expire" THEN i.token <= tt ELSE i.token <= seq
  /\ i.what \in {"fetch", "answer"} =>
       \A n \in 1 .. Len(ps) : ps[n].kind = "browse" /\ ps[n].token = i.token => Sender(i) \in {0, ps[n].id}
FlightOK(fl, ps, seq, tt) ==
  /\ IsABag(fl) /\ \A i \in BagToSet(fl) : Member(i, ps, seq, tt)
  /\ \A t : Copies(Expiry(t), fl) <= 1

\* OneChain and NeverFrozen, of a stack and a flight.
Chains(ps, fl) ==
  \A n \in 1 .. Len(ps) :
    ps[n].kind = "browse" => /\ Copies(Tick(ps[n]), fl) <= 1
                             /\ n = Len(ps) => Copies(Tick(ps[n]), fl) = 1
Awake(ps, fl) ==
  Len(ps) > 0 /\ ps[Len(ps)].kind \in Resumable =>
    \E i \in BagToSet(fl) : i.what # "expire" /\ i.kind = ps[Len(ps)].kind

\* The toast on screen is the last one, as long as its timer runs.
ToastOK(t, tt, fl) ==
  /\ tt \in 0 .. MaxToasts /\ t \in {0, tt}
  /\ t # 0 => Expiry(t) \in BagToSet(fl)
  /\ t = 0 => Expiry(tt) \notin BagToSet(fl)

PagesInv(ps, seq, fl, t, tt) ==
  /\ StackOK(ps, seq) /\ FlightOK(fl, ps, seq, tt) /\ Chains(ps, fl) /\ Awake(ps, fl) /\ ToastOK(t, tt, fl)
PollInv == ScalarsOK /\ PagesInv(pages, tokenSeq, flight, toast, toastToken)

-----------------------------------------------------------------------------
(* What is in flight *)

\* The fields of what may be in flight.
LEMMA ItemFields ==
  ASSUME NEW i \in Item \cup AnswerRec
  PROVE  /\ i.what \in {"fetch", "tick", "rearm", "answer", "expire"}
         /\ i.what = "fetch" => i.kind \in PageKinds /\ i.token \in 0 .. MaxTokens /\ i.by \in 0 .. MaxPages
                                /\ i.sess \in 1 .. MaxSessions
         /\ i.what \in {"tick", "rearm"} => i = [what |-> i.what, kind |-> i.kind, token |-> i.token]
                                            /\ i.kind \in PageKinds /\ i.token \in 0 .. MaxTokens
         /\ i.what = "answer" => i.kind \in PageKinds /\ i.token \in 0 .. MaxTokens /\ i.ok \in BOOLEAN /\ i.rows \in Rows
         /\ i.what = "expire" => i = Expiry(i.token) /\ i.token \in 1 .. MaxToasts
<1>1. CASE i \in [what : {"fetch"}, kind : PageKinds, token : 0..MaxTokens, by : 0..MaxPages, sess : 1..MaxSessions]
  BY <1>1
<1>2. CASE i \in [what : {"tick", "rearm"}, kind : PageKinds, token : 0..MaxTokens]
  BY <1>2
<1>3. CASE i \in [what : {"expire"}, token : 1..MaxToasts]
  BY <1>3 DEF Expiry
<1>4. CASE i \in AnswerRec
  BY <1>4 DEF AnswerRec
<1> QED
  BY <1>1, <1>2, <1>3, <1>4 DEF Item

\* The fields of a page.
LEMMA PageFields ==
  ASSUME NEW p \in PageRec
  PROVE  /\ p.id \in 1 .. MaxPages /\ p.kind \in PageKinds /\ p.sess \in 1 .. MaxSessions /\ p.loaded \in BOOLEAN
         /\ p.failed \in BOOLEAN /\ p.rows \in Rows /\ p.token \in 0 .. MaxTokens
BY DEF PageRec

\* Requests, timers and expiries are different things.
LEMMA Different ==
  /\ \A p : Fetch(p).what = "fetch" /\ Fetch(p).kind = p.kind /\ Fetch(p).token = p.token /\ Fetch(p).sess = p.sess
            /\ Fetch(p).by = IF p.token = 0 THEN 0 ELSE p.id
  /\ \A p : Tick(p).what = "tick" /\ Tick(p).kind = p.kind /\ Tick(p).token = p.token
  /\ \A t : Expiry(t).what = "expire" /\ Expiry(t).token = t
  /\ Rearm.what = "rearm" /\ Rearm.kind = "tenants" /\ Rearm.token = 0
  /\ \A f, ok : Answer(f, ok).what = "answer" /\ Answer(f, ok).kind = f.kind /\ Answer(f, ok).token = f.token
                /\ Answer(f, ok).ok = ok /\ Answer(f, ok).rows = [by |-> f.by, at |-> cluster, sess |-> f.sess]
BY DEF Fetch, Tick, Expiry, Rearm, Answer

\* The bag of what a page asks for: requests and "n" timers of its own.
Cmds(C, p, n) ==
  /\ IsABag(C) /\ BagToSet(C) \subseteq {Fetch(p), Tick(p)} /\ Copies(Tick(p), C) = n

\* Every combination the pages use.
LEMMA Commands ==
  ASSUME NEW p
  PROVE  /\ Cmds(EmptyBag, p, 0) /\ Cmds(One(Fetch(p)), p, 0) /\ Cmds(Two(Fetch(p)), p, 0) /\ Cmds(One(Tick(p)), p, 1)
         /\ Cmds(One(Fetch(p)) (+) One(Tick(p)), p, 1)
         /\ Fetch(p) \in BagToSet(One(Fetch(p))) /\ Fetch(p) \in BagToSet(Two(Fetch(p)))
         /\ Fetch(p) \in BagToSet(One(Fetch(p)) (+) One(Tick(p))) /\ Tick(p) \in BagToSet(One(Tick(p)))
<1>1. Fetch(p) # Tick(p)
  BY Different
<1>2. PICK F, T, FF, FT : F = One(Fetch(p)) /\ T = One(Tick(p)) /\ FF = F (+) F /\ FT = F (+) T
  OBVIOUS
<1>3. /\ IsABag(F) /\ BagToSet(F) = {Fetch(p)} /\ Copies(Tick(p), F) = 0
      /\ IsABag(T) /\ BagToSet(T) = {Tick(p)} /\ Copies(Tick(p), T) = 1
  BY <1>1, <1>2, OneBag
<1>4. /\ IsABag(FF) /\ BagToSet(FF) = {Fetch(p)} /\ Copies(Tick(p), FF) = 0
      /\ IsABag(FT) /\ BagToSet(FT) = {Fetch(p), Tick(p)} /\ Copies(Tick(p), FT) = 1
  BY <1>2, <1>3, AddBag
<1> QED
  BY <1>2, <1>3, <1>4, NoBag DEF Cmds, Two

\* What Init and OnEnter, and what OnResume asks for.
LEMMA EnterAsks ==
  ASSUME NEW p, p.kind \in PageKinds
  PROVE  /\ Cmds(EnterCmds(p), p, IF p.kind = "browse" THEN 1 ELSE 0)
         /\ p.kind # "text" => Fetch(p) \in BagToSet(EnterCmds(p))
BY Commands DEF EnterCmds, PageKinds

\* The commands of a page of the stack may be in flight.
LEMMA OwnMember ==
  ASSUME NEW ps, NEW seq \in Nat, StackOK(ps, seq), NEW k \in 1 .. Len(ps), NEW tt
  PROVE  Member(Fetch(ps[k]), ps, seq, tt) /\ Member(Tick(ps[k]), ps, seq, tt)
<1>1. PICK p : p = ps[k]
  OBVIOUS
<1>2. p \in PageRec /\ p.token <= seq
  BY <1>1, Zenon DEF StackOK, PageOK
<1>3. /\ p.id \in 1 .. MaxPages /\ p.kind \in PageKinds /\ p.sess \in 1 .. MaxSessions /\ p.token \in 0 .. MaxTokens
  BY <1>2, PageFields
<1>4. Fetch(p) \in Item
  BY <1>3, ConstantsOK DEF Fetch, Item
<1>5. Tick(p) \in Item
  BY <1>3 DEF Tick, Item
<1>6. \A n \in 1 .. Len(ps) : ps[n].kind = "browse" /\ ps[n].token = p.token => n = k
  BY <1>1 DEF StackOK
<1>7. \A n \in 1 .. Len(ps) : ps[n].kind = "browse" /\ ps[n].token = Fetch(p).token => Sender(Fetch(p)) \in {0, ps[n].id}
  BY <1>1, <1>6, Different DEF Sender
<1> QED
  BY <1>1, <1>2, <1>4, <1>5, <1>7, Different DEF Member

\* The browse pages of the new stack have kept token and page number, or got a fresh token.
Descends(ps, ps2, seq) ==
  \A n \in 1 .. Len(ps2) : ps2[n].kind = "browse" =>
    \/ ps2[n].token > seq
    \/ \E m \in 1 .. Len(ps) : ps[m].kind = "browse" /\ ps[m].token = ps2[n].token /\ ps[m].id = ps2[n].id

\* What is in flight stays in order over such a stack.
LEMMA StaysMember ==
  ASSUME NEW i, NEW ps, NEW seq \in Nat, NEW tt, Member(i, ps, seq, tt),
         NEW ps2, NEW seq2 \in Nat, seq <= seq2, Descends(ps, ps2, seq),
         \A n \in 1 .. Len(ps2) : ps2[n] \in PageRec
  PROVE  Member(i, ps2, seq2, tt)
<1>1. i \in Item \cup AnswerRec
  BY DEF Member
<1>2. i.what # "expire" => i.token \in Nat /\ i.token <= seq
  BY <1>1, ItemFields DEF Member
<1>3. ASSUME i.what \in {"fetch", "answer"}, NEW n \in 1 .. Len(ps2), ps2[n].kind = "browse", ps2[n].token = i.token
      PROVE  Sender(i) \in {0, ps2[n].id}
  <2>1. ~(ps2[n].token > seq)
    BY <1>2, <1>3
  <2>2. PICK m \in 1 .. Len(ps) : ps[m].kind = "browse" /\ ps[m].token = ps2[n].token /\ ps[m].id = ps2[n].id
    BY <1>3, <2>1, Zenon DEF Descends
  <2>3. Sender(i) \in {0, ps[m].id}
    BY <1>3, <2>2, Zenon DEF Member
  <2> QED
    BY <2>2, <2>3
<1>4. i.what # "expire" => i.token <= seq2
  BY <1>2
<1> QED
  BY <1>1, <1>3, <1>4 DEF Member

\* Taking one thing out and putting a page's commands in keeps the flight in order.
LEMMA FlightKeeps ==
  ASSUME NEW fl, NEW ps, NEW seq \in Nat, NEW tt, FlightOK(fl, ps, seq, tt),
         NEW base, NEW i \in BagToSet(fl), base = fl \/ base = fl (-) One(i)
  PROVE  FlightOK(base, ps, seq, tt)
<1>1. CASE base = fl
  BY <1>1
<1>2. CASE base = fl (-) One(i)
  <2>1. IsABag(fl)
    BY DEF FlightOK
  <2>2. IsABag(base) /\ BagToSet(base) \subseteq BagToSet(fl)
        /\ \A e : Copies(e, base) = IF e = i THEN Copies(e, fl) - 1 ELSE Copies(e, fl)
    BY <1>2, <2>1, TakeBag
  <2>3. \A t : Copies(Expiry(t), fl) <= 1 /\ Copies(Expiry(t), fl) \in Nat
    BY <2>1, InBag DEF FlightOK
  <2>4. \A t : Copies(Expiry(t), base) <= 1
    BY <2>2, <2>3
  <2> QED
    BY <2>2, <2>4 DEF FlightOK
<1> QED
  BY <1>1, <1>2

\* What is put in the flight: anything in order that is no timer of a toast.
LEMMA FlightGrows ==
  ASSUME NEW fl, NEW ps, NEW seq \in Nat, NEW tt, FlightOK(fl, ps, seq, tt),
         NEW ps2, NEW seq2 \in Nat, seq <= seq2, Descends(ps, ps2, seq),
         \A n \in 1 .. Len(ps2) : ps2[n] \in PageRec,
         NEW C, IsABag(C), \A i \in BagToSet(C) : Member(i, ps2, seq2, tt) /\ i.what # "expire",
         NEW fl2, fl2 = fl (+) C
  PROVE  FlightOK(fl2, ps2, seq2, tt)
<1>1. IsABag(fl)
  BY DEF FlightOK
<1>2. IsABag(fl2) /\ BagToSet(fl2) = BagToSet(fl) \cup BagToSet(C)
      /\ \A e : Copies(e, fl2) = Copies(e, fl) + Copies(e, C)
  BY <1>1, AddBag
<1>3. \A i \in BagToSet(fl) : Member(i, ps2, seq2, tt)
  BY StaysMember DEF FlightOK
<1>4. \A t : Copies(Expiry(t), C) = 0
  BY InBag, Different
<1>5. \A t : Copies(Expiry(t), fl) <= 1 /\ Copies(Expiry(t), fl) \in Nat
  BY <1>1, InBag DEF FlightOK
<1>6. \A t : Copies(Expiry(t), fl2) <= 1
  BY <1>2, <1>4, <1>5
<1> QED
  BY <1>2, <1>3, <1>6 DEF FlightOK

\* The toast goes on like this: nothing but its own timer touches it.
LEMMA ToastKeeps ==
  ASSUME NEW t, NEW tt, NEW fl, IsABag(fl), ToastOK(t, tt, fl), NEW fl2, IsABag(fl2),
         \A n : Copies(Expiry(n), fl2) = Copies(Expiry(n), fl)
  PROVE  ToastOK(t, tt, fl2)
BY InBag DEF ToastOK

-----------------------------------------------------------------------------
(* The stack *)

\* Stacks are sequences of pages.
LEMMA StackFields ==
  ASSUME NEW ps, NEW seq, StackOK(ps, seq)
  PROVE  /\ Len(ps) \in Nat /\ DOMAIN ps = 1 .. Len(ps)
         /\ \A n \in 1 .. Len(ps) : ps[n] \in PageRec /\ ps[n].token \in 0 .. MaxTokens /\ ps[n].token <= seq
                                    /\ ps[n].id \in 1 .. MaxPages /\ ps[n].kind \in PageKinds
<1>1. ps \in Seq(PageRec)
  BY DEF StackOK
<1>2. Len(ps) \in Nat /\ DOMAIN ps = 1 .. Len(ps)
  BY <1>1, LenProperties
<1>3. \A n \in 1 .. Len(ps) : ps[n] \in PageRec /\ ps[n].token <= seq
  BY Zenon DEF StackOK, PageOK
<1> QED
  BY <1>2, <1>3, PageFields

\* A token handed out earlier is not the next one.
LEMMA Fresher == \A x, s \in Nat : x <= s => x # s + 1
OBVIOUS

\* A page comes on top: a new one, or one that a pop uncovers.  A browse page has just
\* taken a token, so nothing in flight can be meant for it but what it asks for itself.
LEMMA PageOnTop ==
  ASSUME NEW ps, NEW seq \in Nat, NEW fl, NEW t, NEW tt, PagesInv(ps, seq, fl, t, tt),
         NEW base \in Seq(PageRec), Len(base) <= Len(ps), \A n \in 1 .. Len(base) : base[n] = ps[n],
         Len(base) < MaxDepth,
         NEW q \in PageRec, q.token = IF q.kind = "browse" THEN seq + 1 ELSE 0,
         q.rows # Nothing => q.loaded, q.kind = "browse" => q.rows.by \in {0, q.id},
         NEW seq2, seq2 = (IF q.kind = "browse" THEN seq + 1 ELSE seq),
         NEW C, Cmds(C, q, IF q.kind = "browse" THEN 1 ELSE 0),
         q.kind \in Resumable => Fetch(q) \in BagToSet(C),
         NEW ps2, ps2 = Append(base, q), NEW fl2, fl2 = fl (+) C
  PROVE  PagesInv(ps2, seq2, fl2, t, tt)
<1>1. StackOK(ps, seq) /\ FlightOK(fl, ps, seq, tt) /\ Chains(ps, fl) /\ ToastOK(t, tt, fl)
  BY DEF PagesInv
<1>2. PICK m \in Nat : m = Len(base)
  BY LenProperties
<1>3. /\ ps2 \in Seq(PageRec) /\ Len(ps2) = m + 1 /\ ps2[m + 1] = q
      /\ \A n \in 1 .. m : ps2[n] = base[n]
  BY <1>2, AppendProperties
<1>4. /\ Len(ps) \in Nat /\ m <= Len(ps)
      /\ \A n \in 1 .. m : n \in 1 .. Len(ps) /\ ps2[n] = ps[n]
  BY <1>1, <1>2, <1>3, StackFields
<1>5. \A n \in 1 .. m : PageOK(ps2[n], seq) /\ ps2[n].token \in Nat /\ ps2[n].token <= seq /\ ps2[n] \in PageRec
  <2>1. \A n \in 1 .. m : PageOK(ps2[n], seq)
    BY <1>1, <1>4, Zenon DEF StackOK
  <2>2. \A n \in 1 .. Len(ps) : ps[n] \in PageRec /\ ps[n].token \in Nat /\ ps[n].token <= seq
    BY <1>1, StackFields
  <2> QED
    BY <1>4, <2>1, <2>2
<1>6. seq2 \in Nat /\ seq <= seq2 /\ q.token <= seq2 /\ q.token \in Nat
  OBVIOUS
<1>7. PageOK(q, seq2)
  <2>1. (q.token # 0) <=> (q.kind = "browse")
    OBVIOUS
  <2> QED
    BY <1>6, <2>1, Zenon DEF PageOK
<1>8. \A n \in 1 .. m : PageOK(ps2[n], seq2)
  <2> SUFFICES ASSUME NEW n \in 1 .. m PROVE PageOK(ps2[n], seq2)
    OBVIOUS
  <2>1. ps2[n].token <= seq2
    <3>1. \A x \in Nat : x <= seq => x <= seq2
      BY <1>6
    <3> QED
      BY <1>5, <3>1, Zenon
  <2> QED
    BY <1>5, <2>1, Zenon DEF PageOK
<1>9. \A n \in 1 .. m + 1 : n \in 1 .. m \/ n = m + 1
  OBVIOUS
<1>10. \A n \in 1 .. m : q.kind = "browse" => ps2[n].token # q.token
  BY <1>5
<1>11. StackOK(ps2, seq2)
  <2>1. \A n \in 1 .. m + 1 : PageOK(ps2[n], seq2)
    BY <1>3, <1>7, <1>8, <1>9, Zenon
  <2>2. \A n, o \in 1 .. m : ps2[o].kind = "browse" /\ ps2[n].token = ps2[o].token => n = o
    <3>1. \A n, o \in 1 .. Len(ps) : ps[o].kind = "browse" /\ ps[n].token = ps[o].token => n = o
      BY <1>1, Zenon DEF StackOK
    <3> SUFFICES ASSUME NEW n \in 1 .. m, NEW o \in 1 .. m, ps2[o].kind = "browse", ps2[n].token = ps2[o].token
                 PROVE  n = o
      OBVIOUS
    <3>2. n \in 1 .. Len(ps) /\ o \in 1 .. Len(ps) /\ ps[n] = ps2[n] /\ ps[o] = ps2[o]
      BY <1>4, Zenon
    <3> QED
      BY <3>1, <3>2, Zenon
  <2>3. \A n \in 1 .. m : ps2[n].kind = "browse" => ps2[n].token # q.token
    <3>1. \A n \in 1 .. m : ps2[n].kind = "browse" => ps2[n].token # 0
      BY <1>5, Zenon DEF PageOK
    <3> QED
      BY <1>10, <3>1
  <2>4. \A n, o \in 1 .. m + 1 : ps2[o].kind = "browse" /\ ps2[n].token = ps2[o].token => n = o
    <3> SUFFICES ASSUME NEW n \in 1 .. m + 1, NEW o \in 1 .. m + 1, ps2[o].kind = "browse", ps2[n].token = ps2[o].token
                 PROVE  n = o
      OBVIOUS
    <3>1. CASE n \in 1 .. m /\ o \in 1 .. m
      BY <2>2, <3>1, Zenon
    <3>2. CASE n \in 1 .. m /\ o = m + 1
      BY <1>3, <1>10, <3>2, Zenon
    <3>3. CASE n = m + 1 /\ o \in 1 .. m
      BY <1>3, <2>3, <3>3, Zenon
    <3> QED
      BY <1>9, <3>1, <3>2, <3>3, Zenon
  <2>5. m + 1 <= MaxDepth
    BY <1>2, ConstantsOK
  <2>6. /\ \A n \in 1 .. Len(ps2) : PageOK(ps2[n], seq2)
        /\ \A n, o \in 1 .. Len(ps2) : ps2[o].kind = "browse" /\ ps2[n].token = ps2[o].token => n = o
        /\ Len(ps2) <= MaxDepth
    BY <1>3, <2>1, <2>4, <2>5
  <2> QED
    BY <1>3, <2>6, Zenon DEF StackOK
<1>12. Descends(ps, ps2, seq)
  <2> SUFFICES ASSUME NEW n \in 1 .. m + 1, ps2[n].kind = "browse"
               PROVE  \/ ps2[n].token > seq
                      \/ \E o \in 1 .. Len(ps) : ps[o].kind = "browse" /\ ps[o].token = ps2[n].token /\ ps[o].id = ps2[n].id
    BY <1>3 DEF Descends
  <2>1. CASE n \in 1 .. m
    BY <1>4, <2>1, Zenon
  <2>2. CASE n = m + 1
    BY <1>3, <2>2
  <2> QED
    BY <1>9, <2>1, <2>2
<1>13. IsABag(C) /\ BagToSet(C) \subseteq {Fetch(q), Tick(q)} /\ Copies(Tick(q), C) = IF q.kind = "browse" THEN 1 ELSE 0
  BY DEF Cmds
<1>14. \A n \in 1 .. Len(ps2) : ps2[n] \in PageRec
  BY <1>3
<1>15. Member(Fetch(q), ps2, seq2, tt) /\ Member(Tick(q), ps2, seq2, tt)
  <2>1. m + 1 \in 1 .. Len(ps2)
    BY <1>3
  <2>2. Member(Fetch(ps2[m + 1]), ps2, seq2, tt) /\ Member(Tick(ps2[m + 1]), ps2, seq2, tt)
    BY <1>6, <1>11, <2>1, OwnMember
  <2> QED
    BY <1>3, <2>2
<1>16. \A i \in BagToSet(C) : Member(i, ps2, seq2, tt) /\ i.what # "expire"
  BY <1>13, <1>15, Different
<1>17. FlightOK(fl2, ps2, seq2, tt)
  BY <1>1, <1>6, <1>12, <1>13, <1>14, <1>16, FlightGrows
<1>18. IsABag(fl)
  BY <1>1 DEF FlightOK
<1>19. IsABag(fl2) /\ BagToSet(fl2) = BagToSet(fl) \cup BagToSet(C)
       /\ \A e : Copies(e, fl2) = Copies(e, fl) + Copies(e, C)
  BY <1>13, <1>18, AddBag
<1>20. Chains(ps2, fl2)
  <2>1. ASSUME NEW n \in 1 .. m, ps2[n].kind = "browse" PROVE Copies(Tick(ps2[n]), fl2) <= 1
    <3>1. Copies(Tick(ps[n]), fl) <= 1
      BY <1>1, <1>4, <2>1 DEF Chains
    <3>2. Tick(ps2[n]) \notin BagToSet(C)
      <4>1. ps2[n].token # q.token
        <5>1. ps2[n].token # 0
          BY <1>5, <2>1, Zenon DEF PageOK
        <5>2. PICK y \in Nat : y = q.token /\ (y = 0 \/ y = seq + 1)
          BY <1>6
        <5>3. PICK x \in Nat : x = ps2[n].token /\ x <= seq
          BY <1>5
        <5>4. x # 0
          BY <5>1, <5>3, Zenon
        <5>5. x # seq + 1
          BY <5>3, Fresher, Zenon
        <5>6. x # y
          BY <5>2, <5>4, <5>5, Zenon
        <5> QED
          BY <5>2, <5>3, <5>6, Zenon
      <4>2. Tick(ps2[n]) # Tick(q) /\ Tick(ps2[n]) # Fetch(q)
        <5>1. Tick(ps2[n]).token = ps2[n].token /\ Tick(q).token = q.token
          BY Different, Zenon
        <5>2. Tick(ps2[n]).what # Fetch(q).what
          BY Different
        <5> QED
          BY <4>1, <5>1, <5>2, Zenon
      <4> QED
        BY <1>13, <4>2
    <3>3. Copies(Tick(ps2[n]), C) = 0
      BY <3>2 DEF Copies
    <3>4. ps2[n] = ps[n] /\ Copies(Tick(ps[n]), fl) \in Nat
      BY <1>4, <1>18, InBag
    <3> QED
      BY <1>19, <3>1, <3>3, <3>4
  <2>2. ASSUME q.kind = "browse" PROVE Copies(Tick(q), fl2) = 1
    <3>1. \A i \in BagToSet(fl) : i.what = "tick" => i.token # seq + 1
      <4> SUFFICES ASSUME NEW i \in BagToSet(fl), i.what = "tick" PROVE i.token # seq + 1
        OBVIOUS
      <4>1. Member(i, ps, seq, tt)
        BY <1>1 DEF FlightOK
      <4>2. i.token <= seq /\ i \in Item \cup AnswerRec
        BY <4>1 DEF Member
      <4> QED
        BY <4>2, ItemFields
    <3>2. Tick(q) \notin BagToSet(fl)
      BY <2>2, <3>1, Different
    <3>3. Copies(Tick(q), fl) = 0
      BY <3>2 DEF Copies
    <3> QED
      BY <1>13, <1>19, <2>2, <3>3
  <2>3. \A n \in 1 .. m : n # m + 1
    OBVIOUS
  <2> QED
    BY <1>3, <1>9, <2>1, <2>2, <2>3 DEF Chains
<1>21. Awake(ps2, fl2)
  BY <1>3, <1>19, Different DEF Awake
<1>22. ToastOK(t, tt, fl2)
  <2>1. \A n : Copies(Expiry(n), C) = 0
    BY <1>13, <1>16, InBag, Different
  <2>2. \A n : Copies(Expiry(n), fl2) = Copies(Expiry(n), fl)
    BY <1>18, <1>19, <2>1, InBag
  <2> QED
    BY <1>1, <1>18, <1>19, <2>2, ToastKeeps
<1> QED
  BY <1>11, <1>17, <1>20, <1>21, <1>22 DEF PagesInv

-----------------------------------------------------------------------------
(* Messages over a stack that stays *)

\* A message or a timer is taken out.
LEMMA Takes ==
  ASSUME NEW fl, NEW ps, NEW seq \in Nat, NEW tt, FlightOK(fl, ps, seq, tt),
         NEW i \in BagToSet(fl), i.what # "expire", NEW fl2, fl2 = fl (-) One(i)
  PROVE  /\ FlightOK(fl2, ps, seq, tt) /\ \A n : Copies(Expiry(n), fl2) = Copies(Expiry(n), fl)
         /\ \A e : e # i => Copies(e, fl2) = Copies(e, fl)
         /\ \A e \in BagToSet(fl) : e # i => e \in BagToSet(fl2)
<1>1. IsABag(fl)
  BY DEF FlightOK
<1>2. /\ IsABag(fl2) /\ BagToSet(fl2) \subseteq BagToSet(fl)
      /\ \A e : Copies(e, fl2) = IF e = i THEN Copies(e, fl) - 1 ELSE Copies(e, fl)
  BY <1>1, TakeBag
<1>3. \A n : Expiry(n) # i
  BY Different
<1>4. FlightOK(fl2, ps, seq, tt)
  BY FlightKeeps
<1>5. \A e \in BagToSet(fl) : e # i => e \in BagToSet(fl2)
  BY <1>1, <1>2, InBag
<1> QED
  BY <1>2, <1>3, <1>4, <1>5

\* A bag of what pages may send.
Sent(C, ps, seq, tt) ==
  IsABag(C) /\ \A i \in BagToSet(C) : Member(i, ps, seq, tt) /\ i.what # "expire"

\* What a bag gains when such a bag is put in: its members, and no toast timer.
Grown(fl, C, fl2) ==
  /\ \A n : Copies(Expiry(n), fl2) = Copies(Expiry(n), fl)
  /\ \A e : Copies(e, fl2) = Copies(e, fl) + Copies(e, C)
  /\ \A e : e \notin BagToSet(C) => Copies(e, fl2) = Copies(e, fl)
  /\ BagToSet(fl2) = BagToSet(fl) \cup BagToSet(C)

\* Commands of pages are put in.
LEMMA Puts ==
  ASSUME NEW fl, NEW ps, NEW seq \in Nat, NEW tt, FlightOK(fl, ps, seq, tt),
         NEW C, Sent(C, ps, seq, tt), StackOK(ps, seq)
  PROVE  Grown(fl, C, fl (+) C) /\ FlightOK(fl (+) C, ps, seq, tt)
<1> PICK fl2 : fl2 = fl (+) C
  OBVIOUS
<1>1. IsABag(fl) /\ IsABag(C) /\ \A i \in BagToSet(C) : Member(i, ps, seq, tt) /\ i.what # "expire"
  BY DEF FlightOK, Sent
<1>2. /\ IsABag(fl2) /\ BagToSet(fl2) = BagToSet(fl) \cup BagToSet(C)
      /\ \A e : Copies(e, fl2) = Copies(e, fl) + Copies(e, C)
  BY <1>1, AddBag
<1>3. \A e : e \notin BagToSet(C) => Copies(e, fl2) = Copies(e, fl)
  <2>1. \A e : e \notin BagToSet(C) => Copies(e, C) = 0
    BY DEF Copies
  <2>2. \A e : Copies(e, fl) \in Nat
    BY <1>1, InBag
  <2> QED
    BY <1>2, <2>1, <2>2
<1>4. \A n : Expiry(n) \notin BagToSet(C)
  BY <1>1, Different
<1>5. Descends(ps, ps, seq) /\ seq <= seq
  BY DEF Descends
<1>6. FlightOK(fl2, ps, seq, tt)
  BY <1>1, <1>5, StackFields, FlightGrows
<1>7. Grown(fl, C, fl2)
  BY <1>2, <1>3, <1>4 DEF Grown
<1> QED
  BY <1>6, <1>7

\* The invariant after messages that leave kinds, tokens and numbers of pages alone.
LEMMA Settled ==
  ASSUME NEW ps, NEW seq \in Nat, NEW fl, NEW t, NEW tt, PagesInv(ps, seq, fl, t, tt),
         NEW ps2 \in Seq(PageRec), Len(ps2) = Len(ps),
         \A n \in 1 .. Len(ps) : PageOK(ps2[n], seq) /\ ps2[n].kind = ps[n].kind /\ ps2[n].token = ps[n].token
                                 /\ ps2[n].id = ps[n].id,
         NEW fl2, FlightOK(fl2, ps, seq, tt), \A n : Copies(Expiry(n), fl2) = Copies(Expiry(n), fl),
         Chains(ps2, fl2), Awake(ps2, fl2)
  PROVE  PagesInv(ps2, seq, fl2, t, tt)
<1>1. StackOK(ps, seq) /\ FlightOK(fl, ps, seq, tt) /\ ToastOK(t, tt, fl) /\ IsABag(fl) /\ IsABag(fl2)
  BY DEF PagesInv, FlightOK
<1>2. StackOK(ps2, seq)
  <2>1. \A m, n \in 1 .. Len(ps) : ps[n].kind = "browse" /\ ps[m].token = ps[n].token => m = n
    BY <1>1, Zenon DEF StackOK
  <2>2. Len(ps) <= MaxDepth
    BY <1>1, Zenon DEF StackOK
  <2>3. \A m, n \in 1 .. Len(ps2) : ps2[n].kind = "browse" /\ ps2[m].token = ps2[n].token => m = n
    BY <2>1
  <2>4. \A n \in 1 .. Len(ps2) : PageOK(ps2[n], seq)
    BY Zenon
  <2>5. Len(ps2) <= MaxDepth
    BY <2>2
  <2> QED
    BY <2>3, <2>4, <2>5, Zenon DEF StackOK
<1>3. Descends(ps, ps2, seq) /\ seq <= seq
  BY DEF Descends
<1>4. \A n \in 1 .. Len(ps2) : ps2[n] \in PageRec
  BY LenProperties
<1>5. FlightOK(fl2, ps2, seq, tt)
  <2>1. \A i \in BagToSet(fl2) : Member(i, ps2, seq, tt)
    BY <1>3, <1>4, StaysMember DEF FlightOK
  <2> QED
    BY <2>1 DEF FlightOK
<1>6. ToastOK(t, tt, fl2)
  BY <1>1, ToastKeeps
<1> QED
  BY <1>2, <1>5, <1>6 DEF PagesInv

\* The same, over the very same pages.
LEMMA SamePages ==
  ASSUME NEW ps, NEW seq \in Nat, NEW fl, NEW t, NEW tt, PagesInv(ps, seq, fl, t, tt),
         NEW fl2, FlightOK(fl2, ps, seq, tt), \A n : Copies(Expiry(n), fl2) = Copies(Expiry(n), fl),
         Chains(ps, fl2), Awake(ps, fl2)
  PROVE  PagesInv(ps, seq, fl2, t, tt)
<1>1. StackOK(ps, seq)
  BY DEF PagesInv
<1>2. ps \in Seq(PageRec) /\ \A n \in 1 .. Len(ps) : PageOK(ps[n], seq)
  BY <1>1, Zenon DEF StackOK
<1> QED
  BY <1>2, Settled

\* The chain of a browse page on top keeps it awake.
LEMMA ChainWakes ==
  ASSUME NEW ps, Len(ps) \in Nat, NEW fl, IsABag(fl), Chains(ps, fl),
         Len(ps) > 0 /\ ps[Len(ps)].kind # "browse" /\ ps[Len(ps)].kind \in Resumable =>
           \E i \in BagToSet(fl) : i.what # "expire" /\ i.kind = ps[Len(ps)].kind
  PROVE  Awake(ps, fl)
<1> SUFFICES ASSUME Len(ps) > 0, ps[Len(ps)].kind = "browse"
             PROVE  \E i \in BagToSet(fl) : i.what # "expire" /\ i.kind = ps[Len(ps)].kind
  BY DEF Awake
<1>1. Len(ps) \in 1 .. Len(ps)
  OBVIOUS
<1>2. Copies(Tick(ps[Len(ps)]), fl) = 1
  BY <1>1 DEF Chains
<1>3. Tick(ps[Len(ps)]) \in BagToSet(fl)
  BY <1>2, InBag
<1> QED
  BY <1>3, Different

\* Chains are about the timers of browse pages only.
LEMMA SameChains ==
  ASSUME NEW ps, NEW fl, Chains(ps, fl), NEW ps2, Len(ps2) = Len(ps),
         \A n \in 1 .. Len(ps) : ps2[n].kind = ps[n].kind /\ ps2[n].token = ps[n].token,
         NEW fl2, \A n \in 1 .. Len(ps) : ps[n].kind = "browse" => Copies(Tick(ps[n]), fl2) = Copies(Tick(ps[n]), fl)
  PROVE  Chains(ps2, fl2)
<1>1. \A n \in 1 .. Len(ps) : Tick(ps2[n]) = Tick(ps[n])
  BY DEF Tick
<1> QED
  BY <1>1 DEF Chains

\* A member of the flight, found by what it is.
LEMMA Found ==
  ASSUME PollInv, NEW w, NEW i \in Of(w)
  PROVE  /\ i \in BagToSet(flight) /\ i.what = w /\ i \in Item \cup AnswerRec
         /\ Member(i, pages, tokenSeq, toastToken) /\ FlightOK(flight, pages, tokenSeq, toastToken)
         /\ tokenSeq \in Nat /\ IsABag(flight)
BY DEF Of, PollInv, PagesInv, FlightOK, Member, ScalarsOK

\* What the invariant says of the page on top.
LEMMA TopFields ==
  ASSUME PollInv, Len(pages) > 0
  PROVE  /\ Len(pages) \in 1 .. Len(pages) /\ Top = pages[Len(pages)] /\ Top \in PageRec /\ PageOK(Top, tokenSeq)
         /\ Member(Fetch(Top), pages, tokenSeq, toastToken) /\ Member(Tick(Top), pages, tokenSeq, toastToken)
<1>1. StackOK(pages, tokenSeq) /\ tokenSeq \in Nat
  BY DEF PollInv, PagesInv, ScalarsOK
<1>2. Len(pages) \in Nat
  BY <1>1, StackFields
<1>3. Len(pages) \in 1 .. Len(pages)
  BY <1>2
<1>4. PageOK(pages[Len(pages)], tokenSeq)
  BY <1>1, <1>3, Zenon DEF StackOK
<1>5. pages[Len(pages)] \in PageRec
  BY <1>4, Zenon DEF PageOK
<1> QED
  BY <1>1, <1>3, <1>4, <1>5, OwnMember, Zenon DEF Top

\* A request ends: its answer goes to whom the request came from.
LEMMA CompleteKeeps ==
  ASSUME PollInv, NEW f, Complete(f)
  PROVE  PagesInv(pages', tokenSeq', flight', toast', toastToken')
<1>1. f \in Of("fetch")
  BY DEF Complete
<1>2. /\ f \in BagToSet(flight) /\ f.what = "fetch" /\ f \in Item \cup AnswerRec
      /\ Member(f, pages, tokenSeq, toastToken) /\ FlightOK(flight, pages, tokenSeq, toastToken)
      /\ tokenSeq \in Nat /\ IsABag(flight)
  BY <1>1, Found
<1>3. PICK ok \in BOOLEAN : flight' = (flight (-) One(f)) (+) One(Answer(f, ok))
  BY DEF Complete
<1>4. PICK a : a = Answer(f, ok)
  OBVIOUS
<1>5. a.what = "answer" /\ a.kind = f.kind /\ a.token = f.token /\ a.rows.by = f.by
  BY <1>4 DEF Answer
<1>6. a \in AnswerRec
  <2>1. cluster \in 0 .. MaxTrouble + 1 /\ MaxSessions \in Nat
    BY ConstantsOK DEF PollInv, ScalarsOK
  <2>2. [by |-> f.by, at |-> cluster, sess |-> f.sess] \in Rows
    BY <1>2, <2>1, ItemFields DEF Rows
  <2> QED
    BY <1>2, <1>4, <2>2, ItemFields DEF Answer, AnswerRec
<1>7. Member(a, pages, tokenSeq, toastToken)
  BY <1>2, <1>5, <1>6 DEF Member, Sender
<1>8. PICK b : b = flight (-) One(f)
  OBVIOUS
<1>9. /\ FlightOK(b, pages, tokenSeq, toastToken) /\ \A n : Copies(Expiry(n), b) = Copies(Expiry(n), flight)
      /\ \A e : e # f => Copies(e, b) = Copies(e, flight)
      /\ \A e \in BagToSet(flight) : e # f => e \in BagToSet(b)
  BY <1>2, <1>8, Takes
<1>10. PICK C : C = One(a)
  OBVIOUS
<1>11. IsABag(C) /\ BagToSet(C) = {a}
  BY <1>10, OneBag
<1>12. StackOK(pages, tokenSeq) /\ Sent(C, pages, tokenSeq, toastToken)
  BY <1>5, <1>7, <1>11 DEF PollInv, PagesInv, Sent
<1>13. flight' = b (+) C
  BY <1>3, <1>4, <1>8, <1>10
<1>14. /\ FlightOK(flight', pages, tokenSeq, toastToken) /\ \A n : Copies(Expiry(n), flight') = Copies(Expiry(n), b)
       /\ \A e : e \notin BagToSet(C) => Copies(e, flight') = Copies(e, b)
       /\ BagToSet(flight') = BagToSet(b) \cup BagToSet(C)
  <2>1. FlightOK(b, pages, tokenSeq, toastToken) /\ tokenSeq \in Nat
    BY <1>2, <1>9
  <2>2. Grown(b, C, flight') /\ FlightOK(flight', pages, tokenSeq, toastToken)
    BY <1>12, <1>13, <2>1, Puts
  <2> QED
    BY <2>2 DEF Grown
<1>15. \A n : Tick(pages[n]) # f /\ Tick(pages[n]) # a
  BY <1>2, <1>5, Different
<1>16. \A n : Copies(Tick(pages[n]), flight') = Copies(Tick(pages[n]), flight)
  BY <1>9, <1>11, <1>14, <1>15
<1>17. Chains(pages, flight')
  BY <1>16, SameChains DEF PollInv, PagesInv
<1>18. Awake(pages, flight')
  <2> SUFFICES ASSUME Len(pages) > 0, pages[Len(pages)].kind \in Resumable
               PROVE  \E i \in BagToSet(flight') : i.what # "expire" /\ i.kind = pages[Len(pages)].kind
    BY DEF Awake
  <2>1. PICK i \in BagToSet(flight) : i.what # "expire" /\ i.kind = pages[Len(pages)].kind
    BY DEF PollInv, PagesInv, Awake
  <2>2. CASE i = f
    BY <1>5, <1>11, <1>14, <2>1, <2>2
  <2>3. CASE i # f
    BY <1>9, <1>14, <2>1, <2>3
  <2> QED
    BY <2>2, <2>3
<1>19. \A n : Copies(Expiry(n), flight') = Copies(Expiry(n), flight)
  BY <1>9, <1>14
<1>20. PagesInv(pages, tokenSeq, flight', toast, toastToken)
  BY <1>2, <1>14, <1>17, <1>18, <1>19, SamePages DEF PollInv
<1> QED
  BY <1>20, Zenon DEF Complete, pollVars, toastVars

\* 'r': one more request, which is the page's own.
LEMMA RefreshKeeps ==
  ASSUME PollInv, Refresh
  PROVE  PagesInv(pages', tokenSeq', flight', toast', toastToken')
<1>1. Len(pages) > 0 /\ flight' = flight (+) One(Fetch(Top))
  BY DEF Refresh
<1>2. Member(Fetch(Top), pages, tokenSeq, toastToken)
  BY <1>1, TopFields
<1>3. PICK C : C = One(Fetch(Top))
  OBVIOUS
<1>4. IsABag(C) /\ BagToSet(C) = {Fetch(Top)}
  BY <1>3, OneBag
<1>5. /\ FlightOK(flight, pages, tokenSeq, toastToken) /\ tokenSeq \in Nat
      /\ StackOK(pages, tokenSeq) /\ Sent(C, pages, tokenSeq, toastToken)
  BY <1>2, <1>4, Different DEF PollInv, PagesInv, ScalarsOK, Sent
<1>6. flight' = flight (+) C
  BY <1>1, <1>3
<1>7. /\ FlightOK(flight', pages, tokenSeq, toastToken) /\ \A n : Copies(Expiry(n), flight') = Copies(Expiry(n), flight)
      /\ \A e : e \notin BagToSet(C) => Copies(e, flight') = Copies(e, flight)
      /\ BagToSet(flight') = BagToSet(flight) \cup BagToSet(C)
  <2>1. Grown(flight, C, flight') /\ FlightOK(flight', pages, tokenSeq, toastToken)
    BY <1>5, <1>6, Puts
  <2> QED
    BY <2>1 DEF Grown
<1>8. \A n : Copies(Tick(pages[n]), flight') = Copies(Tick(pages[n]), flight)
  BY <1>4, <1>7, Different
<1>9. Chains(pages, flight')
  BY <1>8, SameChains DEF PollInv, PagesInv
<1>10. Awake(pages, flight')
  BY <1>7 DEF PollInv, PagesInv, Awake
<1>11. PagesInv(pages, tokenSeq, flight', toast, toastToken)
  BY <1>5, <1>7, <1>9, <1>10, SamePages DEF PollInv
<1> QED
  BY <1>11, Zenon DEF Refresh, pollVars, toastVars

\* tenantTick: the page that takes it arms its timer.
LEMMA RearmKeeps ==
  ASSUME PollInv, DeliverRearm
  PROVE  PagesInv(pages', tokenSeq', flight', toast', toastToken')
<1>1. PICK r : r = Rearm /\ r \in BagToSet(flight)
  BY DEF DeliverRearm
<1>2. FlightOK(flight, pages, tokenSeq, toastToken) /\ tokenSeq \in Nat
  BY DEF PollInv, PagesInv, ScalarsOK
<1>3. \A n \in 1 .. Len(pages) : pages[n] \in PageRec
  BY StackFields DEF PollInv, PagesInv
<1>4. Len(pages) \in Nat /\ Chains(pages, flight) /\ Awake(pages, flight)
  BY StackFields DEF PollInv, PagesInv, ScalarsOK
<1>5. PICK b : b = flight (-) One(r)
  OBVIOUS
<1>6. r.what # "expire"
  BY <1>1, Different
<1>7. /\ FlightOK(b, pages, tokenSeq, toastToken) /\ \A n : Copies(Expiry(n), b) = Copies(Expiry(n), flight)
      /\ \A e : e # r => Copies(e, b) = Copies(e, flight)
      /\ \A e \in BagToSet(flight) : e # r => e \in BagToSet(b)
  BY <1>1, <1>2, <1>5, <1>6, Takes
<1>8. PICK C : C = IF Len(pages) > 0 /\ Top.kind = "tenants" THEN One(Tick(Top)) ELSE EmptyBag
  OBVIOUS
<1>9. flight' = b (+) C
  BY <1>1, <1>5, <1>8 DEF DeliverRearm
<1>10. IsABag(C) /\ BagToSet(C) = IF Len(pages) > 0 /\ Top.kind = "tenants" THEN {Tick(Top)} ELSE {}
  BY <1>8, OneBag, NoBag
<1>11. StackOK(pages, tokenSeq) /\ Sent(C, pages, tokenSeq, toastToken)
  <2>1. \A i \in BagToSet(C) : Member(i, pages, tokenSeq, toastToken) /\ i.what # "expire"
    BY <1>10, TopFields, Different
  <2> QED
    BY <1>10, <2>1 DEF PollInv, PagesInv, Sent
<1>12. /\ FlightOK(flight', pages, tokenSeq, toastToken) /\ \A n : Copies(Expiry(n), flight') = Copies(Expiry(n), b)
       /\ \A e : e \notin BagToSet(C) => Copies(e, flight') = Copies(e, b)
       /\ BagToSet(flight') = BagToSet(b) \cup BagToSet(C)
  <2>1. FlightOK(b, pages, tokenSeq, toastToken) /\ tokenSeq \in Nat
    BY <1>2, <1>7
  <2>2. Grown(b, C, flight') /\ FlightOK(flight', pages, tokenSeq, toastToken)
    BY <1>9, <1>11, <2>1, Puts
  <2> QED
    BY <2>2 DEF Grown
<1>13. ASSUME NEW n \in 1 .. Len(pages), pages[n].kind = "browse"
       PROVE  Copies(Tick(pages[n]), flight') = Copies(Tick(pages[n]), flight)
  <2>1. Tick(pages[n]) # r
    BY <1>1, Different
  <2>2. Tick(pages[n]) \notin BagToSet(C)
    <3>1. Tick(pages[n]).kind = "browse" /\ Tick(Top).kind = Top.kind
      BY <1>13, Different
    <3> QED
      BY <1>10, <3>1
  <2> QED
    BY <1>7, <1>12, <2>1, <2>2
<1>14. Chains(pages, flight')
  BY <1>4, <1>13, SameChains
<1>15. Awake(pages, flight')
  <2>1. ASSUME Len(pages) > 0, pages[Len(pages)].kind = "tenants"
        PROVE  \E i \in BagToSet(flight') : i.what # "expire" /\ i.kind = pages[Len(pages)].kind
    BY <1>10, <1>12, <2>1, Different DEF Top
  <2>2. ASSUME Len(pages) > 0, pages[Len(pages)].kind = "nodetop"
        PROVE  \E i \in BagToSet(flight') : i.what # "expire" /\ i.kind = pages[Len(pages)].kind
    <3>1. PICK i \in BagToSet(flight) : i.what # "expire" /\ i.kind = "nodetop"
      BY <1>4, <2>2 DEF Awake, Resumable
    <3>2. i # r
      BY <1>1, <3>1, Different
    <3> QED
      BY <1>7, <1>12, <2>2, <3>1, <3>2
  <2>3. IsABag(flight')
    BY <1>12 DEF FlightOK
  <2> QED
    BY <1>4, <1>14, <2>1, <2>2, <2>3, ChainWakes DEF Resumable
<1>16. \A n : Copies(Expiry(n), flight') = Copies(Expiry(n), flight)
  BY <1>7, <1>12
<1>17. PagesInv(pages, tokenSeq, flight', toast, toastToken)
  BY <1>2, <1>12, <1>14, <1>15, <1>16, SamePages DEF PollInv
<1> QED
  BY <1>17, Zenon DEF DeliverRearm, pollVars, toastVars

\* A timer fires: the page on top, if it is its page, asks again and, for browse,
\* arms the next timer of the same chain.
LEMMA FireKeeps ==
  ASSUME PollInv, NEW t, Fire(t)
  PROVE  PagesInv(pages', tokenSeq', flight', toast', toastToken')
<1>1. t \in Of("tick")
  BY DEF Fire
<1>2. /\ t \in BagToSet(flight) /\ t.what = "tick" /\ t \in Item \cup AnswerRec
      /\ FlightOK(flight, pages, tokenSeq, toastToken) /\ tokenSeq \in Nat /\ IsABag(flight)
  BY <1>1, Found
<1>3. /\ \A n \in 1 .. Len(pages) : pages[n] \in PageRec
      /\ Len(pages) \in Nat /\ Chains(pages, flight) /\ Awake(pages, flight)
  BY StackFields DEF PollInv, PagesInv, ScalarsOK
<1>4. PICK b : b = flight (-) One(t)
  OBVIOUS
<1>5. /\ FlightOK(b, pages, tokenSeq, toastToken) /\ \A n : Copies(Expiry(n), b) = Copies(Expiry(n), flight)
      /\ \A e : e # t => Copies(e, b) = Copies(e, flight)
      /\ \A e \in BagToSet(flight) : e # t => e \in BagToSet(b)
  BY <1>2, <1>4, Takes
<1>6. Copies(t, b) = Copies(t, flight) - 1
  BY <1>2, <1>4, TakeBag
<1>7. PICK own \in BOOLEAN : own <=> (Len(pages) > 0 /\ Top.kind = t.kind /\ OwnTick(Top, t))
  OBVIOUS
<1>8. PICK C : C = IF own THEN AfterTick(Top) ELSE EmptyBag
  OBVIOUS
<1>9. flight' = b (+) C
  BY <1>4, <1>7, <1>8 DEF Fire
<1>10. /\ own => Cmds(C, Top, IF Top.kind = "browse" THEN 1 ELSE 0) /\ Fetch(Top) \in BagToSet(C)
       /\ ~own => IsABag(C) /\ BagToSet(C) = {}
  BY <1>8, Commands, NoBag DEF AfterTick
<1>11. IsABag(C) /\ (own => BagToSet(C) \subseteq {Fetch(Top), Tick(Top)})
  BY <1>10 DEF Cmds
<1>12. \A i \in BagToSet(C) : Member(i, pages, tokenSeq, toastToken) /\ i.what # "expire"
  <2>1. CASE own
    BY <1>7, <1>11, <2>1, TopFields, Different
  <2>2. CASE ~own
    BY <1>10, <2>2
  <2> QED
    BY <2>1, <2>2
<1>13. StackOK(pages, tokenSeq) /\ Sent(C, pages, tokenSeq, toastToken)
  BY <1>11, <1>12 DEF PollInv, PagesInv, Sent
<1>14. /\ FlightOK(flight', pages, tokenSeq, toastToken) /\ \A n : Copies(Expiry(n), flight') = Copies(Expiry(n), b)
       /\ \A e : Copies(e, flight') = Copies(e, b) + Copies(e, C)
       /\ \A e : e \notin BagToSet(C) => Copies(e, flight') = Copies(e, b)
       /\ BagToSet(flight') = BagToSet(b) \cup BagToSet(C)
  <2>1. FlightOK(b, pages, tokenSeq, toastToken) /\ tokenSeq \in Nat
    BY <1>2, <1>5
  <2>2. Grown(b, C, flight') /\ FlightOK(flight', pages, tokenSeq, toastToken)
    BY <1>9, <1>13, <2>1, Puts
  <2> QED
    BY <2>2 DEF Grown
<1>15. t = [what |-> "tick", kind |-> t.kind, token |-> t.token]
  BY <1>2, ItemFields
<1>16. IsABag(flight') /\ IsABag(b)
  BY <1>5, <1>14 DEF FlightOK
<1>17. Chains(pages, flight')
  <2> SUFFICES ASSUME NEW n \in 1 .. Len(pages), pages[n].kind = "browse"
               PROVE  Copies(Tick(pages[n]), flight') <= 1
                      /\ (n = Len(pages) => Copies(Tick(pages[n]), flight') = 1)
    BY DEF Chains
  <2>1. PICK x : x = Tick(pages[n])
    OBVIOUS
  <2>2. /\ Copies(x, flight) <= 1 /\ (n = Len(pages) => Copies(x, flight) = 1)
        /\ Copies(x, flight) \in Nat /\ Copies(x, b) \in Nat /\ Copies(x, C) \in Nat
    BY <1>2, <1>3, <1>11, <1>16, <2>1, InBag DEF Chains
  <2>3. x.what = "tick" /\ x.kind = "browse" /\ x.token = pages[n].token
    BY <2>1, Different
  <2>4. CASE own /\ Top.kind = "browse"
    <3>1. t = Tick(Top)
      BY <1>7, <1>15, <2>4 DEF OwnTick, Tick
    <3>2. Copies(t, C) = 1
      BY <1>10, <2>4, <3>1 DEF Cmds
    <3>3. CASE x = t
      BY <1>6, <1>14, <2>1, <2>2, <3>2, <3>3
    <3>4. CASE x # t
      <4>1. x \notin BagToSet(C)
        BY <1>11, <2>3, <2>4, <3>1, <3>4, Different
      <4> QED
        BY <1>5, <1>14, <2>1, <2>2, <3>4, <4>1
    <3> QED
      BY <3>3, <3>4
  <2>5. CASE ~(own /\ Top.kind = "browse")
    <3>1. x \notin BagToSet(C)
      BY <1>10, <1>11, <2>3, <2>5, Different
    <3>2. Copies(x, flight') = Copies(x, b)
      BY <1>14, <3>1
    <3>3. CASE x # t
      BY <1>5, <2>1, <2>2, <3>2, <3>3
    <3>4. CASE x = t
      <4>1. Copies(x, b) = Copies(x, flight) - 1
        BY <1>6, <3>4
      <4>2. n # Len(pages)
        <5> SUFFICES ASSUME n = Len(pages) PROVE FALSE
          OBVIOUS
        <5>1. Top = pages[n] /\ Len(pages) > 0
          BY DEF Top
        <5>2. own
          BY <1>7, <2>3, <3>4, <5>1 DEF OwnTick
        <5> QED
          BY <2>5, <5>1, <5>2
      <4> QED
        BY <2>1, <2>2, <3>2, <4>1, <4>2
    <3> QED
      BY <3>3, <3>4
  <2> QED
    BY <2>4, <2>5
<1>18. Awake(pages, flight')
  <2>1. ASSUME Len(pages) > 0, pages[Len(pages)].kind # "browse", pages[Len(pages)].kind \in Resumable
        PROVE  \E i \in BagToSet(flight') : i.what # "expire" /\ i.kind = pages[Len(pages)].kind
    <3>1. Top = pages[Len(pages)]
      BY DEF Top
    <3>2. CASE t.kind = Top.kind
      <4>1. own
        BY <1>7, <2>1, <3>1, <3>2 DEF OwnTick
      <4> QED
        BY <1>10, <1>14, <3>1, <4>1, Different
    <3>3. CASE t.kind # Top.kind
      <4>1. PICK i \in BagToSet(flight) : i.what # "expire" /\ i.kind = Top.kind
        BY <1>3, <2>1, <3>1 DEF Awake
      <4> QED
        BY <1>5, <1>14, <3>1, <3>3, <4>1
    <3> QED
      BY <3>2, <3>3
  <2> QED
    BY <1>3, <1>16, <1>17, <2>1, ChainWakes
<1>19. \A n : Copies(Expiry(n), flight') = Copies(Expiry(n), flight)
  BY <1>5, <1>14
<1>20. PagesInv(pages, tokenSeq, flight', toast, toastToken)
  BY <1>2, <1>14, <1>17, <1>18, <1>19, SamePages DEF PollInv
<1> QED
  BY <1>20, Zenon DEF Fire, pollVars, toastVars

\* What Update leaves of a page: rows of an answer, or the old ones, or none.
LEMMA ShownOK ==
  ASSUME NEW p, NEW seq, PageOK(p, seq), NEW a \in AnswerRec,
         p.kind = "browse" => a.rows.by \in {0, p.id}
  PROVE  /\ PageOK(Shown(p, a), seq) /\ Shown(p, a) \in PageRec
         /\ Shown(p, a).kind = p.kind /\ Shown(p, a).token = p.token /\ Shown(p, a).id = p.id
<1>1. p \in PageRec /\ p.token <= seq /\ ((p.token # 0) <=> (p.kind = "browse"))
      /\ (p.kind = "browse" => p.rows.by \in {0, p.id})
  BY Zenon DEF PageOK
<1>2. a.ok \in BOOLEAN /\ a.rows \in Rows /\ p.rows \in Rows /\ Nothing \in Rows
  BY <1>1, ConstantsOK DEF AnswerRec, PageRec, Rows, Nothing
<1>3. PICK r : r = IF p.kind \in {"browse", "list"} THEN Kept(p, a) ELSE Replaced(a)
  OBVIOUS
<1>4. r \in Rows
  BY <1>2, <1>3 DEF Kept, Replaced
<1>5. p.kind = "browse" => r.by \in {0, p.id}
  BY <1>1, <1>3 DEF Kept
<1>6. PICK y \in BOOLEAN : y = TRUE
  OBVIOUS
<1>7. PICK x \in BOOLEAN : x = ~a.ok
  BY <1>2
<1>8. PICK q : q = [p EXCEPT !.loaded = y, !.failed = x, !.rows = r]
  OBVIOUS
<1>9. q \in PageRec /\ q.kind = p.kind /\ q.token = p.token /\ q.id = p.id /\ q.rows = r /\ q.loaded = y
  BY <1>1, <1>4, <1>6, <1>7, <1>8 DEF PageRec
<1>10. Shown(p, a) = q
  BY <1>3, <1>6, <1>7, <1>8, Zenon DEF Shown
<1>11. q.loaded
  BY <1>6, <1>9, Zenon
<1>12. q.token <= seq /\ ((q.token # 0) <=> (q.kind = "browse")) /\ (q.kind = "browse" => q.rows.by \in {0, q.id})
  BY <1>1, <1>5, <1>9
<1>13. PageOK(q, seq)
  BY <1>9, <1>11, <1>12, Zenon DEF PageOK
<1> QED
  BY <1>9, <1>10, <1>13, Zenon

\* An answer arrives: the page on top takes it only if it carries its token, and goes on.
LEMMA DeliverKeeps ==
  ASSUME PollInv, NEW a, Deliver(a)
  PROVE  PagesInv(pages', tokenSeq', flight', toast', toastToken')
<1>1. a \in Of("answer")
  BY DEF Deliver
<1>2. /\ a \in BagToSet(flight) /\ a.what = "answer" /\ a \in Item \cup AnswerRec
      /\ Member(a, pages, tokenSeq, toastToken) /\ IsABag(flight)
  BY <1>1, Found
<1>3. FlightOK(flight, pages, tokenSeq, toastToken) /\ tokenSeq \in Nat
  BY DEF PollInv, PagesInv, ScalarsOK
<1>4. Len(pages) \in Nat /\ \A n \in 1 .. Len(pages) : pages[n] \in PageRec
  BY StackFields DEF PollInv, PagesInv
<1>5. a \in AnswerRec
  BY <1>2 DEF Item
<1>6. PICK b : b = flight (-) One(a)
  OBVIOUS
<1>7. /\ FlightOK(b, pages, tokenSeq, toastToken) /\ \A n : Copies(Expiry(n), b) = Copies(Expiry(n), flight)
      /\ \A e : e # a => Copies(e, b) = Copies(e, flight)
      /\ \A e \in BagToSet(flight) : e # a => e \in BagToSet(b)
  BY <1>2, <1>3, <1>6, Takes
<1>8. PICK R : R = IF a.kind = "tenants" THEN One(Rearm) ELSE EmptyBag
  OBVIOUS
<1>9. IsABag(R) /\ BagToSet(R) \subseteq {Rearm} /\ (a.kind = "tenants" => Rearm \in BagToSet(R))
  BY <1>8, OneBag, NoBag
<1>10. StackOK(pages, tokenSeq) /\ Sent(R, pages, tokenSeq, toastToken)
  <2>1. Rearm \in Item
    BY ConstantsOK DEF Rearm, Item, PageKinds
  <2>2. Member(Rearm, pages, tokenSeq, toastToken)
    BY <1>3, <2>1, Different DEF Member
  <2>3. \A i \in BagToSet(R) : Member(i, pages, tokenSeq, toastToken) /\ i.what # "expire"
    BY <1>9, <2>2, Different
  <2> QED
    BY <1>9, <2>3 DEF PollInv, PagesInv, Sent
<1>11. PICK c : c = b (+) R
  OBVIOUS
<1>12. /\ FlightOK(c, pages, tokenSeq, toastToken) /\ \A n : Copies(Expiry(n), c) = Copies(Expiry(n), b)
       /\ \A e : e \notin BagToSet(R) => Copies(e, c) = Copies(e, b)
       /\ BagToSet(c) = BagToSet(b) \cup BagToSet(R)
  <2>1. FlightOK(b, pages, tokenSeq, toastToken) /\ tokenSeq \in Nat
    BY <1>3, <1>7
  <2>2. Grown(b, R, c) /\ FlightOK(c, pages, tokenSeq, toastToken)
    BY <1>10, <1>11, <2>1, Puts
  <2> QED
    BY <2>2 DEF Grown
<1>13. \A n : pages[n].kind = "browse" => Copies(Tick(pages[n]), c) = Copies(Tick(pages[n]), flight)
  <2>1. \A n : Tick(pages[n]) # a /\ Tick(pages[n]) # Rearm
    BY <1>2, Different
  <2> QED
    BY <1>7, <1>9, <1>12, <2>1
<1>14. \A n : Copies(Expiry(n), c) = Copies(Expiry(n), flight)
  BY <1>7, <1>12
<1>15. Chains(pages, flight) /\ Awake(pages, flight)
  BY DEF PollInv, PagesInv
<1>16. a.kind = "tenants" => Rearm \in BagToSet(c)
  BY <1>9, <1>12
<1>17. \A i \in BagToSet(flight) : i # a => i \in BagToSet(c)
  BY <1>7, <1>12
<1>18. CASE ~(Len(pages) > 0 /\ Top.kind = a.kind /\ OwnAnswer(Top, a))
  <2>1. pages' = pages /\ flight' = c
    BY <1>6, <1>8, <1>11, <1>18 DEF Deliver
  <2>2. Chains(pages, c)
    BY <1>13, <1>15, SameChains
  <2>3. ASSUME Len(pages) > 0, pages[Len(pages)].kind # "browse", pages[Len(pages)].kind \in Resumable
        PROVE  \E i \in BagToSet(c) : i.what # "expire" /\ i.kind = pages[Len(pages)].kind
    <3>1. PICK i \in BagToSet(flight) : i.what # "expire" /\ i.kind = pages[Len(pages)].kind
      BY <1>15, <2>3 DEF Awake
    <3>2. a.kind # pages[Len(pages)].kind
      BY <1>18, <2>3 DEF OwnAnswer, Top
    <3> QED
      BY <1>17, <3>1, <3>2
  <2>4. Awake(pages, c)
    <3>1. IsABag(c)
      BY <1>12 DEF FlightOK
    <3> QED
      BY <1>4, <2>2, <2>3, <3>1, ChainWakes
  <2>5. PagesInv(pages, tokenSeq, c, toast, toastToken)
    BY <1>3, <1>12, <1>14, <2>2, <2>4, SamePages DEF PollInv
  <2> QED
    BY <2>1, <2>5, Zenon DEF Deliver, pollVars, toastVars
<1>19. CASE Len(pages) > 0 /\ Top.kind = a.kind /\ OwnAnswer(Top, a)
  <2>1. PICK k \in 1 .. Len(pages) : k = Len(pages) /\ Top = pages[k] /\ PageOK(Top, tokenSeq)
                                     /\ Member(Tick(Top), pages, tokenSeq, toastToken)
    BY <1>19, TopFields
  <2>2. PICK ps : ps = [pages EXCEPT ![k] = Shown(Top, a)]
    OBVIOUS
  <2>3. PICK A : A = AfterAnswer(Top, a)
    OBVIOUS
  <2>4. pages' = ps /\ flight' = c (+) A
    BY <1>6, <1>8, <1>11, <1>19, <2>1, <2>2, <2>3 DEF Deliver
  <2>5. Top.kind = "browse" => a.rows.by \in {0, Top.id}
    BY <1>2, <1>19, <2>1 DEF Member, Sender, OwnAnswer
  <2>6. /\ PageOK(Shown(Top, a), tokenSeq) /\ Shown(Top, a) \in PageRec
        /\ Shown(Top, a).kind = Top.kind /\ Shown(Top, a).token = Top.token /\ Shown(Top, a).id = Top.id
    BY <1>5, <2>1, <2>5, ShownOK
  <2>7. pages \in Seq(PageRec) /\ \A n \in 1 .. Len(pages) : PageOK(pages[n], tokenSeq)
    BY Zenon DEF PollInv, PagesInv, StackOK
  <2>8. ps \in Seq(PageRec) /\ Len(ps) = Len(pages)
        /\ \A n \in 1 .. Len(pages) : ps[n] = IF n = k THEN Shown(Top, a) ELSE pages[n]
    BY <2>2, <2>6, <2>7, ExceptSeq
  <2>9. \A n \in 1 .. Len(pages) : PageOK(ps[n], tokenSeq) /\ ps[n].kind = pages[n].kind /\ ps[n].token = pages[n].token
                                   /\ ps[n].id = pages[n].id
    BY <2>1, <2>6, <2>7, <2>8, Zenon
  <2>10. /\ IsABag(A) /\ BagToSet(A) \subseteq {Tick(Top)} /\ (Top.kind = "nodetop" => Tick(Top) \in BagToSet(A))
         /\ (Top.kind # "nodetop" => BagToSet(A) = {})
    BY <2>3, OneBag, NoBag DEF AfterAnswer
  <2>11. Sent(A, pages, tokenSeq, toastToken)
    <3>1. \A i \in BagToSet(A) : Member(i, pages, tokenSeq, toastToken) /\ i.what # "expire"
      BY <2>1, <2>10, Different
    <3> QED
      BY <2>10, <3>1 DEF Sent
  <2>12. /\ FlightOK(flight', pages, tokenSeq, toastToken) /\ \A n : Copies(Expiry(n), flight') = Copies(Expiry(n), c)
         /\ \A e : e \notin BagToSet(A) => Copies(e, flight') = Copies(e, c)
         /\ BagToSet(flight') = BagToSet(c) \cup BagToSet(A)
    <3>1. FlightOK(c, pages, tokenSeq, toastToken) /\ StackOK(pages, tokenSeq) /\ tokenSeq \in Nat
      BY <1>3, <1>10, <1>12
    <3>2. flight' = c (+) A
      BY <2>4
    <3>3. Grown(c, A, flight') /\ FlightOK(flight', pages, tokenSeq, toastToken)
      BY <2>11, <3>1, <3>2, Puts
    <3> QED
      BY <3>3 DEF Grown
  <2>13. \A n \in 1 .. Len(pages) : pages[n].kind = "browse" =>
           Copies(Tick(pages[n]), flight') = Copies(Tick(pages[n]), flight)
    <3> SUFFICES ASSUME NEW n \in 1 .. Len(pages), pages[n].kind = "browse"
                 PROVE  Copies(Tick(pages[n]), flight') = Copies(Tick(pages[n]), flight)
      OBVIOUS
    <3>1. Tick(pages[n]) \notin BagToSet(A)
      <4>1. Tick(pages[n]).kind = "browse" /\ Tick(Top).kind = Top.kind
        BY Different
      <4> QED
        BY <2>10, <4>1
    <3> QED
      BY <1>13, <2>12, <3>1
  <2>14. Chains(ps, flight')
    BY <1>15, <2>8, <2>9, <2>13, SameChains
  <2>15. ASSUME Len(ps) > 0, ps[Len(ps)].kind # "browse", ps[Len(ps)].kind \in Resumable
         PROVE  \E i \in BagToSet(flight') : i.what # "expire" /\ i.kind = ps[Len(ps)].kind
    <3>1. ps[Len(ps)].kind = Top.kind
      BY <2>1, <2>8, <2>9
    <3>2. CASE Top.kind = "nodetop"
      BY <2>10, <2>12, <3>1, <3>2, Different
    <3>3. CASE Top.kind = "tenants"
      BY <1>16, <1>19, <2>12, <3>1, <3>3, Different
    <3> QED
      BY <2>15, <3>1, <3>2, <3>3 DEF Resumable
  <2>16. Awake(ps, flight')
    <3>1. IsABag(flight') /\ Len(ps) \in Nat
      BY <1>4, <2>8, <2>12 DEF FlightOK
    <3> QED
      BY <2>14, <2>15, <3>1, ChainWakes
  <2>17. \A n : Copies(Expiry(n), flight') = Copies(Expiry(n), flight)
    BY <1>14, <2>12
  <2>18. PagesInv(pages, tokenSeq, flight, toast, toastToken)
    BY DEF PollInv
  <2>19. PagesInv(ps, tokenSeq, flight', toast, toastToken)
    BY <1>3, <2>8, <2>9, <2>12, <2>14, <2>16, <2>17, <2>18, Settled
  <2> QED
    BY <2>4, <2>19, Zenon DEF Deliver, pollVars, toastVars
<1> QED
  BY <1>18, <1>19

-----------------------------------------------------------------------------
(* Keys *)

\* navigate and pushPage: a page that was never there before comes on top.
LEMMA BuildKeeps ==
  ASSUME PollInv, NEW k \in PageKinds, NEW below, Build(k, below),
         below = <<>> \/ (below = pages /\ Len(pages) < MaxDepth)
  PROVE  /\ PagesInv(pages', tokenSeq', flight', toast, toastToken)
         /\ built' \in 0 .. MaxPages /\ tokenSeq' \in 0 .. MaxTokens
<1>1. /\ built \in Nat /\ tokenSeq \in Nat /\ built < MaxPages /\ tokenSeq <= MaxTokens /\ sess \in 1 .. MaxSessions
      /\ MaxPages \in Nat /\ MaxTokens \in Nat
  BY ConstantsOK DEF PollInv, ScalarsOK, Build
<1>2. k = "browse" => tokenSeq < MaxTokens
  BY DEF Build
<1>3. PICK no \in BOOLEAN : no = FALSE
  OBVIOUS
<1>4. PICK w : w = IF k = "browse" THEN tokenSeq + 1 ELSE 0
  OBVIOUS
<1>5. PICK q : q = [id |-> built + 1, kind |-> k, sess |-> sess, loaded |-> no, failed |-> no, rows |-> Nothing, token |-> w]
  OBVIOUS
<1>6. q = NewPage(k)
  BY <1>3, <1>4, <1>5, Zenon DEF NewPage
<1>7. Nothing \in Rows /\ Nothing.by = 0
  BY ConstantsOK DEF Rows, Nothing
<1>8. w \in 0 .. MaxTokens
  BY <1>1, <1>2, <1>4
<1>9. q \in PageRec /\ q.kind = k /\ q.token = w /\ q.rows = Nothing
  BY <1>1, <1>5, <1>7, <1>8 DEF PageRec
<1>10. PICK C : C = EnterCmds(q)
  OBVIOUS
<1>11. Cmds(C, q, IF q.kind = "browse" THEN 1 ELSE 0) /\ (q.kind \in Resumable => Fetch(q) \in BagToSet(C))
  BY <1>9, <1>10, EnterAsks DEF Resumable
<1>12. /\ pages' = Append(below, q) /\ built' = built + 1 /\ flight' = flight (+) C
       /\ tokenSeq' = q.token + (IF k = "browse" THEN 0 ELSE tokenSeq)
  BY <1>6, <1>10 DEF Build
<1>13. PICK s2 : s2 = IF q.kind = "browse" THEN tokenSeq + 1 ELSE tokenSeq
  OBVIOUS
<1>14. tokenSeq' = s2
  BY <1>1, <1>4, <1>9, <1>12, <1>13
<1>15. /\ below \in Seq(PageRec) /\ Len(below) <= Len(pages) /\ Len(below) < MaxDepth
       /\ \A n \in 1 .. Len(below) : below[n] = pages[n]
  <2>1. pages \in Seq(PageRec) /\ Len(pages) \in Nat
    <3>1. StackOK(pages, tokenSeq)
      BY DEF PollInv, PagesInv
    <3>2. pages \in Seq(PageRec)
      BY <3>1, Zenon DEF StackOK
    <3> QED
      BY <3>2, LenProperties
  <2>2. CASE below = <<>>
    <3>1. below \in Seq(PageRec) /\ Len(below) = 0
      BY <2>2, EmptySeq
    <3> QED
      BY <2>1, <3>1, ConstantsOK
  <2>3. CASE below = pages /\ Len(pages) < MaxDepth
    BY <2>1, <2>3
  <2> QED
    BY <2>2, <2>3
<1>16. q.token = IF q.kind = "browse" THEN tokenSeq + 1 ELSE 0
  BY <1>4, <1>9
<1>17. q.kind = "browse" => q.rows.by \in {0, q.id}
  BY <1>7, <1>9
<1>18. q.rows # Nothing => q.loaded
  BY <1>9, Zenon
<1>19. PagesInv(pages, tokenSeq, flight, toast, toastToken)
  BY DEF PollInv
<1>20. PagesInv(pages', s2, flight', toast, toastToken)
  BY <1>1, <1>9, <1>11, <1>12, <1>13, <1>15, <1>16, <1>17, <1>18, <1>19, PageOnTop
<1>21. s2 \in 0 .. MaxTokens
  BY <1>1, <1>2, <1>9, <1>13
<1>22. built' \in 0 .. MaxPages
  BY <1>1, <1>12
<1> QED
  BY <1>14, <1>20, <1>21, <1>22

\* popPage: the page below resumes, a browse page with a new token, so that what is
\* still on its way for the old one is dropped.
LEMMA PopKeeps ==
  ASSUME PollInv, Pop
  PROVE  PagesInv(pages', tokenSeq', flight', toast', toastToken') /\ tokenSeq' \in 0 .. MaxTokens
<1>1. /\ pages \in Seq(PageRec) /\ tokenSeq \in Nat /\ MaxTokens \in Nat /\ tokenSeq <= MaxTokens
      /\ Len(pages) <= MaxDepth /\ \A n \in 1 .. Len(pages) : PageOK(pages[n], tokenSeq)
  <2>1. StackOK(pages, tokenSeq)
    BY DEF PollInv, PagesInv
  <2>2. tokenSeq \in Nat /\ MaxTokens \in Nat /\ tokenSeq <= MaxTokens
    BY ConstantsOK DEF PollInv, ScalarsOK
  <2> QED
    BY <2>1, <2>2, Zenon DEF StackOK
<1>2. PICK m \in Nat : Len(pages) = m + 2
  <2>1. Len(pages) \in Nat /\ Len(pages) > 1
    BY <1>1, LenProperties DEF Pop
  <2>2. Len(pages) - 2 \in Nat /\ Len(pages) = (Len(pages) - 2) + 2
    BY <2>1
  <2> QED
    BY <2>2
<1>3. PICK p : p = pages[m + 1]
  OBVIOUS
<1>4. PICK r : r = OnResume(p)
  OBVIOUS
<1>5. PICK base : base = SubSeq(pages, 1, m)
  OBVIOUS
<1>6. Len(pages) - 1 = m + 1 /\ Len(pages) - 2 = m
  BY <1>2
<1>7. /\ r.seq <= MaxTokens /\ pages' = Append(base, r.page) /\ flight' = flight (+) r.cmds /\ tokenSeq' = r.seq
  BY <1>3, <1>4, <1>5, <1>6 DEF Pop
<1>8. base \in Seq(PageRec) /\ Len(base) = m /\ \A n \in 1 .. m : base[n] = pages[n]
  <2>1. \A n \in 1 .. m : pages[n] \in PageRec
    BY <1>1, <1>2, LenProperties
  <2>2. 1 \in Int /\ m \in Int
    OBVIOUS
  <2>3. /\ base \in Seq(PageRec) /\ Len(base) = IF 1 <= m THEN m - 1 + 1 ELSE 0
        /\ \A i \in 1 .. m - 1 + 1 : base[i] = pages[1 + i - 1]
    BY <1>5, <2>1, <2>2, SubSeqProperties
  <2>4. m - 1 + 1 = m /\ \A i \in 1 .. m : 1 + i - 1 = i
    OBVIOUS
  <2> QED
    BY <2>3, <2>4
<1>9. p \in PageRec /\ PageOK(p, tokenSeq)
  <2>1. m + 1 \in 1 .. Len(pages)
    BY <1>2
  <2>2. PageOK(p, tokenSeq)
    BY <1>1, <1>3, <2>1, Zenon
  <2> QED
    BY <2>2, Zenon DEF PageOK
<1>10. /\ p.kind \in PageKinds /\ p.token \in Nat /\ (p.token # 0 <=> p.kind = "browse")
       /\ (p.rows # Nothing => p.loaded) /\ (p.kind = "browse" => p.rows.by \in {0, p.id})
  <2>1. p.kind \in PageKinds /\ p.token \in Nat
    BY <1>9, PageFields
  <2> QED
    BY <1>9, <2>1, Zenon DEF PageOK
<1>11. PICK q : q = IF p.kind = "browse" THEN [p EXCEPT !.token = tokenSeq + 1] ELSE p
  OBVIOUS
<1>12. PICK C : C = r.cmds
  OBVIOUS
<1>13. PICK s2 : s2 = IF p.kind = "browse" THEN tokenSeq + 1 ELSE tokenSeq
  OBVIOUS
<1>14. r.page = q /\ r.seq = s2 /\ Cmds(C, q, IF p.kind = "browse" THEN 1 ELSE 0)
       /\ (p.kind \in Resumable => Fetch(q) \in BagToSet(C))
  <2>1. CASE p.kind = "browse"
    <3>1. r = [page |-> q, cmds |-> One(Fetch(q)) (+) One(Tick(q)), seq |-> tokenSeq + 1]
      BY <1>4, <1>11, <2>1 DEF OnResume
    <3> QED
      BY <1>12, <1>13, <2>1, <3>1, Commands
  <2>2. CASE p.kind \in {"nodetop", "tenants"}
    <3>1. r = [page |-> q, cmds |-> One(Fetch(q)), seq |-> tokenSeq]
      BY <1>4, <1>11, <2>2 DEF OnResume
    <3> QED
      BY <1>12, <1>13, <2>2, <3>1, Commands
  <2>3. CASE p.kind \in {"list", "api", "text"}
    <3>1. r = [page |-> q, cmds |-> EmptyBag, seq |-> tokenSeq]
      BY <1>4, <1>11, <2>3 DEF OnResume, NoResume
    <3> QED
      BY <1>12, <1>13, <2>3, <3>1, Commands DEF Resumable
  <2> QED
    BY <1>10, <2>1, <2>2, <2>3 DEF PageKinds
<1>15. s2 \in 0 .. MaxTokens
  BY <1>1, <1>7, <1>13, <1>14
<1>16. q \in PageRec /\ q.kind = p.kind /\ q.rows = p.rows /\ q.id = p.id /\ q.loaded = p.loaded
       /\ q.token = IF p.kind = "browse" THEN tokenSeq + 1 ELSE 0
  <2>1. CASE p.kind = "browse"
    <3>1. tokenSeq + 1 \in 0 .. MaxTokens
      BY <1>13, <1>15, <2>1
    <3> QED
      BY <1>9, <1>11, <2>1, <3>1 DEF PageRec
  <2>2. CASE p.kind # "browse"
    BY <1>9, <1>10, <1>11, <2>2
  <2> QED
    BY <2>1, <2>2
<1>17. q.rows # Nothing => q.loaded
  BY <1>10, <1>16, Zenon
<1>18. q.kind = "browse" => q.rows.by \in {0, q.id}
  BY <1>10, <1>16, Zenon
<1>19. PagesInv(pages, tokenSeq, flight, toast, toastToken)
  BY DEF PollInv
<1>20. Cmds(C, q, IF q.kind = "browse" THEN 1 ELSE 0) /\ (q.kind \in Resumable => Fetch(q) \in BagToSet(C))
  BY <1>14, <1>16
<1>21. Len(base) <= Len(pages) /\ Len(base) < MaxDepth /\ \A n \in 1 .. Len(base) : base[n] = pages[n]
  <2>1. MaxDepth \in Nat
    BY ConstantsOK
  <2> QED
    BY <1>1, <1>2, <1>8, <2>1
<1>22. pages' = Append(base, q) /\ flight' = flight (+) C
  BY <1>7, <1>12, <1>14
<1>23. s2 = (IF q.kind = "browse" THEN tokenSeq + 1 ELSE tokenSeq) /\ q.token = IF q.kind = "browse" THEN tokenSeq + 1 ELSE 0
  BY <1>13, <1>16
<1>24. PagesInv(pages', s2, flight', toast, toastToken)
  BY <1>1, <1>8, <1>16, <1>17, <1>18, <1>19, <1>20, <1>21, <1>22, <1>23, PageOnTop
<1>25. tokenSeq' = s2
  BY <1>7, <1>14
<1> QED
  BY <1>15, <1>24, <1>25, Zenon DEF Pop, pollVars, toastVars

\* switchContext drops the pages and leaves everything else in flight.
LEMMA SwitchKeeps ==
  ASSUME PollInv, pages' = <<>>, flight' = flight, tokenSeq' = tokenSeq
  PROVE  PagesInv(pages', tokenSeq', flight', toast, toastToken)
<1>1. PICK ps : ps = <<>>
  OBVIOUS
<1>2. ps \in Seq(PageRec) /\ Len(ps) = 0
  BY <1>1, EmptySeq
<1>3. FlightOK(flight, pages, tokenSeq, toastToken) /\ ToastOK(toast, toastToken, flight) /\ tokenSeq \in Nat
  BY DEF PollInv, PagesInv, ScalarsOK
<1>4. MaxDepth \in Nat /\ 1 .. 0 = {} /\ 0 <= MaxDepth
  BY ConstantsOK
<1>5. StackOK(ps, tokenSeq)
  BY <1>2, <1>4 DEF StackOK
<1>6. Descends(pages, ps, tokenSeq) /\ tokenSeq <= tokenSeq /\ \A n \in 1 .. Len(ps) : ps[n] \in PageRec
  BY <1>2, <1>3, <1>4 DEF Descends
<1>7. \A i \in BagToSet(flight) : Member(i, ps, tokenSeq, toastToken)
  BY <1>3, <1>6, StaysMember DEF FlightOK
<1>8. FlightOK(flight, ps, tokenSeq, toastToken)
  BY <1>3, <1>7 DEF FlightOK
<1>9. Chains(ps, flight) /\ Awake(ps, flight)
  BY <1>2, <1>4 DEF Chains, Awake
<1>10. PagesInv(ps, tokenSeq, flight, toast, toastToken)
  BY <1>3, <1>5, <1>8, <1>9 DEF PagesInv
<1> QED
  BY <1>1, <1>10, Zenon

\* Timers of toasts are not what keeps a page going.
LEMMA ToastsApart ==
  ASSUME NEW ps, NEW fl, NEW fl2, Chains(ps, fl), Awake(ps, fl),
         \A e : e.what # "expire" => Copies(e, fl2) = Copies(e, fl) /\ (e \in BagToSet(fl) => e \in BagToSet(fl2))
  PROVE  Chains(ps, fl2) /\ Awake(ps, fl2)
<1>1. \A n : Copies(Tick(ps[n]), fl2) = Copies(Tick(ps[n]), fl)
  BY Different
<1>2. Chains(ps, fl2)
  BY <1>1 DEF Chains
<1>3. Awake(ps, fl2)
  BY DEF Awake
<1> QED
  BY <1>2, <1>3

\* A toast's timer hides the toast only if no other has replaced it.
LEMMA ExpireKeeps ==
  ASSUME PollInv, NEW t, ToastExpire(t)
  PROVE  PagesInv(pages', tokenSeq', flight', toast', toastToken')
<1>1. t \in Of("expire")
  BY DEF ToastExpire
<1>2. t \in BagToSet(flight) /\ t.what = "expire" /\ t \in Item \cup AnswerRec /\ IsABag(flight)
  BY <1>1, Found
<1>3. t = Expiry(t.token)
  BY <1>2, ItemFields
<1>4. FlightOK(flight, pages, tokenSeq, toastToken) /\ tokenSeq \in Nat /\ StackOK(pages, tokenSeq)
  BY DEF PollInv, PagesInv, ScalarsOK
<1>5. ToastOK(toast, toastToken, flight) /\ Chains(pages, flight) /\ Awake(pages, flight)
  BY DEF PollInv, PagesInv
<1>6. PICK b : b = flight (-) One(t)
  OBVIOUS
<1>7. FlightOK(b, pages, tokenSeq, toastToken)
  BY <1>2, <1>4, <1>6, FlightKeeps
<1>8. IsABag(b) /\ \A e : Copies(e, b) = IF e = t THEN Copies(e, flight) - 1 ELSE Copies(e, flight)
  BY <1>2, <1>6, TakeBag
<1>9. \A e : e # t => Copies(e, b) = Copies(e, flight) /\ (e \in BagToSet(flight) <=> e \in BagToSet(b))
  BY <1>2, <1>8, InBag
<1>10. Chains(pages, b) /\ Awake(pages, b)
  BY <1>2, <1>5, <1>9, ToastsApart
<1>11. PICK x : x = Expires(t)
  OBVIOUS
<1>12. ToastOK(x, toastToken, b)
  <2>1. CASE t.token = toastToken
    <3>1. Copies(t, flight) <= 1 /\ Copies(t, flight) \in Nat
      BY <1>2, <1>3, <1>4, InBag DEF FlightOK
    <3>2. t \notin BagToSet(b)
      BY <1>8, <3>1, InBag
    <3>3. x = 0 /\ Expiry(toastToken) = t
      BY <1>3, <1>11, <2>1 DEF Expires
    <3> QED
      BY <1>5, <3>2, <3>3 DEF ToastOK
  <2>2. CASE t.token # toastToken
    <3>1. x = toast
      BY <1>11, <2>2 DEF Expires
    <3>2. Expiry(toastToken) # t
      BY <2>2, Different
    <3>3. Expiry(toastToken) \in BagToSet(flight) <=> Expiry(toastToken) \in BagToSet(b)
      BY <1>9, <3>2
    <3> QED
      BY <1>5, <3>1, <3>3 DEF ToastOK
  <2> QED
    BY <2>1, <2>2
<1>13. PagesInv(pages, tokenSeq, b, x, toastToken)
  BY <1>4, <1>7, <1>10, <1>12 DEF PagesInv
<1> QED
  BY <1>6, <1>11, <1>13, Zenon DEF ToastExpire, pollVars

\* showToast: the new toast has the only timer that can hide it.
LEMMA ShowKeeps ==
  ASSUME PollInv, ShowToast
  PROVE  PagesInv(pages', tokenSeq', flight', toast', toastToken')
<1>1. FlightOK(flight, pages, tokenSeq, toastToken) /\ tokenSeq \in Nat /\ StackOK(pages, tokenSeq) /\ IsABag(flight)
  BY DEF PollInv, PagesInv, ScalarsOK, FlightOK
<1>2. ToastOK(toast, toastToken, flight) /\ Chains(pages, flight) /\ Awake(pages, flight)
  BY DEF PollInv, PagesInv
<1>3. PICK n : n = toastToken + 1
  OBVIOUS
<1>4. toastToken \in Nat /\ n \in 1 .. MaxToasts /\ n > toastToken /\ MaxToasts \in Nat
  BY <1>2, <1>3, ConstantsOK DEF ToastOK, ShowToast
<1>5. PICK e : e = Expiry(n)
  OBVIOUS
<1>6. PICK C : C = One(e)
  OBVIOUS
<1>7. PICK b : b = flight (+) C
  OBVIOUS
<1>8. IsABag(C) /\ BagToSet(C) = {e} /\ \A x : Copies(x, C) = IF x = e THEN 1 ELSE 0
  BY <1>6, OneBag
<1>9. IsABag(b) /\ BagToSet(b) = BagToSet(flight) \cup {e} /\ \A x : Copies(x, b) = Copies(x, flight) + Copies(x, C)
  BY <1>1, <1>7, <1>8, AddBag
<1>10. \A x : Copies(x, flight) \in Nat
  BY <1>1, InBag
<1>11. e.what = "expire" /\ e.token = n
  BY <1>5, Different
<1>12. e \notin BagToSet(flight)
  <2> SUFFICES ASSUME e \in BagToSet(flight) PROVE FALSE
    OBVIOUS
  <2>1. Member(e, pages, tokenSeq, toastToken)
    BY <1>1 DEF FlightOK
  <2>2. n <= toastToken
    BY <1>11, <2>1 DEF Member
  <2> QED
    BY <1>4, <2>2
<1>13. \A i \in BagToSet(flight) : Member(i, pages, tokenSeq, n)
  <2> SUFFICES ASSUME NEW i \in BagToSet(flight) PROVE Member(i, pages, tokenSeq, n)
    OBVIOUS
  <2>1. Member(i, pages, tokenSeq, toastToken)
    BY <1>1 DEF FlightOK
  <2>2. i.what = "expire" => i.token \in Nat /\ i.token <= toastToken
    BY <2>1, ItemFields DEF Member
  <2>3. i.what = "expire" => i.token <= n
    BY <1>4, <2>2
  <2> QED
    BY <2>1, <2>3 DEF Member
<1>14. Member(e, pages, tokenSeq, n)
  <2>1. e \in Item
    BY <1>4, <1>5 DEF Expiry, Item
  <2>2. n <= n
    BY <1>4
  <2> QED
    BY <1>11, <2>1, <2>2 DEF Member
<1>15. \A t : Copies(Expiry(t), b) <= 1
  <2> SUFFICES ASSUME NEW t PROVE Copies(Expiry(t), b) <= 1
    OBVIOUS
  <2>1. CASE Expiry(t) = e
    <3>1. Copies(e, flight) = 0
      BY <1>12 DEF Copies
    <3> QED
      BY <1>8, <1>9, <2>1, <3>1
  <2>2. CASE Expiry(t) # e
    <3>1. Copies(Expiry(t), flight) <= 1
      BY <1>1 DEF FlightOK
    <3> QED
      BY <1>8, <1>9, <1>10, <2>2, <3>1
  <2> QED
    BY <2>1, <2>2
<1>16. FlightOK(b, pages, tokenSeq, n)
  BY <1>9, <1>13, <1>14, <1>15 DEF FlightOK
<1>17. Chains(pages, b) /\ Awake(pages, b)
  <2>1. \A x : x.what # "expire" => Copies(x, b) = Copies(x, flight) /\ (x \in BagToSet(flight) => x \in BagToSet(b))
    BY <1>8, <1>9, <1>10, <1>11
  <2> QED
    BY <1>2, <2>1, ToastsApart
<1>18. ToastOK(n, n, b)
  BY <1>4, <1>5, <1>9 DEF ToastOK
<1>19. PagesInv(pages, tokenSeq, b, n, n)
  BY <1>1, <1>16, <1>17, <1>18 DEF PagesInv
<1> QED
  BY <1>3, <1>5, <1>6, <1>7, <1>19, Zenon DEF ShowToast, pollVars

-----------------------------------------------------------------------------
(* The poller, and all steps *)

\* The poller goes on to a control state it has.
LEMMA PollerKeeps ==
  ASSUME ScalarsOK, NEW s \in 1 .. MaxSessions, PollerStep(s)
  PROVE  poller' \in [1 .. MaxSessions -> PollerStates] /\ metricsOK' \in {"off"} \cup Namespaces
<1>1. poller \in [1 .. MaxSessions -> PollerStates] /\ metricsOK \in {"off"} \cup Namespaces /\ pollNs \in Namespaces
  BY DEF ScalarsOK
<1>2. \A c \in {"none", "probe", "collect", "slow", "fast", "done", "nil"} : <<c>> \in PollerStates
  BY DEF PollerStates
<1>3. \A u \in {"off"} \cup Namespaces : Emit(u, "slow") \in PollerStates /\ Emit(u, "fast") \in PollerStates
  BY DEF PollerStates, Emits, Emit
<1>4. ASSUME NEW c \in PollerStates, Goes(s, c) PROVE poller' \in [1 .. MaxSessions -> PollerStates]
  BY <1>1, <1>4 DEF Goes
<1>5. CASE PollerProbe(s)
  BY <1>1, <1>2, <1>3, <1>4, <1>5 DEF PollerProbe
<1>6. CASE PollerCollect(s)
  BY <1>1, <1>3, <1>4, <1>6 DEF PollerCollect
<1>7. CASE PollerEmit(s)
  <2>1. PICK c : c = poller[s]
    OBVIOUS
  <2>2. c \in PollerStates /\ c[1] = "emit"
    BY <1>1, <1>7, <2>1 DEF PollerEmit, PollerAt
  <2>3. c \in Emits
    BY <2>2 DEF PollerStates
  <2>4. c[2] \in {"off"} \cup Namespaces /\ c[3] \in {"slow", "fast", "nil"}
    BY <2>3 DEF Emits
  <2>5. <<c[3]>> \in PollerStates
    BY <1>2, <2>4
  <2> QED
    BY <1>4, <1>7, <2>1, <2>4, <2>5 DEF PollerEmit
<1>8. CASE PollerSleep(s)
  BY <1>1, <1>2, <1>4, <1>8 DEF PollerSleep, AfterSleep
<1> QED
  BY <1>5, <1>6, <1>7, <1>8 DEF PollerStep

\* Every step keeps the invariant.
LEMMA PollStep == PollInv /\ [Next]_vars => PollInv'
<1> SUFFICES ASSUME PollInv, [Next]_vars PROVE PollInv'
  OBVIOUS
<1>1. ScalarsOK /\ PagesInv(pages, tokenSeq, flight, toast, toastToken)
  BY DEF PollInv
<1>2. MaxTrouble \in Nat /\ MaxSessions \in Nat
  BY ConstantsOK
<1>3. ASSUME NEW k \in PageKinds, Navigate(k) PROVE PollInv'
  <2>1. Build(k, <<>>)
    BY <1>3 DEF Navigate
  <2>2. /\ PagesInv(pages', tokenSeq', flight', toast, toastToken)
        /\ built' \in 0 .. MaxPages /\ tokenSeq' \in 0 .. MaxTokens
    BY <2>1, BuildKeeps
  <2> QED
    BY <1>1, <1>3, <2>2 DEF Navigate, PollInv, ScalarsOK, pollVars, toastVars
<1>4. ASSUME NEW k \in PageKinds, Push(k) PROVE PollInv'
  <2>1. Build(k, pages) /\ Len(pages) < MaxDepth
    <3>1. Len(pages) \in 1 .. MaxDepth - 1 /\ MaxDepth \in Nat
      BY <1>4, ConstantsOK DEF Push
    <3>2. Len(pages) < MaxDepth
      BY <3>1
    <3> QED
      BY <1>4, <3>2 DEF Push
  <2>2. /\ PagesInv(pages', tokenSeq', flight', toast, toastToken)
        /\ built' \in 0 .. MaxPages /\ tokenSeq' \in 0 .. MaxTokens
    BY <2>1, BuildKeeps
  <2> QED
    BY <1>1, <1>4, <2>2 DEF Push, PollInv, ScalarsOK, pollVars, toastVars
<1>5. CASE Pop
  <2>1. PagesInv(pages', tokenSeq', flight', toast', toastToken') /\ tokenSeq' \in 0 .. MaxTokens
    BY <1>5, PopKeeps
  <2> QED
    BY <1>1, <1>5, <2>1 DEF Pop, PollInv, ScalarsOK, pollVars, toastVars
<1>6. CASE Refresh
  <2>1. PagesInv(pages', tokenSeq', flight', toast', toastToken')
    BY <1>6, RefreshKeeps
  <2> QED
    BY <1>1, <1>6, <2>1 DEF Refresh, PollInv, ScalarsOK, pollVars, toastVars
<1>7. CASE SwitchContext
  <2>1. PagesInv(pages', tokenSeq', flight', toast, toastToken)
    BY <1>7, SwitchKeeps DEF SwitchContext
  <2>2. sess' \in 1 .. MaxSessions
    BY <1>1, <1>2, <1>7 DEF SwitchContext, ScalarsOK
  <2>3. alive' \in BOOLEAN
    BY <1>7, Zenon DEF SwitchContext
  <2> QED
    BY <1>1, <1>7, <2>1, <2>2, <2>3 DEF SwitchContext, PollInv, ScalarsOK, pollVars, toastVars
<1>8. CASE SessionReady
  <2>1. alive' \in BOOLEAN /\ pollNs' \in Namespaces
    BY <1>8, Zenon DEF SessionReady, Namespaces
  <2>2. CASE scene = {}
    <3>1. PICK c \in RunFirst : poller' = [poller EXCEPT ![sess] = c]
      BY <1>8, <2>2 DEF SessionReady
    <3>2. c \in PollerStates
      BY <3>1 DEF RunFirst, PollerStates, Emits
    <3>3. poller' \in [1 .. MaxSessions -> PollerStates]
      BY <1>1, <3>1, <3>2 DEF ScalarsOK
    <3> QED
      BY <1>1, <1>8, <2>1, <2>2, <3>3 DEF SessionReady, PollInv, ScalarsOK, pageVars, toastVars
  <2>3. CASE scene # {}
    <3>1. PICK k \in scene \ {"browse", "text"} : Build(k, <<>>)
      BY <1>8, <2>3 DEF SessionReady
    <3>2. k \in PageKinds
      BY <1>1, <3>1, ConstantsOK DEF ScalarsOK
    <3>3. /\ PagesInv(pages', tokenSeq', flight', toast, toastToken)
          /\ built' \in 0 .. MaxPages /\ tokenSeq' \in 0 .. MaxTokens
      BY <3>1, <3>2, BuildKeeps
    <3> QED
      BY <1>1, <1>8, <2>1, <2>3, <3>3 DEF SessionReady, PollInv, ScalarsOK, toastVars
  <2> QED
    BY <2>2, <2>3
<1>9. CASE ClusterChanges
  <2>1. trouble' \in 0 .. MaxTrouble /\ cluster' \in 0 .. trouble' + 1
    BY <1>1, <1>2, <1>9 DEF ClusterChanges, ScalarsOK
  <2> QED
    BY <1>1, <1>9, <2>1 DEF ClusterChanges, PollInv, ScalarsOK, pollVars, toastVars
<1>10. CASE DeliverRearm
  <2>1. PagesInv(pages', tokenSeq', flight', toast', toastToken')
    BY <1>10, RearmKeeps
  <2> QED
    BY <1>1, <1>10, <2>1 DEF DeliverRearm, PollInv, ScalarsOK, pollVars, toastVars
<1>11. ASSUME NEW f, Complete(f) PROVE PollInv'
  <2>1. PagesInv(pages', tokenSeq', flight', toast', toastToken')
    BY <1>11, CompleteKeeps
  <2>2. trouble' = trouble \/ (trouble < MaxTrouble /\ trouble' = trouble + 1)
    BY <1>11 DEF Complete
  <2>3. trouble' \in 0 .. MaxTrouble /\ cluster \in 0 .. trouble' + 1
    BY <1>1, <1>2, <2>2 DEF ScalarsOK
  <2> QED
    BY <1>1, <1>11, <2>1, <2>3 DEF Complete, PollInv, ScalarsOK, pollVars, toastVars
<1>12. ASSUME NEW f, Deliver(f) PROVE PollInv'
  <2>1. PagesInv(pages', tokenSeq', flight', toast', toastToken')
    BY <1>12, DeliverKeeps
  <2> QED
    BY <1>1, <1>12, <2>1 DEF Deliver, PollInv, ScalarsOK, pollVars, toastVars
<1>13. ASSUME NEW f, Fire(f) PROVE PollInv'
  <2>1. PagesInv(pages', tokenSeq', flight', toast', toastToken')
    BY <1>13, FireKeeps
  <2> QED
    BY <1>1, <1>13, <2>1 DEF Fire, PollInv, ScalarsOK, pollVars, toastVars
<1>14. ASSUME NEW f, ToastExpire(f) PROVE PollInv'
  <2>1. PagesInv(pages', tokenSeq', flight', toast', toastToken')
    BY <1>14, ExpireKeeps
  <2> QED
    BY <1>1, <1>14, <2>1 DEF ToastExpire, PollInv, ScalarsOK, pollVars
<1>15. ASSUME NEW s \in 1 .. MaxSessions, PollerStep(s) PROVE PollInv'
  <2>1. poller' \in [1 .. MaxSessions -> PollerStates] /\ metricsOK' \in {"off"} \cup Namespaces
    BY <1>1, <1>15, PollerKeeps
  <2>2. UNCHANGED <<scene, sess, alive, pageVars, served, pollNs, toastVars>>
    BY <1>15 DEF PollerStep, PollerProbe, PollerCollect, PollerEmit, PollerSleep
  <2> QED
    BY <1>1, <2>1, <2>2 DEF PollInv, ScalarsOK, pageVars, toastVars
<1>16. ASSUME NEW n \in Namespaces, SetNamespace(n) PROVE PollInv'
  BY <1>1, <1>16 DEF SetNamespace, PollInv, ScalarsOK, pageVars, toastVars
<1>17. CASE ServedChanges
  <2>1. trouble' \in 0 .. MaxTrouble /\ cluster \in 0 .. trouble' + 1
    BY <1>1, <1>2, <1>17 DEF ServedChanges, ScalarsOK
  <2>2. served' \in BOOLEAN
    BY <1>17, Zenon DEF ServedChanges
  <2> QED
    BY <1>1, <1>17, <2>1, <2>2 DEF ServedChanges, PollInv, ScalarsOK, toastVars
<1>18. CASE ShowToast
  <2>1. PagesInv(pages', tokenSeq', flight', toast', toastToken')
    BY <1>18, ShowKeeps
  <2> QED
    BY <1>1, <1>18, <2>1 DEF ShowToast, PollInv, ScalarsOK, pollVars
<1>19. CASE UNCHANGED vars
  BY <1>1, <1>19 DEF vars, PollInv, ScalarsOK, pageVars, pollVars, toastVars
<1> QED
  BY <1>3, <1>4, <1>5, <1>6, <1>7, <1>8, <1>9, <1>10, <1>11, <1>12, <1>13, <1>14, <1>15, <1>16, <1>17, <1>18, <1>19
     DEF Next, Arrives

\* It holds initially: nothing is open and nothing is in flight.
LEMMA PollInit == Init => PollInv
<1> SUFFICES ASSUME Init PROVE PollInv
  OBVIOUS
<1>1. /\ scene \in Scenes /\ pages = <<>> /\ built = 0 /\ tokenSeq = 0 /\ flight = EmptyBag
      /\ cluster = 1 /\ trouble = 0 /\ sess = 1 /\ poller = [s \in 1 .. MaxSessions |-> <<"none">>]
      /\ metricsOK = "off" /\ pollNs = "all" /\ toast = 0 /\ toastToken = 0
  BY DEF Init
<1>2. alive \in BOOLEAN /\ served \in BOOLEAN
  BY Zenon DEF Init
<1>3. {MaxPages, MaxTokens, MaxTrouble, MaxToasts} \subseteq Nat /\ {MaxDepth, MaxSessions} \subseteq Nat \ {0}
  BY ConstantsOK
<1>4. <<"none">> \in PollerStates
  BY DEF PollerStates
<1>5. poller \in [1 .. MaxSessions -> PollerStates]
  BY <1>1, <1>4
<1>6. ScalarsOK
  BY <1>1, <1>2, <1>3, <1>5 DEF ScalarsOK, Namespaces
<1>7. pages \in Seq(PageRec) /\ Len(pages) = 0 /\ 1 .. 0 = {}
  BY <1>1, EmptySeq
<1>8. IsABag(flight) /\ BagToSet(flight) = {} /\ \A e : Copies(e, flight) = 0
  BY <1>1, NoBag
<1>9. StackOK(pages, tokenSeq)
  BY <1>3, <1>7 DEF StackOK
<1>10. FlightOK(flight, pages, tokenSeq, toastToken)
  BY <1>8 DEF FlightOK
<1>11. Chains(pages, flight) /\ Awake(pages, flight)
  BY <1>7 DEF Chains, Awake
<1>12. ToastOK(toast, toastToken, flight)
  BY <1>1, <1>3, <1>8 DEF ToastOK
<1> QED
  BY <1>6, <1>9, <1>10, <1>11, <1>12 DEF PollInv, PagesInv

-----------------------------------------------------------------------------
(* Theorems *)

\* A browse page on top has exactly one chain of its token and a buried one at most one,
\* and no page on top that refreshes itself is left with nothing in flight: for any
\* number of pages, refreshes, late answers and failed requests (OnResume, Update).
THEOREM ChainsStayAlive == Spec => []ChainsAlive
<1>1. PollInv => ChainsAlive
  <2> SUFFICES ASSUME PollInv PROVE ChainsAlive
    OBVIOUS
  <2>1. /\ ScalarsOK /\ StackOK(pages, tokenSeq) /\ FlightOK(flight, pages, tokenSeq, toastToken)
        /\ Chains(pages, flight) /\ Awake(pages, flight) /\ ToastOK(toast, toastToken, flight)
    BY DEF PollInv, PagesInv
  <2>2. OneChain
    BY <2>1, Zenon DEF Chains, OneChain
  <2>3. NeverFrozen
    BY <2>1, Zenon DEF Awake, NeverFrozen, Top
  <2>4. pages \in Seq(PageRec) /\ Len(pages) <= MaxDepth
    BY <2>1, Zenon DEF StackOK
  <2>5. \A n \in 1 .. Len(pages) : /\ pages[n].rows # Nothing => pages[n].loaded
                                   /\ (pages[n].token # 0) <=> (pages[n].kind = "browse")
    BY <2>1, Zenon DEF StackOK, PageOK
  <2>6. IsABag(flight) /\ BagToSet(flight) \subseteq (Item \cup AnswerRec)
    BY <2>1 DEF FlightOK, Member
  <2>7. toast \in 0 .. MaxToasts /\ toastToken \in 0 .. MaxToasts
    BY <2>1, ConstantsOK DEF ToastOK
  <2>8. TypeOK
    BY <2>1, <2>4, <2>5, <2>6, <2>7, Zenon DEF TypeOK, ScalarsOK
  <2> QED
    BY <2>2, <2>3, <2>8 DEF ChainsAlive
<1> QED
  BY PollInit, PollStep, <1>1, PTL DEF Spec

\* A browse page never shows the table another page or another visit asked for, and the
\* toast on screen goes with its own timer, not with that of a toast it replaced: for
\* any number of requests and timers in flight (crdTokenSeq, toastToken).
THEOREM AnswersAreOwn == Spec => []OwnAnswers
<1>1. PollInv => OwnAnswers
  <2> SUFFICES ASSUME PollInv PROVE OwnAnswers
    OBVIOUS
  <2>1. StackOK(pages, tokenSeq) /\ ToastOK(toast, toastToken, flight)
    BY DEF PollInv, PagesInv
  <2>2. OwnTable
    BY <2>1, Zenon DEF OwnTable, StackOK, PageOK
  <2>3. ToastOwnTimer
    BY <2>1 DEF ToastOwnTimer, ToastOK
  <2> QED
    BY <2>2, <2>3 DEF OwnAnswers
<1> QED
  BY PollInit, PollStep, <1>1, PTL DEF Spec
=============================================================================
