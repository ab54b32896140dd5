-------------------------- MODULE TenantPagesProofs --------------------------
(***************************************************************************)
(* Proofs about the tenant pages of the portal, for any names, any number  *)
(* of requests in flight, acts of users and failures.                      *)
(*                                                                         *)
(* What the list shows is computed by running queued updaters one after    *)
(* the other, so the first part is about that: induction over the updaters *)
(* in terms of the least member of a set of positions.                     *)
(***************************************************************************)
EXTENDS TenantPages, WellFoundedInduction, TLAPS

-----------------------------------------------------------------------------
(* Positions of a sequence *)

\* A set of naturals has a least member.
LEMMA LeastNatural ==
  ASSUME NEW S, S \subseteq Nat, S # {}
  PROVE  \E x \in S : \A y \in S : x <= y
<1> DEFINE R == {p \in Nat \X Nat : p[1] < p[2]}
<1>1. IsWellFoundedOn(R, Nat)
  BY NatLessThanWellFounded DEF OpToRel
<1>2. PICK x \in S : \A y \in S : ~(<<y, x>> \in R)
  BY <1>1, WFMin
<1>3. \A y \in S : ~(y < x)
  BY <1>2
<1>. QED BY <1>3

\* A set that has 0 and goes on from each position has all positions.
LEMMA AllPositions ==
  ASSUME NEW len \in Nat, NEW S, 0 \in S,
         \A i \in 0..len : i \in S /\ i < len => i + 1 \in S
  PROVE  \A i \in 0..len : i \in S
<1> DEFINE Missing == {i \in 0..len : i \notin S}
<1>1. SUFFICES ASSUME Missing # {} PROVE FALSE
  OBVIOUS
<1>2. PICK i \in Missing : \A j \in Missing : i <= j
  <2>1. Missing \subseteq Nat
    OBVIOUS
  <2>. HIDE DEF Missing
  <2>. QED BY <1>1, <2>1, LeastNatural
<1>3. i \in 1..len /\ i - 1 \in 0..len /\ i - 1 \notin Missing
  BY <1>2
<1>4. (i - 1) + 1 \in S
  BY <1>3
<1>. QED BY <1>2, <1>3, <1>4

-----------------------------------------------------------------------------
(* Running updaters *)

\* An updater gives rows.
LEMMA ApplyType ==
  ASSUME NEW s \in SUBSET Row, NEW u \in Update, NEW creating
  PROVE  Apply(s, u, creating) \in SUBSET Row
<1>1. CASE u.do = "refresh"
  BY <1>1 DEF Apply, Refreshed, Update
<1>2. CASE u.do # "refresh"
  <2>1. u.name \in Names /\ u.do \in {"add", "created", "rollback"}
    BY <1>2 DEF Update
  <2>2. OptimisticRow(u.name) \in Row /\ CreatedRow(u.name) \in Row
    BY <2>1 DEF OptimisticRow, CreatedRow, Row, Phases
  <2>. QED BY <2>1, <2>2 DEF Apply
<1>. QED BY <1>1, <1>2

\* f is what the list shows before, between and after the updaters us.
Shows(f, base, us, creating) ==
  /\ f \in [0..Len(us) -> SUBSET Row]
  /\ f[0] = base
  /\ \A i \in 1..Len(us) : f[i] = Apply(f[i - 1], us[i], creating)

\* There is such a function.
LEMMA ShowsExists ==
  ASSUME NEW base \in SUBSET Row, NEW us \in Seq(Update), NEW creating
  PROVE  \E f : Shows(f, base, us, creating)
<1> DEFINE Upto(g, n) == /\ g \in [0..n -> SUBSET Row] /\ g[0] = base
                         /\ \A i \in 1..n : g[i] = Apply(g[i - 1], us[i], creating)
           S == {n \in 0..Len(us) : \E g : Upto(g, n)}
<1>0. Len(us) \in Nat /\ \A i \in 1..Len(us) : us[i] \in Update
  OBVIOUS
<1>1. 0 \in S
  <2>1. Upto([i \in 0..0 |-> base], 0)
    OBVIOUS
  <2>. HIDE DEF Upto
  <2>. QED BY <1>0, <2>1
<1>2. ASSUME NEW n \in 0..Len(us), n \in S, n < Len(us) PROVE n + 1 \in S
  <2>1. PICK g : Upto(g, n)
    BY <1>2
  <2> DEFINE h == [i \in 0..(n + 1) |-> IF i = n + 1 THEN Apply(g[n], us[n + 1], creating)
                                        ELSE g[i]]
  <2>2. Apply(g[n], us[n + 1], creating) \in SUBSET Row
    BY <1>0, <1>2, <2>1, ApplyType
  <2>3. h \in [0..(n + 1) -> SUBSET Row]
    BY <2>1, <2>2
  <2>4. h[0] = base
    BY <2>1
  <2>5. ASSUME NEW i \in 1..(n + 1) PROVE h[i] = Apply(h[i - 1], us[i], creating)
    BY <2>1
  <2>6. Upto(h, n + 1)
    BY <2>3, <2>4, <2>5
  <2>. HIDE DEF Upto, h
  <2>. QED BY <1>0, <1>2, <2>6
<1>3. Len(us) \in S
  <2>. HIDE DEF S
  <2>1. \A n \in 0..Len(us) : n \in S /\ n < Len(us) => n + 1 \in S
    BY <1>2
  <2>2. \A n \in 0..Len(us) : n \in S
    BY <1>0, <1>1, <2>1, AllPositions
  <2>. QED BY <1>0, <2>2
<1>. QED BY <1>3 DEF Shows

\* Applied is what the last of the updaters leaves.
LEMMA AppliedShows ==
  ASSUME NEW base \in SUBSET Row, NEW us \in Seq(Update), NEW creating
  PROVE  \E f : Shows(f, base, us, creating) /\ Applied(base, us, creating) = f[Len(us)]
<1> DEFINE F(f) == [i \in 0..Len(us) |-> IF i = 0 THEN base
                                         ELSE Apply(f[i - 1], us[i], creating)]
           shown == CHOOSE f : f = F(f)
<1>0. Len(us) \in Nat
  OBVIOUS
<1>1. PICK f : Shows(f, base, us, creating)
  BY ShowsExists
<1>2. f = F(f)
  BY <1>1 DEF Shows
<1>3. shown = F(shown)
  BY <1>2
<1>4. Applied(base, us, creating) = shown[Len(us)]
  BY DEF Applied
<1> HIDE DEF shown
<1>5. \A i \in 0..Len(us) : i \in {j \in 0..Len(us) : shown[j] = f[j]}
  <2>1. shown[0] = f[0]
    BY <1>0, <1>2, <1>3
  <2>2. ASSUME NEW i \in 0..Len(us), shown[i] = f[i], i < Len(us)
        PROVE  shown[i + 1] = f[i + 1]
    <3>1. i + 1 \in 0..Len(us) /\ i + 1 # 0 /\ (i + 1) - 1 = i
      BY <1>0, <2>2
    <3>2. shown[i + 1] = Apply(shown[i], us[i + 1], creating)
      BY <1>3, <3>1
    <3>3. f[i + 1] = Apply(f[i], us[i + 1], creating)
      BY <1>2, <3>1
    <3>. QED BY <2>2, <3>2, <3>3
  <2> DEFINE T == {j \in 0..Len(us) : shown[j] = f[j]}
  <2>3. 0 \in T /\ \A i \in 0..Len(us) : i \in T /\ i < Len(us) => i + 1 \in T
    BY <1>0, <2>1, <2>2
  <2>4. \A i \in 0..Len(us) : i \in T
    <3>. HIDE DEF T
    <3>. QED BY <1>0, <2>3, AllPositions
  <2>. QED BY <2>4
<1>. QED BY <1>0, <1>1, <1>4, <1>5

\* Two lists have the same rows of name n.
SameRows(s, t, n) == \A r \in Row : r.name = n => (r \in s <=> r \in t)

\* What an updater does to the rows of a name depends on those rows and on
\* whether a creation of that name is in flight.
LEMMA ApplyLocal ==
  ASSUME NEW s \in SUBSET Row, NEW t \in SUBSET Row, NEW u \in Update,
         NEW P, NEW Q, NEW n, n \in P <=> n \in Q, SameRows(s, t, n)
  PROVE  SameRows(Apply(s, u, P), Apply(t, u, Q), n)
<1>1. CASE u.do = "refresh"
  <2>1. Apply(s, u, P) = Refreshed(s, u.fresh, P) /\ Apply(t, u, Q) = Refreshed(t, u.fresh, Q)
    BY <1>1 DEF Apply
  <2>. QED BY <2>1 DEF Refreshed, SameRows
<1>2. CASE u.do = "add"
  <2>1. /\ Apply(s, u, P) = s \cup {OptimisticRow(u.name)}
        /\ Apply(t, u, Q) = t \cup {OptimisticRow(u.name)}
    BY <1>2 DEF Apply
  <2>. QED BY <2>1 DEF SameRows
<1>3. CASE u.do = "created"
  <2> DEFINE c == CreatedRow(u.name)
  <2>1. /\ Apply(s, u, P) = {IF r.name = u.name THEN c ELSE r : r \in s}
        /\ Apply(t, u, Q) = {IF r.name = u.name THEN c ELSE r : r \in t}
    BY <1>3 DEF Apply
  <2>2. c.name = u.name /\ c \in Row
    BY <1>3 DEF CreatedRow, Row, Phases, Update
  <2>. HIDE DEF c
  <2>3. ASSUME NEW r \in Row, r.name = n PROVE r \in Apply(s, u, P) <=> r \in Apply(t, u, Q)
    <3>1. CASE n = u.name
      <4>1. r \in Apply(s, u, P) <=> r = c /\ \E q \in s : q.name = n
        BY <2>1, <2>2, <2>3, <3>1
      <4>2. r \in Apply(t, u, Q) <=> r = c /\ \E q \in t : q.name = n
        BY <2>1, <2>2, <2>3, <3>1
      <4>3. (\E q \in s : q.name = n) <=> (\E q \in t : q.name = n)
        BY DEF SameRows
      <4>. QED BY <4>1, <4>2, <4>3
    <3>2. CASE n # u.name
      <4>1. r \in Apply(s, u, P) <=> r \in s
        BY <2>1, <2>2, <2>3, <3>2
      <4>2. r \in Apply(t, u, Q) <=> r \in t
        BY <2>1, <2>2, <2>3, <3>2
      <4>. QED BY <2>3, <4>1, <4>2 DEF SameRows
    <3>. QED BY <3>1, <3>2
  <2>. QED BY <2>3 DEF SameRows
<1>4. CASE u.do = "rollback"
  <2>1. /\ Apply(s, u, P) = {r \in s : r.name # u.name}
        /\ Apply(t, u, Q) = {r \in t : r.name # u.name}
    BY <1>4 DEF Apply
  <2>. QED BY <2>1 DEF SameRows
<1>. QED BY <1>1, <1>2, <1>3, <1>4 DEF Update

\* So does what all of them do, and it is made of rows.
LEMMA AppliedLocal ==
  ASSUME NEW base \in SUBSET Row, NEW us \in Seq(Update), NEW P, NEW Q
  PROVE  /\ Applied(base, us, P) \in SUBSET Row
         /\ \A n : (n \in P <=> n \in Q) =>
              SameRows(Applied(base, us, P), Applied(base, us, Q), n)
<1>0. Len(us) \in Nat /\ \A i \in 1..Len(us) : us[i] \in Update
  OBVIOUS
<1>1. PICK f : Shows(f, base, us, P) /\ Applied(base, us, P) = f[Len(us)]
  BY AppliedShows
<1>2. PICK g : Shows(g, base, us, Q) /\ Applied(base, us, Q) = g[Len(us)]
  BY AppliedShows
<1>3. ASSUME NEW n, n \in P <=> n \in Q PROVE SameRows(f[Len(us)], g[Len(us)], n)
  <2> DEFINE S == {i \in 0..Len(us) : SameRows(f[i], g[i], n)}
  <2>1. 0 \in S
    BY <1>0, <1>1, <1>2 DEF Shows, SameRows
  <2>2. ASSUME NEW i \in 0..Len(us), i \in S, i < Len(us) PROVE i + 1 \in S
    <3>1. /\ i + 1 \in 1..Len(us) /\ i + 1 \in 0..Len(us) /\ (i + 1) - 1 = i
          /\ us[i + 1] \in Update
      BY <1>0, <2>2
    <3>2. /\ f[i + 1] = Apply(f[i], us[i + 1], P) /\ g[i + 1] = Apply(g[i], us[i + 1], Q)
          /\ f[i] \in SUBSET Row /\ g[i] \in SUBSET Row
      BY <1>1, <1>2, <3>1 DEF Shows
    <3>3. SameRows(f[i], g[i], n)
      BY <2>2
    <3>4. SameRows(f[i + 1], g[i + 1], n)
      BY <1>3, <3>1, <3>2, <3>3, ApplyLocal
    <3>. QED BY <3>1, <3>4
  <2>3. \A i \in 0..Len(us) : i \in S /\ i < Len(us) => i + 1 \in S
    BY <2>2
  <2>4. \A i \in 0..Len(us) : i \in S
    <3>. HIDE DEF S
    <3>. QED BY <1>0, <2>1, <2>3, AllPositions
  <2>. QED BY <1>0, <2>4
<1>4. f[Len(us)] \in SUBSET Row
  BY <1>0, <1>1 DEF Shows
<1>. QED BY <1>1, <1>2, <1>3, <1>4

\* One more updater runs after the others.
LEMMA AppliedAppend ==
  ASSUME NEW base \in SUBSET Row, NEW us \in Seq(Update), NEW u \in Update, NEW P
  PROVE  Applied(base, Append(us, u), P) = Apply(Applied(base, us, P), u, P)
<1> DEFINE vs == Append(us, u)
<1>0. /\ Len(us) \in Nat /\ vs \in Seq(Update) /\ Len(vs) = Len(us) + 1
      /\ vs[Len(vs)] = u /\ \A i \in 1..Len(us) : vs[i] = us[i]
  OBVIOUS
<1>. HIDE DEF vs
<1>1. PICK f : Shows(f, base, us, P) /\ Applied(base, us, P) = f[Len(us)]
  BY AppliedShows
<1>2. PICK g : Shows(g, base, vs, P) /\ Applied(base, vs, P) = g[Len(vs)]
  BY <1>0, AppliedShows
<1> DEFINE S == {i \in 0..Len(us) : f[i] = g[i]}
<1>3. 0 \in S
  BY <1>0, <1>1, <1>2 DEF Shows
<1>4. ASSUME NEW i \in 0..Len(us), i \in S, i < Len(us) PROVE i + 1 \in S
  <2>1. /\ i + 1 \in 1..Len(us) /\ i + 1 \in 1..Len(vs) /\ i + 1 \in 0..Len(us)
        /\ (i + 1) - 1 = i
    BY <1>0, <1>4
  <2>2. f[i + 1] = Apply(f[i], us[i + 1], P) /\ g[i + 1] = Apply(g[i], vs[i + 1], P)
    BY <1>1, <1>2, <2>1 DEF Shows
  <2>. QED BY <1>0, <1>4, <2>1, <2>2
<1>5. \A i \in 0..Len(us) : i \in S /\ i < Len(us) => i + 1 \in S
  BY <1>4
<1>6. \A i \in 0..Len(us) : i \in S
  <2>. HIDE DEF S
  <2>. QED BY <1>0, <1>3, <1>5, AllPositions
<1>7. f[Len(us)] = g[Len(us)]
  BY <1>0, <1>6
<1>8. g[Len(vs)] = Apply(g[Len(us)], u, P)
  <2>1. Len(vs) \in 1..Len(vs) /\ Len(vs) - 1 = Len(us)
    BY <1>0
  <2>2. g[Len(vs)] = Apply(g[Len(vs) - 1], vs[Len(vs)], P)
    BY <1>2, <2>1 DEF Shows
  <2>. QED BY <1>0, <2>1, <2>2
<1>. QED BY <1>1, <1>2, <1>7, <1>8 DEF vs

\* Without updaters nothing changes.
LEMMA AppliedEmpty ==
  ASSUME NEW base \in SUBSET Row, NEW P
  PROVE  Applied(base, <<>>, P) = base
<1>0. <<>> \in Seq(Update)
  OBVIOUS
<1>1. PICK f : Shows(f, base, <<>>, P) /\ Applied(base, <<>>, P) = f[Len(<<>>)]
  BY <1>0, AppliedShows
<1>. QED BY <1>1 DEF Shows

-----------------------------------------------------------------------------
(* Types *)

\* The parts of TypeOK.
CallsOK == calls \in [Slots -> Call]
ListOK  == rows \in SUBSET Row /\ updates \in Seq(Update) /\ pending \in SUBSET Names
PagesOK == page \in Page /\ heading \in Page \cup {NoPage}
RestOK  == server \in [Names -> ServerRow] /\ acts \in 0..MaxActs /\ faults \in 0..MaxFaults

\* They are all of it.
LEMMA TypeParts == TypeOK <=> CallsOK /\ ListOK /\ PagesOK /\ RestOK
BY DEF TypeOK, CallsOK, ListOK, PagesOK, RestOK

\* The first free slot is a free slot.
LEMMA FirstFreeIsFree ==
  ASSUME NEW cs, Free(cs) # {}
  PROVE  FirstFree(cs) \in Slots /\ cs[FirstFree(cs)] = NoCall
<1>1. Free(cs) \subseteq Nat
  BY PagesAssumptions DEF Free, Slots, PagesAssumptions
<1>2. \E c \in Free(cs) : \A d \in Free(cs) : c <= d
  BY <1>1, LeastNatural
<1>3. FirstFree(cs) \in Free(cs)
  BY <1>2 DEF FirstFree
<1>. QED BY <1>3 DEF Free

\* What is sent is a request.
LEMMA Requests ==
  /\ List \in Call
  /\ \A n \in Names : Get(n) \in Call /\ Ask("create", n) \in Call /\ Ask("delete", n) \in Call
  /\ \A p \in Page : Load(p) \in Call
<1>1. List \in [kind : {"list"}, mine : {TRUE}, answer : Answers, fresh : SUBSET Row]
  BY DEF List, Answers
<1>2. \A n \in Names : Get(n) \in
        [kind : {"get"}, name : Names, mine : {TRUE}, answer : Answers, fresh : ServerRow]
  BY DEF Get, Answers, ServerRow
<1>3. \A n \in Names, k \in {"create", "delete"} : Ask(k, n) \in
        [kind : {"create", "delete"}, name : Names, mine : BOOLEAN, answer : Answers]
  BY DEF Ask, Answers
<1>4. \A p \in Page : Load(p) = List \/ \E n \in Names : Load(p) = Get(n)
  BY DEF Load, Page, ListPage, DetailPage
<1>5. /\ List \in Call
      /\ \A n \in Names : Get(n) \in Call
      /\ \A n \in Names : Ask("create", n) \in Call /\ Ask("delete", n) \in Call
  BY <1>1, <1>2, <1>3 DEF Call
<1>. QED BY <1>4, <1>5

\* Sending one keeps the types of all.
LEMMA SendType ==
  ASSUME CallsOK, NEW k \in Call, Send(k)
  PROVE  CallsOK'
BY FirstFreeIsFree DEF CallsOK, Send

\* Requests by their kind.
LEMMA CallKinds ==
  ASSUME NEW k \in Call
  PROVE  /\ k.kind \in {"none", "list", "get", "create", "delete"}
         /\ k.kind = "none" => k = NoCall
         /\ k.kind = "list" =>
              k \in [kind : {"list"}, mine : {TRUE}, answer : Answers, fresh : SUBSET Row]
         /\ k.kind = "get" =>
              k \in [kind : {"get"}, name : Names, mine : {TRUE}, answer : Answers,
                     fresh : ServerRow]
         /\ k.kind \in {"create", "delete"} =>
              k \in [kind : {"create", "delete"}, name : Names, mine : BOOLEAN,
                     answer : Answers]
<1> DEFINE Lists  == [kind : {"list"}, mine : {TRUE}, answer : Answers, fresh : SUBSET Row]
           Gets   == [kind : {"get"}, name : Names, mine : {TRUE}, answer : Answers,
                      fresh : ServerRow]
           Writes == [kind : {"create", "delete"}, name : Names, mine : BOOLEAN,
                      answer : Answers]
<1>1. CASE k = NoCall
  BY <1>1 DEF NoCall
<1>2. k \in Lists => k.kind = "list"
  OBVIOUS
<1>3. k \in Gets => k.kind = "get"
  OBVIOUS
<1>4. k \in Writes => k.kind \in {"create", "delete"}
  OBVIOUS
<1>5. k = NoCall \/ k \in Lists \/ k \in Gets \/ k \in Writes
  BY DEF Call
<1>. HIDE DEF Lists, Gets, Writes
<1>6. CASE k \in Lists
  BY <1>2, <1>6 DEF Lists
<1>7. CASE k \in Gets
  BY <1>3, <1>7 DEF Gets
<1>8. CASE k \in Writes
  BY <1>4, <1>8 DEF Writes
<1>. QED BY <1>1, <1>5, <1>6, <1>7, <1>8

\* An answered request is one still.
LEMMA AnswerType ==
  ASSUME CallsOK, NEW c \in Slots, NEW a \in Answers, InFlight(c), Answer(c, a)
  PROVE  /\ CallsOK'
         /\ \A d \in Slots \ {c} : calls'[d] = calls[d]
         /\ calls'[c].kind = calls[c].kind /\ calls'[c].answer = a
         /\ calls[c].kind \in {"list", "get"} => calls'[c].fresh = calls[c].fresh
         /\ calls[c].kind # "list" => calls'[c].name = calls[c].name
<1>0. calls[c] \in Call /\ calls[c].kind # "none"
  BY CallKinds DEF CallsOK, InFlight
<1> DEFINE k == [calls[c] EXCEPT !.answer = a]
<1>1. /\ calls' = [calls EXCEPT ![c] = k]
  BY DEF Answer, CallsOK
<1>2. /\ k \in Call /\ k.kind = calls[c].kind /\ k.answer = a
      /\ calls[c].kind \in {"list", "get"} => k.fresh = calls[c].fresh
      /\ calls[c].kind # "list" => k.name = calls[c].name
  <2>1. CASE calls[c].kind = "list"
    BY <1>0, <2>1, CallKinds DEF Call
  <2>2. CASE calls[c].kind = "get"
    BY <1>0, <2>2, CallKinds DEF Call
  <2>3. CASE calls[c].kind \in {"create", "delete"}
    BY <1>0, <2>3, CallKinds DEF Call
  <2>. QED BY <1>0, <2>1, <2>2, <2>3, CallKinds
<1>. HIDE DEF k
<1>. QED BY <1>1, <1>2 DEF CallsOK

\* So is one that was answered with what the API found.
LEMMA FoundType ==
  ASSUME CallsOK, NEW c \in Slots, NEW f, Found(c, f),
         \/ calls[c].kind = "list" /\ f \in SUBSET Row
         \/ calls[c].kind = "get" /\ f \in ServerRow
  PROVE  /\ CallsOK'
         /\ \A d \in Slots \ {c} : calls'[d] = calls[d]
         /\ calls'[c].kind = calls[c].kind /\ calls'[c].fresh = f
         /\ calls'[c].answer = "ok"
         /\ calls[c].kind = "get" => calls'[c].name = calls[c].name
<1>0. calls[c] \in Call
  BY DEF CallsOK
<1> DEFINE k == [calls[c] EXCEPT !.answer = "ok", !.fresh = f]
<1>1. /\ calls' = [calls EXCEPT ![c] = k]
  BY DEF Found, CallsOK
<1>2. /\ k \in Call /\ k.kind = calls[c].kind /\ k.fresh = f /\ k.answer = "ok"
      /\ calls[c].kind = "get" => k.name = calls[c].name
  <2>0. "ok" \in Answers
    BY DEF Answers
  <2>1. CASE calls[c].kind = "list" /\ f \in SUBSET Row
    BY <1>0, <2>0, <2>1, CallKinds DEF Call
  <2>2. CASE calls[c].kind = "get" /\ f \in ServerRow
    BY <1>0, <2>0, <2>2, CallKinds DEF Call
  <2>. QED BY <2>1, <2>2
<1>. HIDE DEF k
<1>. QED BY <1>1, <1>2 DEF CallsOK

\* A GET in flight is for the tenant whose page is shown.
GetsOfPage ==
  \A c \in Slots : calls[c].kind = "get" => OnDetail /\ calls[c].name = page.name

\* The inductive invariant of the types.
TypeInv == TypeOK /\ GetsOfPage

\* Sending a request of the page, or a write, keeps that so.
LEMMA SendOfPage ==
  ASSUME TypeInv, NEW k \in Call, Send(k), UNCHANGED page,
         k.kind = "get" => OnDetail /\ k.name = page.name
  PROVE  GetsOfPage'
<1>1. \A c \in Slots : calls'[c] = k \/ calls'[c] = calls[c]
  BY TypeParts DEF Send, TypeInv, CallsOK
<1>. QED BY <1>1 DEF GetsOfPage, TypeInv, OnDetail

\* Pages by their kind.
LEMMA PageKinds ==
  ASSUME NEW p \in Page
  PROVE  /\ p.kind \in {"list", "detail"}
         /\ p.kind = "list" => p = ListPage
         /\ p.kind = "detail" => p \in DetailPage /\ p.name \in Names
         /\ p # NoPage
<1>1. ListPage.kind = "list" /\ \A d \in DetailPage : d.kind = "detail" /\ d.name \in Names
  BY DEF ListPage, DetailPage
<1>2. p = ListPage \/ p \in DetailPage
  BY DEF Page
<1>. QED BY <1>1, <1>2, PagesAssumptions DEF PagesAssumptions

\* The request that loads a page is of that page.
LEMMA LoadOfPage ==
  ASSUME NEW p \in Page
  PROVE  /\ Load(p) \in Call
         /\ Load(p).kind = "get" => p.kind = "detail" /\ Load(p).name = p.name
         /\ Load(p).kind \in {"list", "get"} /\ Load(p).answer = "sent"
         /\ Load(p).kind = "list" => Load(p).fresh = {}
BY PageKinds, Requests DEF Load, List, Get

\* An answer is taken off, and everything else about requests stays.
LEMMA TakenOff ==
  ASSUME CallsOK, NEW c \in Slots, calls' = [calls EXCEPT ![c] = NoCall]
  PROVE  CallsOK' /\ \A d \in Slots : calls'[d] = NoCall \/ calls'[d] = calls[d]
BY DEF CallsOK, Call

\* Settling a creation keeps the types of the list.
LEMMA SettledType ==
  ASSUME CallsOK, ListOK, NEW c \in Slots, calls[c].kind = "create", Settled(c)
  PROVE  updates' \in Seq(Update) /\ pending' \in SUBSET Names
<1>1. calls[c].name \in Names
  BY CallKinds DEF CallsOK
<1>2. ASSUME NEW d \in {"created", "rollback"}
      PROVE  [do |-> d, name |-> calls[c].name] \in Update
  BY <1>1 DEF Update
<1>3. CASE calls[c].mine
  BY <1>2, <1>3 DEF Settled, SetTenants, ListOK
<1>4. CASE ~calls[c].mine
  BY <1>4 DEF Settled, ListOK
<1>. QED BY <1>3, <1>4

\* What is left of the requests when a page is left.
LEMMA OrphanedType ==
  ASSUME CallsOK, NEW c \in Slots
  PROVE  /\ Orphaned(c) \in Call
         /\ Orphaned(c).kind \notin {"list", "get"}
         /\ Orphaned(c).kind = "create" =>
              /\ calls[c].kind = "create" /\ Orphaned(c).answer = calls[c].answer
              /\ Orphaned(c).name = calls[c].name
<1>0. calls[c] \in Call /\ NoCall.kind = "none" /\ NoCall \in Call
  BY DEF CallsOK, NoCall, Call
<1>1. CASE calls[c].kind \in {"create", "delete"}
  <2> DEFINE k == [calls[c] EXCEPT !.mine = FALSE]
  <2>1. Orphaned(c) = k
    BY <1>0, <1>1 DEF Orphaned, InFlight
  <2>2. k \in Call /\ k.kind = calls[c].kind /\ k.answer = calls[c].answer
        /\ k.name = calls[c].name
    BY <1>0, <1>1, CallKinds DEF Call
  <2>. HIDE DEF k
  <2>. QED BY <1>1, <2>1, <2>2
<1>2. CASE calls[c].kind \notin {"create", "delete"}
  <2>1. Orphaned(c) = NoCall
    BY <1>0, <1>2, CallKinds DEF Orphaned, InFlight
  <2>. QED BY <1>0, <2>1
<1>. QED BY <1>1, <1>2

\* A page is opened in place of another.
LEMMA Arrived ==
  ASSUME TypeInv, Arrive, ~SamePage(heading, page)
  PROVE  /\ heading \in Page /\ page' = heading /\ CallsOK'
         /\ rows' = {} /\ updates' = <<>> /\ pending' = {}
         /\ \A c \in Slots : calls'[c] = Load(heading) \/ calls'[c] = Orphaned(c)
<1>1. heading \in Page
  BY TypeParts DEF TypeInv, Arrive, PagesOK
<1> DEFINE left == [c \in Slots |-> Orphaned(c)]
<1>2. /\ Free(left) # {} /\ page' = heading
      /\ calls' = [left EXCEPT ![FirstFree(left)] = Load(heading)]
      /\ rows' = {} /\ updates' = <<>> /\ pending' = {}
  BY DEF Arrive
<1>3. FirstFree(left) \in Slots
  <2>. HIDE DEF left
  <2>. QED BY <1>2, FirstFreeIsFree
<1>4. \A c \in Slots : Orphaned(c) \in Call
  BY OrphanedType, TypeParts DEF TypeInv
<1>5. Load(heading) \in Call
  BY <1>1, LoadOfPage
<1>. QED BY <1>1, <1>2, <1>3, <1>4, <1>5 DEF CallsOK

\* The API lists rows, none of them optimistic.
LEMMA ListedRows == Listed \in SUBSET Row /\ \A r \in Listed : ~r.optimistic
<1>1. ASSUME NEW n \in Names, server[n] \in Phases
      PROVE  /\ [name |-> n, phase |-> server[n], optimistic |-> FALSE] \in Row
             /\ ~[name |-> n, phase |-> server[n], optimistic |-> FALSE].optimistic
  BY <1>1 DEF Row
<1>. QED BY <1>1 DEF Listed

\* Serving a request.
LEMMA ServeEffect ==
  ASSUME CallsOK, RestOK, NEW c \in Slots, Serve(c)
  PROVE  /\ CallsOK' /\ server' \in [Names -> ServerRow]
         /\ \A d \in Slots \ {c} : calls'[d] = calls[d]
         /\ calls'[c].kind = calls[c].kind /\ calls[c].kind # "none"
         /\ calls[c].kind # "list" => calls'[c].name = calls[c].name
         /\ calls[c].kind = "list" => calls'[c].fresh = Listed
         /\ calls[c].kind = "get" => calls'[c].fresh = server[calls[c].name]
         /\ calls[c].kind \in {"list", "get"} => UNCHANGED server
         /\ calls[c].kind = "create" /\ calls'[c].answer = "ok" =>
              server'[calls[c].name] = "Pending"
         /\ \A n \in Names : server'[n] # server[n] =>
              \/ server[n] = "absent" /\ server'[n] = "Pending"
              \/ server'[n] = "deleted" /\ server[n] \in Phases
<1>0. /\ calls[c] \in Call /\ InFlight(c) /\ {"ok", "error"} \subseteq Answers
      /\ {"Pending", "deleted"} \subseteq ServerRow /\ server \in [Names -> ServerRow]
      /\ calls[c].kind \in {"list", "get", "create", "delete"}
  BY CallKinds DEF CallsOK, RestOK, Serve, Answers, ServerRow, InFlight
<1>1. CASE calls[c].kind = "list"
  <2>1. Found(c, Listed) /\ UNCHANGED server
    BY <1>1 DEF Serve
  <2>2. Listed \in SUBSET Row
    BY ListedRows
  <2>. QED BY <1>0, <1>1, <2>1, <2>2, FoundType
<1>2. CASE calls[c].kind = "get"
  <2>1. Found(c, server[calls[c].name]) /\ UNCHANGED server
    BY <1>2 DEF Serve
  <2>2. server[calls[c].name] \in ServerRow
    BY <1>0, <1>2, CallKinds
  <2>. QED BY <1>0, <1>2, <2>1, <2>2, FoundType
<1>3. CASE calls[c].kind = "create"
  <2>1. calls[c].name \in Names
    BY <1>0, <1>3, CallKinds
  <2>2. CASE server[calls[c].name] = "absent"
    <3>1. Answer(c, "ok") /\ server' = [server EXCEPT ![calls[c].name] = "Pending"]
      BY <1>3, <2>2 DEF Serve
    <3>. QED BY <1>0, <1>3, <2>1, <2>2, <3>1, AnswerType
  <2>3. CASE server[calls[c].name] # "absent"
    <3>1. Answer(c, "error") /\ UNCHANGED server
      BY <1>3, <2>3 DEF Serve
    <3>. QED BY <1>0, <1>3, <3>1, AnswerType
  <2>. QED BY <2>2, <2>3
<1>4. CASE calls[c].kind = "delete"
  <2>1. calls[c].name \in Names
    BY <1>0, <1>4, CallKinds
  <2>2. CASE server[calls[c].name] \in Phases
    <3>1. Answer(c, "ok") /\ server' = [server EXCEPT ![calls[c].name] = "deleted"]
      BY <1>4, <2>2 DEF Serve
    <3>. QED BY <1>0, <1>4, <2>1, <2>2, <3>1, AnswerType
  <2>3. CASE server[calls[c].name] \notin Phases
    <3>1. Answer(c, "error") /\ UNCHANGED server
      BY <1>4, <2>3 DEF Serve
    <3>. QED BY <1>0, <1>4, <3>1, AnswerType
  <2>. QED BY <2>2, <2>3
<1>. QED BY <1>0, <1>1, <1>2, <1>3, <1>4

\* The page after an answer to its GET.
LEMMA DeliverGetPage ==
  ASSUME TypeInv, NEW c \in Slots, DeliverGet(c)
  PROVE  /\ page' \in Page /\ page'.kind = page.kind /\ page'.name = page.name
         /\ page.kind = "detail" /\ page'.how = page.how
         /\ page'.gone => page.gone \/ (calls[c].answer = "ok"
                                        /\ calls[c].fresh \notin Phases)
<1>0. page \in DetailPage /\ calls[c].kind = "get"
  BY PageKinds, TypeParts DEF DeliverGet, TypeInv, GetsOfPage, OnDetail, PagesOK
<1>1. calls[c].answer \in {"ok", "error"}
  BY <1>0, CallKinds, TypeParts DEF DeliverGet, TypeInv, CallsOK, Answers
<1>2. CASE calls[c].answer = "error"
  <2>1. page' = page
    BY <1>2 DEF DeliverGet
  <2>. QED BY <1>0, <2>1 DEF DetailPage, Page
<1>3. CASE calls[c].answer = "ok" /\ calls[c].fresh \in Phases
  <2>1. page' = [page EXCEPT !.shown = calls[c].fresh]
    BY <1>3 DEF DeliverGet
  <2>. QED BY <1>0, <1>3, <2>1 DEF DetailPage, Page
<1>4. CASE calls[c].answer = "ok" /\ calls[c].fresh \notin Phases
  <2>1. page' = [page EXCEPT !.gone = TRUE]
    BY <1>4 DEF DeliverGet
  <2>. QED BY <1>0, <1>4, <2>1 DEF DetailPage, Page
<1>. QED BY <1>1, <1>2, <1>3, <1>4

\* A page to go to is a page.
LEMMA OpenedType ==
  ASSUME NEW n \in Names, NEW how \in {"link", "created"}
  PROVE  /\ Opened(n, how) \in Page /\ Opened(n, how).name = n
         /\ Opened(n, how).how = how /\ ~Opened(n, how).gone
BY DEF Opened, Page, DetailPage

\* It holds at the start.
LEMMA TypeInit == ASSUME Init PROVE TypeInv
<1>1. ListOK
  BY DEF Init, ListOK
<1>2. PagesOK
  BY DEF Init, PagesOK, Page
<1>3. RestOK
  BY PagesAssumptions DEF Init, RestOK, ServerRow, PagesAssumptions
<1>4. CallsOK
  BY Requests DEF Init, CallsOK, Call
<1>5. GetsOfPage
  BY DEF Init, GetsOfPage, List, NoCall
<1>. QED BY <1>1, <1>2, <1>3, <1>4, <1>5, TypeParts DEF TypeInv

\* Every step keeps it.
LEMMA TypeNext == ASSUME TypeInv, [Next]_vars PROVE TypeInv'
<1>0. CallsOK /\ ListOK /\ PagesOK /\ RestOK /\ GetsOfPage
  BY TypeParts DEF TypeInv
<1>. SUFFICES CallsOK' /\ ListOK' /\ PagesOK' /\ RestOK' /\ GetsOfPage'
  <2>. SUFFICES ASSUME CallsOK' /\ ListOK' /\ PagesOK' /\ RestOK' /\ GetsOfPage'
                PROVE  TypeInv'
    OBVIOUS
  <2>. QED BY DEF TypeInv, TypeOK, CallsOK, ListOK, PagesOK, RestOK
<1>1. CASE Render
  <2>1. UNCHANGED <<server, calls, page, heading, pending, acts, faults>>
    BY <1>1 DEF Render
  <2>2. Rendered \in SUBSET Row
    BY <1>0, AppliedLocal DEF Rendered, ListOK
  <2>3. ListOK'
    BY <1>0, <1>1, <2>2 DEF Render, ListOK
  <2>. QED BY <1>0, <2>1, <2>3 DEF CallsOK, PagesOK, RestOK, GetsOfPage, OnDetail
<1>2. CASE Poll
  <2>1. /\ Send(Load(page))
        /\ UNCHANGED <<server, page, heading, rows, updates, pending, acts, faults>>
    BY <1>2 DEF Poll
  <2>2. Load(page) \in Call /\ (Load(page).kind = "get" => OnDetail /\ Load(page).name = page.name)
    BY <1>0, LoadOfPage DEF PagesOK, OnDetail
  <2>3. CallsOK' /\ GetsOfPage'
    BY <1>0, <2>1, <2>2, SendType, SendOfPage
  <2>. QED BY <1>0, <2>1, <2>3 DEF ListOK, PagesOK, RestOK
<1>3. CASE Arrive
  <2>1. RestOK' /\ heading' \in Page \cup {NoPage}
    BY <1>0, <1>3 DEF Arrive, RestOK
  <2>2. CASE SamePage(heading, page)
    <3>1. UNCHANGED <<page, calls, rows, updates, pending>>
      BY <1>3, <2>2 DEF Arrive
    <3>. QED BY <1>0, <2>1, <3>1 DEF CallsOK, ListOK, PagesOK, GetsOfPage, OnDetail
  <2>3. CASE ~SamePage(heading, page)
    <3>1. /\ heading \in Page /\ page' = heading /\ CallsOK'
          /\ rows' = {} /\ updates' = <<>> /\ pending' = {}
          /\ \A c \in Slots : calls'[c] = Load(heading) \/ calls'[c] = Orphaned(c)
      BY <1>3, <2>3, Arrived
    <3>2. GetsOfPage'
      <4>1. \A c \in Slots : Orphaned(c).kind # "get"
        BY <1>0, OrphanedType
      <4>2. Load(heading).kind = "get" =>
              heading.kind = "detail" /\ Load(heading).name = heading.name
        BY <3>1, LoadOfPage
      <4>. QED BY <3>1, <4>1, <4>2 DEF GetsOfPage, OnDetail
    <3>. QED BY <2>1, <3>1, <3>2 DEF ListOK, PagesOK
  <2>. QED BY <2>2, <2>3
<1>4. ASSUME NEW p \in Page, Follow(p)
      PROVE  CallsOK' /\ ListOK' /\ PagesOK' /\ RestOK' /\ GetsOfPage'
  <2>1. /\ heading' = p /\ acts' = acts + 1 /\ acts < MaxActs
        /\ UNCHANGED <<server, calls, page, rows, updates, pending, faults>>
    BY <1>4 DEF Follow, Act
  <2>2. RestOK'
    BY <1>0, <2>1, PagesAssumptions DEF RestOK, PagesAssumptions
  <2>. QED BY <1>0, <1>4, <2>1, <2>2 DEF CallsOK, ListOK, PagesOK, GetsOfPage, OnDetail
<1>5. CASE OpenTenant
  <2>1. PICK r \in rows : Follow(Opened(r.name, "link"))
    BY <1>5 DEF OpenTenant
  <2>2. r.name \in Names
    BY <1>0 DEF ListOK, Row
  <2>. QED BY <1>4, <2>1, <2>2, OpenedType
<1>6. CASE BackToList
  BY <1>4, <1>6 DEF BackToList, Page
<1>7. CASE Delete
  <2>1. /\ Send(Ask("delete", page.name)) /\ acts' = acts + 1 /\ acts < MaxActs
        /\ UNCHANGED <<server, page, heading, rows, updates, pending, faults>>
    BY <1>7 DEF Delete, Act
  <2>2. Ask("delete", page.name) \in Call
    BY <1>0, <1>7, PageKinds, Requests DEF PagesOK, Delete, OnDetail
  <2>3. CallsOK' /\ GetsOfPage'
    BY <1>0, <2>1, <2>2, SendType, SendOfPage DEF Ask
  <2>4. RestOK'
    BY <1>0, <2>1, PagesAssumptions DEF RestOK, PagesAssumptions
  <2>. QED BY <1>0, <2>1, <2>3, <2>4 DEF ListOK, PagesOK
<1>8. ASSUME NEW n \in Names, Create(n)
      PROVE  CallsOK' /\ ListOK' /\ PagesOK' /\ RestOK' /\ GetsOfPage'
  <2>1. /\ Send(Ask("create", n)) /\ acts' = acts + 1 /\ acts < MaxActs /\ pending' = {n}
        /\ updates' = Append(updates, [do |-> "add", name |-> n])
        /\ UNCHANGED <<server, page, heading, rows, faults>>
    BY <1>8 DEF Create, Act, SetTenants
  <2>2. CallsOK' /\ GetsOfPage'
    BY <1>0, <2>1, Requests, SendType, SendOfPage DEF Ask
  <2>3. RestOK'
    BY <1>0, <2>1, PagesAssumptions DEF RestOK, PagesAssumptions
  <2>4. [do |-> "add", name |-> n] \in Update
    BY DEF Update
  <2>. QED BY <1>0, <2>1, <2>2, <2>3, <2>4 DEF ListOK, PagesOK
<1>9. ASSUME NEW n \in Names, Provision(n) \/ Elsewhere(n)
      PROVE  CallsOK' /\ ListOK' /\ PagesOK' /\ RestOK' /\ GetsOfPage'
  <2>1. /\ UNCHANGED <<calls, page, heading, rows, updates, pending, faults>>
        /\ acts' = acts \/ (acts < MaxActs /\ acts' = acts + 1)
        /\ \E s \in {"Pending", "Ready", "deleted"} : server' = [server EXCEPT ![n] = s]
    BY <1>9 DEF Provision, Elsewhere, Act
  <2>2. RestOK'
    BY <1>0, <2>1, PagesAssumptions DEF RestOK, PagesAssumptions, ServerRow
  <2>. QED BY <1>0, <2>1, <2>2 DEF CallsOK, ListOK, PagesOK, GetsOfPage, OnDetail
<1>10. ASSUME NEW c \in Slots, Serve(c)
       PROVE  CallsOK' /\ ListOK' /\ PagesOK' /\ RestOK' /\ GetsOfPage'
  <2>1. UNCHANGED <<page, heading, rows, updates, pending, acts, faults>>
    BY <1>10 DEF Serve
  <2>2. /\ CallsOK' /\ server' \in [Names -> ServerRow]
        /\ \A d \in Slots \ {c} : calls'[d] = calls[d]
        /\ calls'[c].kind = calls[c].kind
        /\ calls[c].kind # "list" => calls'[c].name = calls[c].name
    BY <1>0, <1>10, ServeEffect
  <2>3. GetsOfPage'
    BY <1>0, <2>1, <2>2 DEF GetsOfPage, OnDetail
  <2>. QED BY <1>0, <2>1, <2>2, <2>3 DEF ListOK, PagesOK, RestOK
<1>11. ASSUME NEW c \in Slots, Fail(c)
       PROVE  CallsOK' /\ ListOK' /\ PagesOK' /\ RestOK' /\ GetsOfPage'
  <2>1. /\ InFlight(c) /\ Answer(c, "error") /\ faults < MaxFaults /\ faults' = faults + 1
        /\ UNCHANGED <<server, page, heading, rows, updates, pending, acts>>
    BY <1>11 DEF Fail
  <2>2. /\ CallsOK' /\ \A d \in Slots \ {c} : calls'[d] = calls[d]
        /\ calls'[c].kind = calls[c].kind
        /\ calls[c].kind # "list" => calls'[c].name = calls[c].name
    BY <1>0, <2>1, AnswerType DEF Answers
  <2>3. GetsOfPage'
    BY <1>0, <2>1, <2>2 DEF GetsOfPage, OnDetail
  <2>4. RestOK'
    BY <1>0, <2>1, PagesAssumptions DEF RestOK, PagesAssumptions
  <2>. QED BY <1>0, <2>1, <2>2, <2>3, <2>4 DEF ListOK, PagesOK
<1>12. ASSUME NEW c \in Slots, Deliver(c)
       PROVE  CallsOK' /\ ListOK' /\ PagesOK' /\ RestOK' /\ GetsOfPage'
  <2>1. UNCHANGED <<server, rows, acts, faults>> /\ calls' = [calls EXCEPT ![c] = NoCall]
    BY <1>12 DEF Deliver, DeliverList, DeliverGet, DeliverCreate, DeliverDelete
  <2>2. CallsOK' /\ \A d \in Slots : calls'[d] = NoCall \/ calls'[d] = calls[d]
    BY <1>0, <2>1, TakenOff
  <2>3. RestOK'
    BY <1>0, <2>1 DEF RestOK
  <2>4. page'.kind = page.kind /\ page'.name = page.name => GetsOfPage'
    BY <1>0, <2>2 DEF GetsOfPage, OnDetail, NoCall
  <2>5. CASE DeliverList(c)
    <3>1. UNCHANGED <<page, heading, pending>>
      BY <2>5 DEF DeliverList
    <3>2. updates' \in Seq(Update)
      <4>1. CASE calls[c].answer = "error"
        BY <1>0, <2>5, <4>1 DEF DeliverList, ListOK
      <4>2. CASE calls[c].answer # "error"
        <5>1. updates' = Append(updates, [do |-> "refresh", fresh |-> calls[c].fresh])
          BY <2>5, <4>2 DEF DeliverList, SetTenants
        <5>2. calls[c].fresh \in SUBSET Row
          BY <1>0, <2>5, CallKinds DEF DeliverList, CallsOK
        <5>3. [do |-> "refresh", fresh |-> calls[c].fresh] \in Update
          BY <5>2 DEF Update
        <5>. QED BY <1>0, <5>1, <5>3 DEF ListOK
      <4>. QED BY <4>1, <4>2
    <3>. QED BY <1>0, <2>1, <2>2, <2>3, <2>4, <3>1, <3>2 DEF ListOK, PagesOK
  <2>6. CASE DeliverGet(c)
    <3>1. UNCHANGED <<heading, updates, pending>>
      BY <2>6 DEF DeliverGet
    <3>2. page' \in Page /\ page'.kind = page.kind /\ page'.name = page.name
      BY <2>6, DeliverGetPage
    <3>. QED BY <1>0, <2>1, <2>2, <2>3, <2>4, <3>1, <3>2 DEF ListOK, PagesOK
  <2>7. CASE DeliverCreate(c)
    <3>1. UNCHANGED page /\ Settled(c) /\ calls[c].kind = "create"
      BY <2>7 DEF DeliverCreate
    <3>2. updates' \in Seq(Update) /\ pending' \in SUBSET Names
      BY <1>0, <3>1, SettledType
    <3>3. heading' \in Page \cup {NoPage}
      <4>1. Opened(calls[c].name, "created") \in Page
        BY <1>0, <3>1, CallKinds, OpenedType DEF CallsOK
      <4>. QED BY <1>0, <2>7, <4>1 DEF DeliverCreate, PagesOK
    <3>. QED BY <1>0, <2>1, <2>2, <2>3, <2>4, <3>1, <3>2, <3>3 DEF ListOK, PagesOK
  <2>8. CASE DeliverDelete(c)
    <3>1. UNCHANGED <<page, updates, pending>> /\ heading' \in {ListPage, heading}
      BY <2>8 DEF DeliverDelete
    <3>. QED BY <1>0, <2>1, <2>2, <2>3, <2>4, <3>1 DEF ListOK, PagesOK, Page
  <2>. QED BY <1>12, <2>5, <2>6, <2>7, <2>8 DEF Deliver
<1>13. CASE UNCHANGED vars
  BY <1>0, <1>13 DEF vars, CallsOK, ListOK, PagesOK, RestOK, GetsOfPage, OnDetail
<1>. QED BY <1>1, <1>2, <1>3, <1>5, <1>6, <1>7, <1>8, <1>9, <1>10, <1>11, <1>12, <1>13 DEF Next

\* Every variable keeps its type, whatever answers when: the page of a tenant
\* never shows what a 404 says as if it were a phase (useTenant), and a list
\* is never rendered from anything but rows (useTenants).
THEOREM TypesHold == Spec => []TypeOK
<1>1. Init => TypeInv
  BY TypeInit
<1>2. TypeInv /\ [Next]_vars => TypeInv'
  BY TypeNext
<1>3. TypeInv => TypeOK
  BY DEF TypeInv
<1>. QED BY <1>1, <1>2, <1>3, PTL DEF Spec

-----------------------------------------------------------------------------
(* Optimistic rows *)

\* The API answers with rows that are not optimistic.
PlainAnswers ==
  \A c \in Slots : calls[c].kind = "list" => \A r \in calls[c].fresh : ~r.optimistic

\* Requests are made without rows, served with the rows of tenants, or keep
\* what they have.
LEMMA PlainNext ==
  ASSUME TypeInv, PlainAnswers, [Next]_vars
  PROVE  PlainAnswers'
<1>0. CallsOK /\ ListOK /\ PagesOK /\ RestOK
  BY TypeParts DEF TypeInv
<1>1. ASSUME NEW k \in Call, Send(k), k.kind = "list" => k.fresh = {} PROVE PlainAnswers'
  <2>1. \A c \in Slots : calls'[c] = k \/ calls'[c] = calls[c]
    BY <1>0, <1>1 DEF Send, CallsOK
  <2>. QED BY <1>1, <2>1 DEF PlainAnswers
<1>2. CASE UNCHANGED calls
  BY <1>2 DEF PlainAnswers
<1>3. CASE Poll
  BY <1>0, <1>1, <1>3, LoadOfPage DEF Poll, PagesOK
<1>4. CASE Arrive
  <2>1. CASE SamePage(heading, page)
    BY <1>2, <1>4, <2>1 DEF Arrive
  <2>2. CASE ~SamePage(heading, page)
    <3>1. /\ heading \in Page
          /\ \A c \in Slots : calls'[c] = Load(heading) \/ calls'[c] = Orphaned(c)
      BY <1>4, <2>2, Arrived
    <3>2. \A c \in Slots : Orphaned(c).kind # "list"
      BY <1>0, OrphanedType
    <3>3. Load(heading).kind = "list" => Load(heading).fresh = {}
      BY <3>1, LoadOfPage
    <3>. QED BY <3>1, <3>2, <3>3 DEF PlainAnswers
  <2>. QED BY <2>1, <2>2
<1>5. CASE Delete
  <2>1. Ask("delete", page.name) \in Call
    BY <1>0, <1>5, PageKinds, Requests DEF PagesOK, Delete, OnDetail
  <2>. QED BY <1>1, <1>5, <2>1 DEF Delete, Ask
<1>6. ASSUME NEW n \in Names, Create(n) PROVE PlainAnswers'
  BY <1>1, <1>6, Requests DEF Create, Ask
<1>7. ASSUME NEW c \in Slots, Serve(c) PROVE PlainAnswers'
  <2>1. /\ \A d \in Slots \ {c} : calls'[d] = calls[d]
        /\ calls'[c].kind = calls[c].kind
        /\ calls[c].kind = "list" => calls'[c].fresh = Listed
    BY <1>0, <1>7, ServeEffect
  <2>. QED BY <2>1, ListedRows DEF PlainAnswers
<1>8. ASSUME NEW c \in Slots, Fail(c) PROVE PlainAnswers'
  <2>1. /\ \A d \in Slots \ {c} : calls'[d] = calls[d]
        /\ calls'[c].kind = calls[c].kind
        /\ calls[c].kind = "list" => calls'[c].fresh = calls[c].fresh
    BY <1>0, <1>8, AnswerType DEF Fail, Answers
  <2>. QED BY <2>1 DEF PlainAnswers
<1>9. ASSUME NEW c \in Slots, Deliver(c) PROVE PlainAnswers'
  <2>1. calls' = [calls EXCEPT ![c] = NoCall]
    BY <1>9 DEF Deliver, DeliverList, DeliverGet, DeliverCreate, DeliverDelete
  <2>2. \A d \in Slots : calls'[d] = NoCall \/ calls'[d] = calls[d]
    BY <1>0, <2>1, TakenOff
  <2>. QED BY <2>2 DEF PlainAnswers, NoCall
<1>10. Render \/ OpenTenant \/ BackToList \/ (\E n \in Names : Provision(n) \/ Elsewhere(n))
         \/ UNCHANGED vars => UNCHANGED calls
  BY DEF Render, OpenTenant, BackToList, Follow, Provision, Elsewhere, vars
<1>. QED BY <1>2, <1>3, <1>4, <1>5, <1>6, <1>7, <1>8, <1>9, <1>10 DEF Next

\* The list keeps its rows when neither they, the queue nor pendingCreates change.
LEMMA SameList ==
  ASSUME OptimisticRows, UNCHANGED <<rows, updates, pending>>
  PROVE  OptimisticRows'
BY DEF OptimisticRows, Rendered

\* One updater is queued that may change the rows of name n only, and with it
\* pendingCreates may gain or lose n: for other names nothing changes.
LEMMA OtherRows ==
  ASSUME ListOK, NEW u \in Update, SetTenants(u), NEW n,
         pending' \in SUBSET Names, \A m : m # n => (m \in pending' <=> m \in pending)
  PROVE  LET before == Applied(rows, updates, pending')
         IN  /\ before \in SUBSET Row
             /\ Applied(rows, updates', pending') = Apply(before, u, pending')
             /\ \A r \in Row : r.name # n => (r \in before <=> r \in Rendered)
<1>1. rows \in SUBSET Row /\ updates \in Seq(Update) /\ updates' = Append(updates, u)
  BY DEF ListOK, SetTenants
<1>2. Applied(rows, updates', pending') = Apply(Applied(rows, updates, pending'), u, pending')
  BY <1>1, AppliedAppend
<1>3. /\ Applied(rows, updates, pending') \in SUBSET Row
      /\ \A m : (m \in pending' <=> m \in pending) =>
           SameRows(Applied(rows, updates, pending'), Rendered, m)
  BY <1>1, AppliedLocal DEF Rendered
<1>. QED BY <1>2, <1>3 DEF SameRows

\* No step takes the row of a creation in flight, or leaves an optimistic row
\* without its creation.
LEMMA OptimisticNext ==
  ASSUME TypeInv, PlainAnswers, OptimisticRows, [Next]_vars
  PROVE  OptimisticRows'
<1>0. CallsOK /\ ListOK
  BY TypeParts DEF TypeInv
<1>1. Rendered \in SUBSET Row
  BY <1>0, AppliedLocal DEF Rendered, ListOK
<1>2. CASE Render
  <2>1. rows' = Rendered /\ updates' = <<>> /\ pending' = pending
    BY <1>2 DEF Render
  <2>2. Rendered' = Applied(rows', updates', pending')
    BY DEF Rendered
  <2>3. Rendered' = Rendered
    BY <1>1, <2>1, <2>2, AppliedEmpty
  <2>. QED BY <2>1, <2>3 DEF OptimisticRows
<1>3. CASE Arrive
  <2>1. CASE SamePage(heading, page)
    BY <1>3, <2>1, SameList DEF Arrive
  <2>2. CASE ~SamePage(heading, page)
    <3>1. rows' = {} /\ updates' = <<>> /\ pending' = {}
      BY <1>3, <2>2, Arrived
    <3>2. Rendered' = Applied(rows', updates', pending')
      BY DEF Rendered
    <3>3. Rendered' = {}
      BY <3>1, <3>2, AppliedEmpty
    <3>. QED BY <3>1, <3>3 DEF OptimisticRows
  <2>. QED BY <2>1, <2>2
<1>4. ASSUME NEW n \in Names, Create(n) PROVE OptimisticRows'
  <2> DEFINE u == [do |-> "add", name |-> n]
             before == Applied(rows, updates, pending')
  <2>1. /\ u \in Update /\ SetTenants(u) /\ pending = {} /\ pending' = {n} /\ rows' = rows
        /\ u.do = "add" /\ u.name = n
    BY <1>4 DEF Create, Update
  <2>. HIDE DEF u
  <2>2. /\ before \in SUBSET Row
        /\ Applied(rows, updates', pending') = Apply(before, u, pending')
        /\ \A r \in Row : r.name # n => (r \in before <=> r \in Rendered)
    BY <1>0, <2>1, OtherRows
  <2>. HIDE DEF before
  <2>3. Rendered' = before \cup {OptimisticRow(n)}
    <3>1. Rendered' = Applied(rows', updates', pending')
      BY DEF Rendered
    <3>. QED BY <2>1, <2>2, <3>1 DEF Apply
  <2>4. OptimisticRow(n).name = n
    BY DEF OptimisticRow
  <2>. QED BY <2>1, <2>2, <2>3, <2>4 DEF OptimisticRows
<1>5. ASSUME NEW c \in Slots, DeliverList(c) PROVE OptimisticRows'
  <2>1. CASE calls[c].answer = "error"
    BY <1>5, <2>1, SameList DEF DeliverList
  <2>2. CASE calls[c].answer # "error"
    <3> DEFINE fresh == calls[c].fresh
               u == [do |-> "refresh", fresh |-> fresh]
    <3>1. fresh \in SUBSET Row /\ \A r \in fresh : ~r.optimistic
      BY <1>0, <1>5, CallKinds DEF DeliverList, CallsOK, PlainAnswers
    <3>2. u \in Update /\ u.do = "refresh" /\ u.fresh = fresh
      BY <3>1 DEF Update
    <3>3. SetTenants(u) /\ rows' = rows /\ pending' = pending
      BY <1>5, <2>2 DEF DeliverList
    <3>. HIDE DEF u, fresh
    <3>4. Rendered' = Refreshed(Rendered, fresh, pending)
      <4>1. Rendered' = Applied(rows', updates', pending')
        BY DEF Rendered
      <4>2. Rendered' = Apply(Rendered, u, pending)
        BY <1>0, <3>2, <3>3, <4>1, AppliedAppend DEF ListOK, SetTenants, Rendered
      <4>. QED BY <3>2, <4>2 DEF Apply
    <3>5. ASSUME NEW n \in pending PROVE \E r \in Rendered' : r.name = n
      <4>1. PICK r \in Rendered : r.name = n
        BY <3>5 DEF OptimisticRows
      <4>2. CASE \E f \in fresh : f.name = n
        BY <3>4, <4>2 DEF Refreshed
      <4>3. CASE ~ \E f \in fresh : f.name = n
        BY <3>4, <3>5, <4>1, <4>3 DEF Refreshed
      <4>. QED BY <4>2, <4>3
    <3>6. ASSUME NEW r \in Rendered', r.optimistic PROVE r.name \in pending
      BY <3>1, <3>4, <3>6 DEF Refreshed
    <3>. QED BY <3>3, <3>5, <3>6 DEF OptimisticRows
  <2>. QED BY <2>1, <2>2
<1>6. ASSUME NEW c \in Slots, DeliverCreate(c) PROVE OptimisticRows'
  <2>1. CASE ~calls[c].mine
    BY <1>6, <2>1, SameList DEF DeliverCreate, Settled
  <2>2. CASE calls[c].mine
    <3> DEFINE n == calls[c].name
               how == IF calls[c].answer = "ok" THEN "created" ELSE "rollback"
               u == [do |-> how, name |-> n]
               before == Applied(rows, updates, pending')
    <3>1. n \in Names /\ how \in {"created", "rollback"}
      BY <1>0, <1>6, CallKinds DEF CallsOK, DeliverCreate
    <3>2. SetTenants(u) /\ pending' = pending \ {n} /\ rows' = rows
      BY <1>6, <2>2 DEF DeliverCreate, Settled
    <3>. HIDE DEF n, how
    <3>3. u \in Update /\ u.do = how /\ u.name = n
      BY <3>1 DEF Update
    <3>. HIDE DEF u
    <3>4. pending' \in SUBSET Names
      BY <1>0, <3>2 DEF ListOK
    <3>5. /\ before \in SUBSET Row
          /\ Applied(rows, updates', pending') = Apply(before, u, pending')
          /\ \A r \in Row : r.name # n => (r \in before <=> r \in Rendered)
      BY <1>0, <3>2, <3>3, <3>4, OtherRows
    <3>. HIDE DEF before
    <3>6. /\ \A r \in before : r.name # n => r \in Rendered'
          /\ \A r \in Rendered' : r = CreatedRow(n) \/ (r.name # n /\ r \in before)
      <4>1. Rendered' = Applied(rows', updates', pending')
        BY DEF Rendered
      <4>2. Rendered' = Apply(before, u, pending')
        BY <3>2, <3>5, <4>1
      <4>3. CASE how = "created"
        <5>1. Rendered' = {IF r.name = n THEN CreatedRow(n) ELSE r : r \in before}
          BY <3>3, <4>2, <4>3 DEF Apply
        <5>. QED BY <5>1
      <4>4. CASE how = "rollback"
        <5>1. Rendered' = {r \in before : r.name # n}
          BY <3>3, <4>2, <4>4 DEF Apply
        <5>. QED BY <5>1
      <4>. QED BY <3>1, <4>3, <4>4
    <3>7. ASSUME NEW m \in pending' PROVE \E r \in Rendered' : r.name = m
      <4>1. m \in pending /\ m # n
        BY <3>2, <3>7
      <4>2. PICK r \in Rendered : r.name = m
        BY <4>1 DEF OptimisticRows
      <4>. QED BY <1>1, <3>5, <3>6, <4>1, <4>2
    <3>8. ASSUME NEW r \in Rendered', r.optimistic PROVE r.name \in pending'
      <4>1. ~CreatedRow(n).optimistic
        BY DEF CreatedRow
      <4>2. r.name # n /\ r \in Rendered
        BY <3>5, <3>6, <3>8, <4>1
      <4>. QED BY <3>2, <3>8, <4>2 DEF OptimisticRows
    <3>. QED BY <3>7, <3>8 DEF OptimisticRows
  <2>. QED BY <2>1, <2>2
<1>7. CASE UNCHANGED <<rows, updates, pending>>
  BY <1>7, SameList
<1>8. Poll \/ OpenTenant \/ BackToList \/ Delete \/ UNCHANGED vars
        \/ (\E n \in Names : Provision(n) \/ Elsewhere(n))
        \/ (\E c \in Slots : Serve(c) \/ DeliverGet(c) \/ DeliverDelete(c) \/ Fail(c))
        => UNCHANGED <<rows, updates, pending>>
  BY DEF Poll, OpenTenant, BackToList, Follow, Delete, Provision, Elsewhere, Serve,
         DeliverGet, DeliverDelete, Fail, vars
<1>. QED BY <1>2, <1>3, <1>4, <1>5, <1>6, <1>7, <1>8 DEF Next, Deliver

\* A creation in flight keeps its row, and an optimistic row never outlives its
\* creation, for any number of updaters that React runs in any batches: refresh,
\* create and its rollback (useTenants) agree on every name.
THEOREM OptimismIsRight == Spec => []OptimisticRows
<1>1. Init => TypeInv /\ PlainAnswers /\ OptimisticRows
  <2>. SUFFICES ASSUME Init PROVE TypeInv /\ PlainAnswers /\ OptimisticRows
    OBVIOUS
  <2>1. Rendered = {}
    BY AppliedEmpty DEF Init, Rendered
  <2>2. PlainAnswers
    BY DEF Init, PlainAnswers, List, NoCall
  <2>. QED BY <2>1, <2>2, TypeInit DEF Init, OptimisticRows
<1>2. TypeInv /\ PlainAnswers /\ OptimisticRows /\ [Next]_vars
        => (TypeInv /\ PlainAnswers /\ OptimisticRows)'
  BY TypeNext, PlainNext, OptimisticNext
<1>. QED BY <1>1, <1>2, PTL DEF Spec

-----------------------------------------------------------------------------
(* The page of a created tenant *)

\* The API knows the name.
Known(n) == server[n] # "absent"

\* What creations that succeeded, and pages they lead to, say of the API.
AnswersKnown ==
  \A c \in Slots : calls[c].kind = "create" /\ calls[c].answer = "ok" => Known(calls[c].name)
HeadingKnown ==
  heading # NoPage /\ heading.kind = "detail" =>
    ~heading.gone /\ (heading.how = "created" => Known(heading.name))
PageKnown == OnDetail /\ page.how = "created" => Known(page.name)
GetsKnown ==
  \A c \in Slots :
    calls[c].kind = "get" /\ calls[c].answer = "ok" /\ page.how = "created" =>
      calls[c].fresh # "absent" /\ (calls[c].fresh = "deleted" => server[page.name] = "deleted")

\* The inductive invariant of created tenants.
KnownInv ==
  TypeInv /\ AnswersKnown /\ HeadingKnown /\ PageKnown /\ GetsKnown /\ CreatedIsNotGone

\* Names are never given back, and a deleted tenant stays deleted.
NamesStay ==
  \A n \in Names : /\ Known(n) => server'[n] # "absent"
                   /\ server[n] = "deleted" => server'[n] = "deleted"

\* No step gives a name back.
LEMMA NamesKept == ASSUME TypeInv, [Next]_vars PROVE NamesStay
<1>0. CallsOK /\ RestOK /\ server \in [Names -> ServerRow]
  BY TypeParts DEF TypeInv, RestOK
<1>1. CASE UNCHANGED server
  BY <1>1 DEF NamesStay, Known
<1>2. ASSUME NEW n \in Names, Provision(n) \/ Elsewhere(n) PROVE NamesStay
  <2>1. \E s \in {"Pending", "Ready", "deleted"} :
          server' = [server EXCEPT ![n] = s] /\ server[n] # "deleted"
    BY <1>2 DEF Provision, Elsewhere, Phases
  <2>. QED BY <1>0, <2>1 DEF NamesStay, Known
<1>3. ASSUME NEW c \in Slots, Serve(c) PROVE NamesStay
  <2>1. \A n \in Names : server'[n] # server[n] =>
          \/ server[n] = "absent" /\ server'[n] = "Pending"
          \/ server'[n] = "deleted" /\ server[n] \in Phases
    BY <1>0, <1>3, ServeEffect
  <2>. QED BY <2>1 DEF NamesStay, Known, Phases
<1>4. \/ UNCHANGED server
      \/ \E n \in Names : Provision(n) \/ Elsewhere(n)
      \/ \E c \in Slots : Serve(c)
  BY DEF Next, vars, Render, Poll, Arrive, OpenTenant, BackToList, Follow, Delete, Create,
         Deliver, DeliverList, DeliverGet, DeliverCreate, DeliverDelete, Fail
<1>. QED BY <1>1, <1>2, <1>3, <1>4

\* What was true of the API stays true of it, for what a step does not touch.
LEMMA PageStays ==
  ASSUME TypeInv, KnownInv, NamesStay, UNCHANGED page
  PROVE  PageKnown' /\ CreatedIsNotGone'
<1>1. OnDetail => page.name \in Names
  BY PageKinds, TypeParts DEF TypeInv, PagesOK, OnDetail
<1>. QED BY <1>1 DEF KnownInv, PageKnown, CreatedIsNotGone, NamesStay, Known, OnDetail

\* So does the page under way, when it stays or is the list.
LEMMA HeadingStays ==
  ASSUME TypeInv, KnownInv, NamesStay, heading' \in {heading, NoPage, ListPage}
  PROVE  HeadingKnown'
<1>1. heading # NoPage /\ heading.kind = "detail" => heading.name \in Names
  BY PageKinds, TypeParts DEF TypeInv, PagesOK
<1>2. ListPage.kind = "list"
  BY DEF ListPage
<1>. QED BY <1>1, <1>2 DEF KnownInv, HeadingKnown, NamesStay, Known

\* The requests that a step leaves, takes off, fails or makes say what they said.
LEMMA CallsStay ==
  ASSUME TypeInv, KnownInv, NamesStay,
         \A c \in Slots : \/ calls'[c] = calls[c]
                          \/ calls'[c].kind = "none"
                          \/ calls'[c].answer \in {"sent", "error"}
                          \/ /\ calls'[c].kind \in {"create", "delete"}
                             /\ calls'[c].kind = calls[c].kind
                             /\ calls'[c].name = calls[c].name
                             /\ calls'[c].answer = calls[c].answer
  PROVE  /\ AnswersKnown'
         /\ page'.name = page.name /\ page'.how = page.how => GetsKnown'
<1>0. \A c \in Slots : calls[c] \in Call
  BY TypeParts DEF TypeInv, CallsOK
<1>1. \A c \in Slots : calls[c].kind = "create" => calls[c].name \in Names
  BY <1>0, CallKinds
<1>2. \A c \in Slots : calls[c].kind = "get" => page.name \in Names
  BY PageKinds, TypeParts DEF TypeInv, GetsOfPage, PagesOK, OnDetail
<1>3. AnswersKnown'
  BY <1>1 DEF KnownInv, AnswersKnown, NamesStay, Known
<1>4. ASSUME page'.name = page.name, page'.how = page.how PROVE GetsKnown'
  BY <1>2, <1>4 DEF KnownInv, GetsKnown, NamesStay, Known
<1>. QED BY <1>3, <1>4

\* A request is put into a free slot.
LEMMA CallsSent ==
  ASSUME TypeInv, KnownInv, NamesStay, NEW k, Send(k), k.answer = "sent", UNCHANGED page
  PROVE  AnswersKnown' /\ GetsKnown'
<1>1. \A c \in Slots : calls'[c] = calls[c] \/ calls'[c].answer = "sent"
  BY TypeParts DEF TypeInv, CallsOK, Send
<1>. QED BY <1>1, CallsStay

\* Every step keeps it.
LEMMA KnownNext == ASSUME KnownInv, [Next]_vars PROVE KnownInv'
<1>0. TypeInv /\ CallsOK /\ PagesOK /\ RestOK /\ NamesStay /\ TypeInv'
  BY TypeParts, TypeNext, NamesKept DEF TypeInv, KnownInv
<1>. SUFFICES AnswersKnown' /\ HeadingKnown' /\ PageKnown' /\ GetsKnown' /\ CreatedIsNotGone'
  BY <1>0 DEF KnownInv
<1>1. CASE UNCHANGED <<calls, page, heading>>
  BY <1>0, <1>1, CallsStay, PageStays, HeadingStays
<1>2. CASE Poll
  <2>1. Load(page).answer = "sent"
    BY <1>0, LoadOfPage DEF PagesOK
  <2>. QED BY <1>0, <1>2, <2>1, CallsSent, PageStays, HeadingStays DEF Poll
<1>3. CASE Arrive
  <2>1. heading' = NoPage
    BY <1>3 DEF Arrive
  <2>2. CASE SamePage(heading, page)
    <3>1. UNCHANGED <<page, calls>>
      BY <1>3, <2>2 DEF Arrive
    <3>. QED BY <1>0, <2>1, <3>1, CallsStay, PageStays, HeadingStays
  <2>3. CASE ~SamePage(heading, page)
    <3>1. /\ heading \in Page /\ page' = heading
          /\ \A c \in Slots : calls'[c] = Load(heading) \/ calls'[c] = Orphaned(c)
      BY <1>0, <1>3, <2>3, Arrived
    <3>2. Load(heading).answer = "sent"
      BY <3>1, LoadOfPage
    <3>3. \A c \in Slots : Orphaned(c).kind = "create" =>
            /\ calls[c].kind = "create" /\ Orphaned(c).answer = calls[c].answer
            /\ Orphaned(c).name = calls[c].name /\ calls[c].name \in Names
      BY <1>0, OrphanedType, CallKinds DEF CallsOK
    <3>4. AnswersKnown'
      BY <1>0, <3>1, <3>2, <3>3 DEF KnownInv, AnswersKnown, NamesStay, Known
    <3>5. \A c \in Slots : Orphaned(c).kind # "get"
      BY <1>0, OrphanedType
    <3>6. GetsKnown'
      BY <3>1, <3>2, <3>5 DEF GetsKnown
    <3>7. heading # NoPage /\ (heading.kind = "detail" => heading.name \in Names)
      BY <3>1, PageKinds
    <3>8. PageKnown' /\ CreatedIsNotGone'
      BY <1>0, <3>1, <3>7 DEF KnownInv, HeadingKnown, PageKnown, CreatedIsNotGone, NamesStay,
                              Known, OnDetail
    <3>. QED BY <1>0, <2>1, <3>4, <3>6, <3>8, HeadingStays
  <2>. QED BY <2>2, <2>3
<1>4. CASE OpenTenant
  <2>1. PICK r \in rows : /\ heading' = Opened(r.name, "link") /\ UNCHANGED <<calls, page>>
    BY <1>4 DEF OpenTenant, Follow
  <2>2. Opened(r.name, "link").how = "link" /\ ~Opened(r.name, "link").gone
    BY DEF Opened
  <2>3. HeadingKnown'
    BY <2>1, <2>2 DEF HeadingKnown
  <2>. QED BY <1>0, <2>1, <2>3, CallsStay, PageStays
<1>5. CASE BackToList
  <2>1. heading' = ListPage /\ UNCHANGED <<calls, page>>
    BY <1>5 DEF BackToList, Follow
  <2>. QED BY <1>0, <2>1, CallsStay, PageStays, HeadingStays
<1>6. CASE Delete
  BY <1>0, <1>6, CallsSent, PageStays, HeadingStays DEF Delete, Ask
<1>7. ASSUME NEW n \in Names, Create(n)
      PROVE  AnswersKnown' /\ HeadingKnown' /\ PageKnown' /\ GetsKnown' /\ CreatedIsNotGone'
  BY <1>0, <1>7, CallsSent, PageStays, HeadingStays DEF Create, Ask
<1>8. ASSUME NEW c \in Slots, Serve(c)
      PROVE  AnswersKnown' /\ HeadingKnown' /\ PageKnown' /\ GetsKnown' /\ CreatedIsNotGone'
  <2>1. UNCHANGED <<page, heading>>
    BY <1>8 DEF Serve
  <2>2. /\ server' \in [Names -> ServerRow]
        /\ \A d \in Slots \ {c} : calls'[d] = calls[d]
        /\ calls'[c].kind = calls[c].kind
        /\ calls[c].kind # "list" => calls'[c].name = calls[c].name
        /\ calls[c].kind = "get" => calls'[c].fresh = server[calls[c].name] /\ UNCHANGED server
        /\ calls[c].kind = "create" /\ calls'[c].answer = "ok" =>
             server'[calls[c].name] = "Pending"
    BY <1>0, <1>8, ServeEffect
  <2>3. AnswersKnown'
    <3>1. \A d \in Slots : calls[d].kind = "create" => calls[d].name \in Names
      BY <1>0, CallKinds DEF CallsOK
    <3>. QED BY <1>0, <2>2, <3>1 DEF KnownInv, AnswersKnown, NamesStay, Known
  <2>4. GetsKnown'
    <3>1. \A d \in Slots : calls[d].kind = "get" =>
            OnDetail /\ calls[d].name = page.name /\ page.name \in Names
      BY <1>0, PageKinds DEF TypeInv, GetsOfPage, PagesOK, OnDetail
    <3>2. ASSUME NEW d \in Slots \ {c}, calls'[d].kind = "get", calls'[d].answer = "ok",
                 page'.how = "created"
          PROVE  /\ calls'[d].fresh # "absent"
                 /\ calls'[d].fresh = "deleted" => server'[page'.name] = "deleted"
      BY <1>0, <2>1, <2>2, <3>1, <3>2 DEF KnownInv, GetsKnown, NamesStay
    <3>3. ASSUME calls'[c].kind = "get", page'.how = "created"
          PROVE  /\ calls'[c].fresh # "absent"
                 /\ calls'[c].fresh = "deleted" => server'[page'.name] = "deleted"
      BY <2>1, <2>2, <3>1, <3>3 DEF KnownInv, PageKnown, Known
    <3>. QED BY <3>2, <3>3 DEF GetsKnown
  <2>. QED BY <1>0, <2>1, <2>3, <2>4, PageStays, HeadingStays
<1>9. ASSUME NEW c \in Slots, Fail(c)
      PROVE  AnswersKnown' /\ HeadingKnown' /\ PageKnown' /\ GetsKnown' /\ CreatedIsNotGone'
  <2>1. UNCHANGED <<page, heading>>
    BY <1>9 DEF Fail
  <2>2. \A d \in Slots : calls'[d] = calls[d] \/ calls'[d].answer = "error"
    BY <1>0, <1>9, AnswerType DEF Fail, Answers
  <2>. QED BY <1>0, <2>1, <2>2, CallsStay, PageStays, HeadingStays
<1>10. ASSUME NEW c \in Slots, Deliver(c)
       PROVE  AnswersKnown' /\ HeadingKnown' /\ PageKnown' /\ GetsKnown' /\ CreatedIsNotGone'
  <2>1. calls' = [calls EXCEPT ![c] = NoCall] /\ calls[c].answer # "sent"
    BY <1>10 DEF Deliver, DeliverList, DeliverGet, DeliverCreate, DeliverDelete
  <2>2. \A d \in Slots : calls'[d] = calls[d] \/ calls'[d].kind = "none"
    BY <1>0, <2>1, TakenOff DEF NoCall
  <2>3. CASE DeliverList(c) \/ DeliverDelete(c)
    <3>1. UNCHANGED page /\ heading' \in {heading, ListPage}
      BY <2>3 DEF DeliverList, DeliverDelete
    <3>. QED BY <1>0, <2>2, <3>1, CallsStay, PageStays, HeadingStays
  <2>4. CASE DeliverCreate(c)
    <3> DEFINE n == calls[c].name
    <3>1. UNCHANGED page /\ calls[c].kind = "create"
      BY <2>4 DEF DeliverCreate
    <3>2. AnswersKnown' /\ PageKnown' /\ GetsKnown' /\ CreatedIsNotGone'
      BY <1>0, <2>2, <3>1, CallsStay, PageStays
    <3>3. CASE calls[c].answer = "ok"
      <4>1. heading' = Opened(n, "created")
        BY <2>4, <3>3 DEF DeliverCreate
      <4>2. Known(n) /\ n \in Names
        BY <1>0, <3>1, <3>3, CallKinds DEF KnownInv, AnswersKnown, CallsOK
      <4>. HIDE DEF n
      <4>3. Opened(n, "created").name = n /\ ~Opened(n, "created").gone
        BY DEF Opened
      <4>4. HeadingKnown'
        BY <1>0, <4>1, <4>2, <4>3 DEF HeadingKnown, NamesStay, Known
      <4>. QED BY <3>2, <4>4
    <3>4. CASE calls[c].answer # "ok"
      <4>1. heading' = heading
        BY <2>4, <3>4 DEF DeliverCreate
      <4>. QED BY <1>0, <3>2, <4>1, HeadingStays
    <3>. QED BY <3>3, <3>4
  <2>5. CASE DeliverGet(c)
    <3>1. /\ page'.kind = page.kind /\ page'.name = page.name
          /\ page.kind = "detail" /\ page'.how = page.how
          /\ page'.gone => page.gone \/ (calls[c].answer = "ok"
                                         /\ calls[c].fresh \notin Phases)
      BY <1>0, <2>5, DeliverGetPage
    <3>2. UNCHANGED <<heading, server>> /\ calls[c].kind = "get"
      BY <2>5 DEF DeliverGet
    <3>3. AnswersKnown' /\ GetsKnown'
      BY <1>0, <2>2, <3>1, CallsStay
    <3>4. HeadingKnown'
      BY <1>0, <3>2, HeadingStays
    <3>5. PageKnown'
      BY <3>1, <3>2 DEF KnownInv, PageKnown, Known, OnDetail
    <3>6. CreatedIsNotGone'
      <4>1. calls[c].fresh \in ServerRow
        BY <1>0, <3>2, CallKinds DEF CallsOK
      <4>. QED BY <3>1, <3>2, <4>1 DEF KnownInv, CreatedIsNotGone, GetsKnown, OnDetail,
                                      ServerRow, Phases
    <3>. QED BY <3>3, <3>4, <3>5, <3>6
  <2>. QED BY <1>10, <2>3, <2>4, <2>5 DEF Deliver
<1>11. Render \/ (\E n \in Names : Provision(n) \/ Elsewhere(n)) \/ UNCHANGED vars
         => UNCHANGED <<calls, page, heading>>
  BY DEF Render, Provision, Elsewhere, vars
<1>. QED BY <1>1, <1>2, <1>3, <1>4, <1>5, <1>6, <1>7, <1>8, <1>9, <1>10, <1>11 DEF Next

\* The page that a successful creation opens says that its tenant is gone only
\* when it was deleted, whatever requests fail, are lost or overtake each other
\* (CreateTenantDialog waits for the answer of createTenant).
THEOREM CreatedIsShown == Spec => []CreatedIsNotGone
<1>1. Init => KnownInv
  <2>. SUFFICES ASSUME Init PROVE KnownInv
    OBVIOUS
  <2>1. AnswersKnown /\ GetsKnown
    BY DEF Init, AnswersKnown, GetsKnown, List, NoCall
  <2>2. HeadingKnown /\ PageKnown /\ CreatedIsNotGone
    BY DEF Init, HeadingKnown, PageKnown, CreatedIsNotGone, OnDetail, ListPage
  <2>. QED BY <2>1, <2>2, TypeInit DEF KnownInv
<1>2. KnownInv /\ [Next]_vars => KnownInv'
  BY KnownNext
<1>3. KnownInv => CreatedIsNotGone
  BY DEF KnownInv
<1>. QED BY <1>1, <1>2, <1>3, PTL DEF Spec

=============================================================================
