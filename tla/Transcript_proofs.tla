--------------------------- MODULE Transcript_proofs ---------------------------
(***************************************************************************)
(* Every request the driver is sent is one a provider accepts, and holds   *)
(* what the driver must see.                                               *)
(*                                                                         *)
(* The first half is about the operators: what Sanitize puts into a chat   *)
(* request for any transcript the loop can make (SanitizeForms), that the  *)
(* only call of the last turn keeps its reply (SanitizeReaches), and that  *)
(* the items of a continued Responses conversation are the rest of the     *)
(* transcript (ItemsContinue).  Each is a recursive function over the      *)
(* places of a sequence, so each proof is an induction over them           *)
(* (SetInduction, Recursion).                                              *)
(*                                                                         *)
(* The second half is the invariant of the loop, IInv: between requests    *)
(* the transcript is Fit (of requests in order, every call answered but    *)
(* those in hand, the provider's part of it known), and what the last      *)
(* response owes is shown (DueKept).                                       *)
(***************************************************************************)
EXTENDS Transcript, NaturalsInduction, WellFoundedInduction, SequenceTheorems, TLAPS

-----------------------------------------------------------------------------
(* Recursion.                                                              *)

\* Induction over the naturals, for a set: it follows from the well-foundedness of
\* their order.
LEMMA SetInduction ==
  ASSUME NEW T, 0 \in T, \A n \in Nat : n \in T => n + 1 \in T
  PROVE  Nat \subseteq T
  <1> DEFINE U == Nat \ T
             R == OpToRel(<, Nat)
  <1> SUFFICES ASSUME U # {} PROVE FALSE
    OBVIOUS
  <1>1. IsWellFoundedOn(R, Nat)
    BY NatLessThanWellFounded, Zenon
  <1>2. PICK x \in U : \A y \in U : ~ (<<y, x>> \in R)
    <2> HIDE DEF R
    <2> QED
      BY <1>1, WFMin, Zenon
  <1>3. x \in Nat /\ x # 0 /\ x - 1 \in Nat /\ x - 1 < x /\ (x - 1) + 1 = x
    OBVIOUS
  <1>4. <<x - 1, x>> \in R
    BY <1>3 DEF OpToRel
  <1>5. x - 1 \in T
    BY <1>2, <1>3, <1>4
  <1> QED
    BY <1>3, <1>5

\* The least of a set of naturals is one of them.
LEMMA MinIsMember == ASSUME NEW S \in SUBSET Nat, S # {} PROVE Min(S) \in S
  <1> DEFINE R == OpToRel(<, Nat)
  <1>1. IsWellFoundedOn(R, Nat)
    BY NatLessThanWellFounded, Zenon
  <1>2. PICK x \in S : \A y \in S : ~ (<<y, x>> \in R)
    <2> HIDE DEF R
    <2> QED
      BY <1>1, WFMin, Zenon
  <1>3. ASSUME NEW y \in S PROVE x =< y
    <2>1. x \in Nat /\ y \in Nat /\ (y < x => <<y, x>> \in R)
      BY DEF OpToRel
    <2>2. ~(y < x)
      BY <1>2, <2>1
    <2>3. x \in Nat /\ y \in Nat
      OBVIOUS
    <2> QED
      BY <2>2, <2>3
  <1> QED
    BY <1>3 DEF Min

\* The steps from one member of S to the next, one for each number up to N.
Steps(S, N) == [S \X (1 .. N) -> S]

Chain(r, S, N, e, F) ==
  r \in [0 .. N -> S] /\ r[0] = e /\ \A n \in 1 .. N : r[n] = F[<<r[n - 1], n>>]

\* They can be taken.
LEMMA Recursion ==
  ASSUME NEW N \in Nat, NEW S, NEW e \in S, NEW F \in Steps(S, N)
  PROVE  \E r : Chain(r, S, N, e, F)
  <1> DEFINE Upto(k, r) == /\ r \in [0 .. k -> S] /\ r[0] = e
                           /\ \A n \in 1 .. k : r[n] = F[<<r[n - 1], n>>]
             Built == {k \in Nat : k <= N => \E r : Upto(k, r)}
  <1> USE DEF Steps
  <1>1. 0 \in Built
    <2>1. Upto(0, [n \in 0 .. 0 |-> e])
      OBVIOUS
    <2> QED
      BY <2>1
  <1>2. ASSUME NEW k \in Nat, k \in Built PROVE k + 1 \in Built
    <2> SUFFICES ASSUME k + 1 <= N PROVE \E r : Upto(k + 1, r)
      OBVIOUS
    <2>1. PICK r : Upto(k, r)
      BY <1>2
    <2> DEFINE last == F[<<r[k], k + 1>>]
               g == [n \in 0 .. k + 1 |-> IF n = k + 1 THEN last ELSE r[n]]
    <2>2. last \in S
      BY <2>1
    <2> HIDE DEF last
    <2>3. g \in [0 .. k + 1 -> S] /\ g[0] = e
      BY <2>1, <2>2
    <2>4. ASSUME NEW n \in 1 .. k + 1 PROVE g[n] = F[<<g[n - 1], n>>]
      <3>1. CASE n = k + 1
        <4>1. g[n] = last /\ g[n - 1] = r[k]
          BY <3>1
        <4> QED
          BY <3>1, <4>1 DEF last
      <3>2. CASE n # k + 1
        <4>1. n \in 1 .. k /\ g[n] = r[n] /\ g[n - 1] = r[n - 1]
          BY <3>2
        <4> QED
          BY <2>1, <4>1
      <3> QED
        BY <3>1, <3>2
    <2> HIDE DEF g
    <2>5. Upto(k + 1, g)
      BY <2>3, <2>4
    <2> QED
      BY <2>5
  <1>3. N \in Built
    <2> HIDE DEF Built
    <2> QED
      BY <1>1, <1>2, SetInduction
  <1> QED
    BY <1>3 DEF Chain

\* The members of s at the places of I, up to each place.
PickedBy(r, T, s, I) ==
  /\ r \in [0 .. Len(s) -> Seq(T)] /\ r[0] = <<>>
  /\ \A n \in 1 .. Len(s) : r[n] = IF n \in I THEN Append(r[n - 1], s[n]) ELSE r[n - 1]

\* What is picked is the last of them.
LEMMA PickedSteps ==
  ASSUME NEW T, NEW s \in Seq(T), NEW I
  PROVE  \E r : PickedBy(r, T, s, I) /\ Picked(s, I) = r[Len(s)]
  <1> DEFINE N == Len(s)
             Body(x, n) == IF n \in I THEN Append(x, s[n]) ELSE x
             F == [x \in Seq(T) \X (1 .. N) |-> Body(x[1], x[2])]
             IsUpto(h) == h = [n \in 0 .. N |-> IF n = 0 THEN <<>> ELSE Body(h[n - 1], n)]
             upto == CHOOSE h : IsUpto(h)
  <1>1. N \in Nat /\ \A n \in 1 .. N : s[n] \in T
    OBVIOUS
  <1>2. F \in [Seq(T) \X (1 .. N) -> Seq(T)] /\ <<>> \in Seq(T)
    BY <1>1
  <1>3. \A x \in Seq(T), n \in 1 .. N : F[<<x, n>>] = Body(x, n)
    OBVIOUS
  <1> DEFINE S == Seq(T)
  <1> HIDE DEF F, S, N
  <1>4. PICK r \in [0 .. N -> S] : r[0] = <<>> /\ \A n \in 1 .. N : r[n] = F[<<r[n - 1], n>>]
    <2>1. N \in Nat /\ <<>> \in S /\ F \in Steps(S, N)
      BY <1>1, <1>2 DEF S, N, Steps
    <2>2. PICK e : e = <<>>
      OBVIOUS
    <2>3. e \in S
      BY <2>1, <2>2
    <2>4. \E r : Chain(r, S, N, e, F)
      BY <2>1, <2>3, Recursion
    <2> QED
      BY <2>2, <2>4 DEF Chain
  <1>5. ASSUME NEW n \in 1 .. N PROVE r[n] = Body(r[n - 1], n)
    <2>1. n - 1 \in 0 .. N
      BY <1>1 DEF N
    <2>2. r[n - 1] \in Seq(T)
      BY <1>4, <2>1 DEF S
    <2> QED
      BY <1>3, <1>4, <2>2 DEF N
  <1>6. IsUpto(r)
    <2> DEFINE e == [n \in 0 .. N |-> IF n = 0 THEN <<>> ELSE Body(r[n - 1], n)]
    <2>1. ASSUME NEW n \in 0 .. N PROVE r[n] = e[n]
      <3>1. e[n] = IF n = 0 THEN <<>> ELSE Body(r[n - 1], n)
        OBVIOUS
      <3>2. n # 0 => n \in 1 .. N
        BY <1>1 DEF N
      <3> HIDE DEF e, Body
      <3> QED
        BY <1>4, <1>5, <3>1, <3>2
    <2>2. r = e
      BY <1>4, <2>1
    <2> QED
      BY <2>2
  <1>7. IsUpto(upto)
    <2> HIDE DEF IsUpto
    <2> QED
      BY <1>6
  <1>8. Picked(s, I) = upto[N]
    BY Zenon DEF Picked, upto, N
  <1> HIDE DEF upto, Body
  <1>9. \A n \in 0 .. N : upto[n] = IF n = 0 THEN <<>> ELSE Body(upto[n - 1], n)
    BY <1>7
  <1> HIDE DEF IsUpto
  <1> DEFINE Same == {n \in Nat : n <= N => upto[n] = r[n]}
  <1>10. N \in Nat
    BY <1>1 DEF N
  <1>11. 0 \in Same
    BY <1>4, <1>9, <1>10
  <1>12. ASSUME NEW n \in Nat, n \in Same PROVE n + 1 \in Same
    <2> SUFFICES ASSUME n + 1 <= N PROVE upto[n + 1] = r[n + 1]
      OBVIOUS
    <2>1. n + 1 \in 0 .. N /\ n + 1 \in 1 .. N /\ n + 1 # 0 /\ (n + 1) - 1 = n
      BY <1>10
    <2>2. r[n + 1] = Body(r[n], n + 1) /\ upto[n + 1] = Body(upto[n], n + 1)
      BY <1>5, <1>9, <2>1
    <2> QED
      BY <1>10, <1>12, <2>2
  <1>13. N \in Same
    <2> HIDE DEF Same
    <2> QED
      BY <1>10, <1>11, <1>12, SetInduction
  <1>14. Picked(s, I) = r[N]
    BY <1>8, <1>10, <1>13
  <1> QED
    BY <1>4, <1>5, <1>14 DEF N, S, Body, PickedBy

-----------------------------------------------------------------------------
(* The messages.                                                           *)

Key == Nat \X Nat

CallType ==
  [key : Key, id : Key, kind : {"ok", "badargs", "nameless", "bare"}]

MessageType ==
  [role : {"system", "user", "assistant", "tool"}, calls : Seq(CallType), id : Key,
   shows : SUBSET Key, warn : BOOLEAN, text : BOOLEAN]

\* A call is known by its request and its place, and so is its id if it has one.
GoodCall(c) ==
  /\ c.key[1] \in Nat \ {0} /\ c.key[2] \in Nat \ {0} /\ c.id \in {NoId, c.key}

\* Only an assistant turn has calls, which are those of one request in their
\* places; a reply is recorded under an id of the request that it shows.
GoodMessage(m) ==
  /\ m.role # "assistant" => m.calls = <<>>
  /\ \A k \in DOMAIN m.calls : GoodCall(m.calls[k]) /\ m.calls[k].key = <<m.calls[1].key[1], k>>
  /\ m.role = "tool" => m.id[1] # 0 /\ \A key \in m.shows : key[1] = m.id[1]

\* A reply after an assistant turn, and before the next, is for its request.
InTurn(ms) ==
  \A i, j \in DOMAIN ms :
    /\ i < j /\ ms[i].role = "assistant" /\ ms[j].role = "tool"
    /\ \A k \in i + 1 .. j : ms[k].role # "assistant"
    => \A k \in DOMAIN ms[i].calls : ms[j].id[1] = ms[i].calls[k].key[1]

Lawful(ms) ==
  /\ ms \in Seq(MessageType)
  /\ \A i \in DOMAIN ms : GoodMessage(ms[i])
  /\ InTurn(ms)

\* The messages the loop makes.
LEMMA UserIs ==
  ASSUME NEW shows \in SUBSET Key, NEW warn \in BOOLEAN
  PROVE  LET m == User(shows, warn) IN
           /\ m \in MessageType /\ m.role = "user" /\ m.calls = <<>> /\ m.text
           /\ m.shows = shows /\ m.warn = warn
  BY DEF User, Message, MessageType, NoId, Key

\* The prompt of the system.
LEMMA SystemIs ==
  /\ System \in MessageType /\ System.role = "system" /\ System.calls = <<>> /\ System.text
  BY DEF System, Message, MessageType, NoId, Key

\* A turn of the driver.
LEMMA AssistantIs ==
  ASSUME NEW calls \in Seq(CallType), NEW text \in BOOLEAN
  PROVE  LET m == Assistant(calls, text) IN
           m \in MessageType /\ m.role = "assistant" /\ m.calls = calls /\ m.text = text
  BY DEF Assistant, Message, MessageType, NoId, Key

\* The reply to a call.
LEMMA ReplyIs ==
  ASSUME NEW id \in Key, NEW shows \in SUBSET Key
  PROVE  LET m == Reply(id, shows) IN
           /\ m \in MessageType /\ m.role = "tool" /\ m.calls = <<>> /\ m.text
           /\ m.id = id /\ m.shows = shows
  BY DEF Reply, Message, MessageType, NoId, Key

-----------------------------------------------------------------------------
(* The chat request.                                                       *)

AccType == [used : SUBSET Nat, out : Seq(MessageType)]

\* The replies that may be put under call c.
Found(ms, i, acc, c) ==
  LET own == RepliesTo(ms, c.id) \ acc.used
      orphans == OrphansAfter(ms, i) \ acc.used
  IN IF own # {} THEN own ELSE orphans

\* The reply at place x is put next.
Taken(ms, acc, x) == [used |-> acc.used \cup {x}, out |-> Append(acc.out, ms[x])]

\* Under a call comes one of the replies that were found, or an empty one.
LEMMA PairedIs ==
  ASSUME NEW ms \in Seq(MessageType), NEW i \in DOMAIN ms, NEW acc \in AccType,
         NEW c \in CallType
  PROVE  /\ Paired(ms, i, acc, c) \in AccType
         /\ c.kind = "bare" => Paired(ms, i, acc, c) = acc
         /\ c.kind # "bare" /\ Found(ms, i, acc, c) = {} =>
              Paired(ms, i, acc, c) = [used |-> acc.used, out |-> Append(acc.out, Reply(c.id, {}))]
         /\ c.kind # "bare" /\ Found(ms, i, acc, c) # {} =>
              \E x \in Found(ms, i, acc, c) : Paired(ms, i, acc, c) = Taken(ms, acc, x)
  <1> DEFINE found == Found(ms, i, acc, c)
  <1>1. acc.used \in SUBSET Nat /\ acc.out \in Seq(MessageType)
    BY DEF AccType
  <1>2. found \in SUBSET DOMAIN ms /\ DOMAIN ms \subseteq Nat
    BY DEF Found, RepliesTo, OrphansAfter
  <1>3. Paired(ms, i, acc, c) =
          CASE c.kind = "bare" -> acc
            [] c.kind # "bare" /\ found = {} -> [acc EXCEPT !.out = Append(acc.out, Reply(c.id, {}))]
            [] OTHER -> [used |-> acc.used \cup {Min(found)}, out |-> Append(acc.out, ms[Min(found)])]
    BY Zenon DEF Paired, Found
  <1> HIDE DEF found
  <1>4. CASE c.kind = "bare"
    BY <1>3, <1>4
  <1>5. CASE c.kind # "bare" /\ found = {}
    <2>1. Reply(c.id, {}) \in MessageType
      <3>1. c.id \in Key /\ {} \in SUBSET Key
        BY DEF CallType
      <3>2. PICK none \in SUBSET Key : none = {}
        BY <3>1
      <3> QED
        BY <3>1, <3>2, ReplyIs
    <2>2. Paired(ms, i, acc, c) = [acc EXCEPT !.out = Append(acc.out, Reply(c.id, {}))]
      BY <1>3, <1>5
    <2>3. Paired(ms, i, acc, c) = [used |-> acc.used, out |-> Append(acc.out, Reply(c.id, {}))]
      BY <2>2 DEF AccType
    <2>4. Append(acc.out, Reply(c.id, {})) \in Seq(MessageType)
      BY <1>1, <2>1
    <2>5. Paired(ms, i, acc, c) \in AccType
      BY <1>1, <2>3, <2>4 DEF AccType
    <2> QED
      BY <1>5, <2>3, <2>5 DEF found
  <1>6. CASE c.kind # "bare" /\ found # {}
    <2>1. Min(found) \in found
      BY <1>2, <1>6, MinIsMember
    <2>2. PICK x \in found : x = Min(found)
      BY <2>1
    <2>3. Paired(ms, i, acc, c) = [used |-> acc.used \cup {x}, out |-> Append(acc.out, ms[x])]
      BY <1>3, <1>6, <2>2
    <2>4. ms[x] \in MessageType /\ x \in Nat
      BY <1>2, <2>2
    <2>5. Append(acc.out, ms[x]) \in Seq(MessageType) /\ acc.used \cup {x} \in SUBSET Nat
      BY <1>1, <2>4
    <2>6. Paired(ms, i, acc, c) \in AccType
      BY <2>3, <2>5 DEF AccType
    <2> QED
      BY <1>6, <2>2, <2>3, <2>6 DEF found, Taken
  <1> QED
    BY <1>4, <1>5, <1>6 DEF found

\* A message with its replies, up to each of its calls.
PairedBy(r, ms, i, acc) ==
  /\ r \in [0 .. Len(ms[i].calls) -> AccType]
  /\ r[0] = [used |-> acc.used, out |-> Append(acc.out, ms[i])]
  /\ \A n \in 1 .. Len(ms[i].calls) : r[n] = Paired(ms, i, r[n - 1], ms[i].calls[n])

\* What is emitted for a message is the last of its steps.
LEMMA EmittedSteps ==
  ASSUME NEW ms \in Seq(MessageType), NEW i \in DOMAIN ms, NEW acc \in AccType,
         ms[i].role # "tool"
  PROVE  \E r : PairedBy(r, ms, i, acc) /\ Emitted(ms, i, acc) = r[Len(ms[i].calls)]
  <1> DEFINE N == Len(ms[i].calls)
             S == AccType
             e == [acc EXCEPT !.out = Append(@, ms[i])]
             Body(x, n) == Paired(ms, i, x, ms[i].calls[n])
             F == [x \in S \X (1 .. N) |-> Body(x[1], x[2])]
             IsUpto(h) == h = [n \in 0 .. N |-> IF n = 0 THEN e ELSE Body(h[n - 1], n)]
             upto == CHOOSE h : IsUpto(h)
  <1>0. e = [used |-> acc.used, out |-> Append(acc.out, ms[i])]
    <2>1. PICK out : out = Append(acc.out, ms[i])
      OBVIOUS
    <2>2. [acc EXCEPT !.out = out] = [used |-> acc.used, out |-> out]
      BY DEF AccType
    <2> QED
      BY <2>1, <2>2
  <1>1. N \in Nat /\ e \in S
    <2>1. ms[i] \in MessageType
      OBVIOUS
    <2>2. N \in Nat
      BY <2>1 DEF MessageType
    <2>4. acc.used \in SUBSET Nat /\ Append(acc.out, ms[i]) \in Seq(MessageType)
      BY <2>1 DEF AccType
    <2> HIDE DEF e
    <2>5. e \in AccType
      BY <1>0, <2>4 DEF AccType
    <2> QED
      BY <2>2, <2>5
  <1>2. ASSUME NEW x \in S, NEW n \in 1 .. N PROVE Body(x, n) \in S
    <2>1. PICK c \in CallType : c = ms[i].calls[n]
      <3>1. ms[i] \in MessageType
        OBVIOUS
      <3> QED
        BY <3>1 DEF MessageType
    <2> QED
      BY <2>1, PairedIs
  <1>3. F \in Steps(S, N) /\ \A x \in S, n \in 1 .. N : F[<<x, n>>] = Body(x, n)
    <2> HIDE DEF Body, S
    <2> QED
      BY <1>2 DEF Steps
  <1>4. Emitted(ms, i, acc) = upto[N]
    BY Zenon DEF Emitted, upto, N, e
  <1> HIDE DEF F, S, N, e
  <1>5. PICK r : Chain(r, S, N, e, F)
    BY <1>1, <1>3, Recursion
  <1>6. r \in [0 .. N -> S] /\ r[0] = e
    BY <1>5 DEF Chain
  <1> HIDE DEF Body
  <1>7. ASSUME NEW n \in 1 .. N PROVE r[n] = Body(r[n - 1], n)
    <2>1. n - 1 \in 0 .. N
      BY <1>1
    <2> QED
      BY <1>3, <1>5, <1>6, <2>1 DEF Chain
  <1>8. IsUpto(r)
    <2> DEFINE g == [n \in 0 .. N |-> IF n = 0 THEN e ELSE Body(r[n - 1], n)]
    <2>1. ASSUME NEW n \in 0 .. N PROVE r[n] = g[n]
      BY <1>1, <1>6, <1>7
    <2>2. r = g
      BY <1>6, <2>1
    <2> QED
      BY <2>2
  <1>9. IsUpto(upto)
    <2> HIDE DEF IsUpto
    <2> QED
      BY <1>8
  <1> HIDE DEF upto
  <1>10. \A n \in 0 .. N : upto[n] = IF n = 0 THEN e ELSE Body(upto[n - 1], n)
    BY <1>9
  <1> HIDE DEF IsUpto
  <1> DEFINE Same == {n \in Nat : n <= N => upto[n] = r[n]}
  <1>11. 0 \in Same
    <2>1. 0 \in Nat /\ (0 <= N => 0 \in 0 .. N)
      BY <1>1
    <2>2. upto[0] = e /\ r[0] = e
      BY <1>1, <1>6, <1>10
    <2> QED
      BY <2>1, <2>2
  <1>12. ASSUME NEW n \in Nat, n \in Same PROVE n + 1 \in Same
    <2> SUFFICES ASSUME n + 1 <= N PROVE upto[n + 1] = r[n + 1]
      OBVIOUS
    <2>1. n + 1 \in 0 .. N /\ n + 1 \in 1 .. N /\ n + 1 # 0 /\ (n + 1) - 1 = n
      BY <1>1
    <2>2. r[n + 1] = Body(r[n], n + 1) /\ upto[n + 1] = Body(upto[n], n + 1)
      BY <1>7, <1>10, <2>1
    <2> QED
      BY <1>1, <1>12, <2>2
  <1>13. N \in Same
    <2> HIDE DEF Same
    <2> QED
      BY <1>1, <1>11, <1>12, SetInduction
  <1>14. Emitted(ms, i, acc) = r[N]
    BY <1>1, <1>4, <1>13
  <1> QED
    BY <1>0, <1>6, <1>7, <1>14 DEF N, S, Body, PairedBy

\* The messages with their replies, up to each of them.
SanitizedBy(r, ms) ==
  /\ r \in [0 .. Len(ms) -> AccType]
  /\ r[0] = [used |-> {}, out |-> <<>>]
  /\ \A n \in 1 .. Len(ms) : r[n] = Emitted(ms, n, r[n - 1])

\* The request is what the last of its steps emitted.
LEMMA SanitizeSteps ==
  ASSUME NEW ms \in Seq(MessageType)
  PROVE  \E r : SanitizedBy(r, ms) /\ Sanitize(ms) = r[Len(ms)].out
  <1> DEFINE N == Len(ms)
             S == AccType
             e == [used |-> {}, out |-> <<>>]
             Body(x, n) == Emitted(ms, n, x)
             F == [x \in S \X (1 .. N) |-> Body(x[1], x[2])]
             IsUpto(h) == h = [n \in 0 .. N |-> IF n = 0 THEN e ELSE Body(h[n - 1], n)]
             upto == CHOOSE h : IsUpto(h)
  <1>1. N \in Nat /\ e \in S
    <2>1. <<>> \in Seq(MessageType) /\ N \in Nat
      OBVIOUS
    <2> QED
      BY <2>1 DEF AccType
  <1>2. ASSUME NEW x \in S, NEW n \in 1 .. N PROVE Body(x, n) \in S
    <2>1. n \in DOMAIN ms
      OBVIOUS
    <2>2. CASE ms[n].role = "tool"
      BY <2>2 DEF Emitted
    <2>3. CASE ms[n].role # "tool"
      <3>1. PICK r : PairedBy(r, ms, n, x) /\ Emitted(ms, n, x) = r[Len(ms[n].calls)]
        BY <2>1, <2>3, EmittedSteps
      <3>2. Len(ms[n].calls) \in Nat
        BY <2>1 DEF MessageType
      <3>3. Len(ms[n].calls) \in 0 .. Len(ms[n].calls)
        BY <3>2
      <3>4. r[Len(ms[n].calls)] \in AccType
        BY <3>1, <3>3 DEF PairedBy
      <3> QED
        BY <3>1, <3>4
    <2> QED
      BY <2>2, <2>3
  <1>3. F \in Steps(S, N) /\ \A x \in S, n \in 1 .. N : F[<<x, n>>] = Body(x, n)
    <2> HIDE DEF Body, S
    <2> QED
      BY <1>2 DEF Steps
  <1>4. Sanitize(ms) = upto[N].out
    BY Zenon DEF Sanitize, upto, N, e
  <1> HIDE DEF F, S, N, e
  <1>5. PICK r : Chain(r, S, N, e, F)
    BY <1>1, <1>3, Recursion
  <1>6. r \in [0 .. N -> S] /\ r[0] = e
    BY <1>5 DEF Chain
  <1> HIDE DEF Body
  <1>7. ASSUME NEW n \in 1 .. N PROVE r[n] = Body(r[n - 1], n)
    <2>1. n - 1 \in 0 .. N
      BY <1>1
    <2> QED
      BY <1>3, <1>5, <1>6, <2>1 DEF Chain
  <1>8. IsUpto(r)
    <2> DEFINE g == [n \in 0 .. N |-> IF n = 0 THEN e ELSE Body(r[n - 1], n)]
    <2>1. ASSUME NEW n \in 0 .. N PROVE r[n] = g[n]
      BY <1>1, <1>6, <1>7
    <2>2. r = g
      BY <1>6, <2>1
    <2> QED
      BY <2>2
  <1>9. IsUpto(upto)
    <2> HIDE DEF IsUpto
    <2> QED
      BY <1>8
  <1> HIDE DEF upto
  <1>10. \A n \in 0 .. N : upto[n] = IF n = 0 THEN e ELSE Body(upto[n - 1], n)
    BY <1>9
  <1> HIDE DEF IsUpto
  <1> DEFINE Same == {n \in Nat : n <= N => upto[n] = r[n]}
  <1>11. 0 \in Same
    <2>1. 0 \in Nat /\ (0 <= N => 0 \in 0 .. N)
      BY <1>1
    <2>2. upto[0] = e /\ r[0] = e
      BY <1>1, <1>6, <1>10
    <2> QED
      BY <2>1, <2>2
  <1>12. ASSUME NEW n \in Nat, n \in Same PROVE n + 1 \in Same
    <2> SUFFICES ASSUME n + 1 <= N PROVE upto[n + 1] = r[n + 1]
      OBVIOUS
    <2>1. n + 1 \in 0 .. N /\ n + 1 \in 1 .. N /\ n + 1 # 0 /\ (n + 1) - 1 = n
      BY <1>1
    <2>2. r[n + 1] = Body(r[n], n + 1) /\ upto[n + 1] = Body(upto[n], n + 1)
      BY <1>7, <1>10, <2>1
    <2> QED
      BY <1>1, <1>12, <2>2
  <1>13. N \in Same
    <2> HIDE DEF Same
    <2> QED
      BY <1>1, <1>11, <1>12, SetInduction
  <1>14. Sanitize(ms) = r[N].out
    BY <1>1, <1>4, <1>13
  <1> QED
    BY <1>6, <1>7, <1>14 DEF N, S, Body, e, SanitizedBy

\* A reply that may stand under call c.
Suits(m, c) ==
  /\ m \in MessageType /\ m.role = "tool" /\ m.calls = <<>>
  /\ \A key \in m.shows : key[1] = c.key[1]

\* What is put under a call shows results of the call's own request.
LEMMA PairedSuits ==
  ASSUME NEW ms, Lawful(ms), NEW i \in DOMAIN ms, NEW acc \in AccType,
         NEW k \in DOMAIN ms[i].calls, ms[i].calls[k].kind # "bare"
  PROVE  \E m : /\ Suits(m, ms[i].calls[k])
                /\ Paired(ms, i, acc, ms[i].calls[k]).out = Append(acc.out, m)
  <1>1. ms \in Seq(MessageType) /\ (\A j \in DOMAIN ms : GoodMessage(ms[j])) /\ InTurn(ms)
    BY DEF Lawful
  <1>2. ms[i] \in MessageType /\ ms[i].calls \in Seq(CallType)
    <2>1. PICK m \in MessageType : m = ms[i]
      BY <1>1
    <2> QED
      BY <2>1 DEF MessageType
  <1>3. PICK c \in CallType : c = ms[i].calls[k]
    BY <1>2
  <1>4. GoodCall(c) /\ ms[i].role = "assistant"
    <2>1. GoodMessage(ms[i])
      BY <1>1
    <2> QED
      BY <1>2, <1>3, <2>1 DEF GoodMessage
  <1>5. CASE Found(ms, i, acc, c) = {}
    <2>1. Paired(ms, i, acc, c) = [used |-> acc.used, out |-> Append(acc.out, Reply(c.id, {}))]
      BY <1>1, <1>3, <1>5, PairedIs
    <2>2. Suits(Reply(c.id, {}), c)
      <3>1. PICK none \in SUBSET Key : none = {}
        OBVIOUS
      <3>2. PICK id \in Key : id = c.id
        BY DEF CallType
      <3>3. LET m == Reply(id, none) IN
              /\ m \in MessageType /\ m.role = "tool" /\ m.calls = <<>> /\ m.text
              /\ m.id = id /\ m.shows = none
        BY ReplyIs
      <3> QED
        BY <3>1, <3>2, <3>3 DEF Suits
    <2>3. Paired(ms, i, acc, c).out = Append(acc.out, Reply(c.id, {}))
      BY <2>1
    <2> QED
      BY <1>3, <2>2, <2>3
  <1>6. CASE Found(ms, i, acc, c) # {}
    <2>1. PICK x \in Found(ms, i, acc, c) : Paired(ms, i, acc, c) = Taken(ms, acc, x)
      BY <1>1, <1>3, <1>6, PairedIs
    <2>2. x \in RepliesTo(ms, c.id) \/ x \in OrphansAfter(ms, i)
      BY DEF Found
    <2>3. x \in DOMAIN ms /\ ms[x].role = "tool"
      BY <2>2 DEF RepliesTo, OrphansAfter
    <2>4. GoodMessage(ms[x]) /\ ms[x] \in MessageType
      BY <1>1, <2>3
    <2>5. ms[x].calls = <<>> /\ ms[x].id[1] # 0 /\ \A key \in ms[x].shows : key[1] = ms[x].id[1]
      BY <2>3, <2>4 DEF GoodMessage
    <2>6. CASE x \in RepliesTo(ms, c.id)
      <3>1. ms[x].id = c.id
        BY <2>6 DEF RepliesTo
      <3>2. c.id = c.key
        BY <1>4, <2>5, <3>1 DEF GoodCall, NoId
      <3>3. Suits(ms[x], c)
        BY <2>3, <2>4, <2>5, <3>1, <3>2 DEF Suits
      <3>4. Paired(ms, i, acc, c).out = Append(acc.out, ms[x])
        BY <2>1 DEF Taken
      <3> QED
        BY <1>3, <3>3, <3>4
    <2>7. CASE x \in OrphansAfter(ms, i)
      <3>1. i < x /\ \A j \in i + 1 .. x : ms[j].role # "assistant"
        BY <2>7 DEF OrphansAfter
      <3>2. ms[x].id[1] = c.key[1]
        BY <1>1, <1>3, <1>4, <2>3, <3>1 DEF InTurn
      <3>3. Suits(ms[x], c)
        BY <2>3, <2>4, <2>5, <3>2 DEF Suits
      <3>4. Paired(ms, i, acc, c).out = Append(acc.out, ms[x])
        BY <2>1 DEF Taken
      <3> QED
        BY <1>3, <3>3, <3>4
    <2> QED
      BY <2>2, <2>6, <2>7
  <1> QED
    BY <1>5, <1>6

\* The calls of m, up to each of them, that are no bare values.
RealBy(q, m) == PickedBy(q, CallType, m.calls, {k \in DOMAIN m.calls : m.calls[k].kind # "bare"})

\* The replies reps stand under the calls cs, one each.
Under(reps, cs) ==
  /\ reps \in Seq(MessageType) /\ Len(reps) = Len(cs)
  /\ \A j \in 1 .. Len(reps) : Suits(reps[j], cs[j])

\* One more of each.
LEMMA UnderGrows ==
  ASSUME NEW reps, NEW cs \in Seq(CallType), Under(reps, cs), NEW c \in CallType,
         NEW m, Suits(m, c)
  PROVE  Under(Append(reps, m), Append(cs, c))
  <1>1. reps \in Seq(MessageType) /\ Len(reps) = Len(cs) /\ m \in MessageType
    BY DEF Under, Suits
  <1>2. Append(reps, m) \in Seq(MessageType) /\ Len(Append(reps, m)) = Len(Append(cs, c))
    BY <1>1
  <1>3. ASSUME NEW j \in 1 .. Len(Append(reps, m)) PROVE Suits(Append(reps, m)[j], Append(cs, c)[j])
    <2>1. CASE j = Len(reps) + 1
      <3>1. Append(reps, m)[j] = m /\ Append(cs, c)[j] = c
        BY <1>1, <2>1
      <3> QED
        BY <3>1
    <2>2. CASE j # Len(reps) + 1
      <3>1. j \in 1 .. Len(reps) /\ Append(reps, m)[j] = reps[j] /\ Append(cs, c)[j] = cs[j]
        BY <1>1, <2>2
      <3> QED
        BY <3>1 DEF Under
    <2> QED
      BY <2>1, <2>2
  <1> QED
    BY <1>2, <1>3 DEF Under

\* A message is followed by a reply for each of its calls.
LEMMA EmittedIs ==
  ASSUME NEW ms, Lawful(ms), NEW i \in DOMAIN ms, NEW acc \in AccType,
         ms[i].role # "tool"
  PROVE  /\ Emitted(ms, i, acc) \in AccType
         /\ \E reps : /\ Under(reps, RealCalls(ms[i]))
                      /\ Emitted(ms, i, acc).out = Append(acc.out, ms[i]) \o reps
  <1>1. ms \in Seq(MessageType) /\ ms[i] \in MessageType
    BY DEF Lawful
  <1>2. ms[i].calls \in Seq(CallType)
    BY <1>1 DEF MessageType
  <1> DEFINE N == Len(ms[i].calls)
             base == Append(acc.out, ms[i])
  <1>3. N \in Nat /\ base \in Seq(MessageType)
    BY <1>1, <1>2 DEF AccType
  <1>4. PICK r : PairedBy(r, ms, i, acc) /\ Emitted(ms, i, acc) = r[N]
    BY <1>1, EmittedSteps
  <1>5. PICK q : RealBy(q, ms[i]) /\ RealCalls(ms[i]) = q[N]
    BY <1>2, PickedSteps DEF RealCalls, RealBy
  <1> HIDE DEF base, N
  <1>6. /\ r \in [0 .. N -> AccType] /\ r[0].out = base
        /\ \A n \in 1 .. N : r[n] = Paired(ms, i, r[n - 1], ms[i].calls[n])
    BY <1>4 DEF PairedBy, base, N
  <1>7. /\ q \in [0 .. N -> Seq(CallType)] /\ q[0] = <<>>
        /\ \A n \in 1 .. N :
             q[n] = IF ms[i].calls[n].kind # "bare" THEN Append(q[n - 1], ms[i].calls[n]) ELSE q[n - 1]
    BY <1>2, <1>5 DEF RealBy, PickedBy, N
  <1> DEFINE Served == {n \in Nat : n <= N =>
                          \E reps : Under(reps, q[n]) /\ r[n].out = base \o reps}
  <1>8. 0 \in Served
    <2>1. Under(<<>>, q[0])
      BY <1>7 DEF Under
    <2>2. r[0].out = base \o <<>>
      BY <1>3, <1>6
    <2> QED
      BY <2>1, <2>2
  <1>9. ASSUME NEW n \in Nat, n \in Served PROVE n + 1 \in Served
    <2> SUFFICES ASSUME n + 1 <= N
                 PROVE  \E reps : Under(reps, q[n + 1]) /\ r[n + 1].out = base \o reps
      OBVIOUS
    <2>1. n + 1 \in 1 .. N /\ n \in 0 .. N /\ (n + 1) - 1 = n /\ n <= N
      BY <1>3
    <2>2. PICK reps : Under(reps, q[n]) /\ r[n].out = base \o reps
      BY <1>9, <2>1
    <2>3. r[n] \in AccType /\ q[n] \in Seq(CallType)
      BY <1>6, <1>7, <2>1
    <2>4. n + 1 \in DOMAIN ms[i].calls
      BY <1>2, <2>1 DEF N
    <2>5. PICK c \in CallType : c = ms[i].calls[n + 1]
      BY <1>2, <2>4
    <2>6. /\ r[n + 1] = Paired(ms, i, r[n], c)
          /\ q[n + 1] = IF c.kind # "bare" THEN Append(q[n], c) ELSE q[n]
      BY <1>6, <1>7, <2>1, <2>5
    <2>7. CASE c.kind = "bare"
      <3>1. r[n + 1] = r[n]
        BY <1>1, <2>3, <2>6, <2>7, PairedIs
      <3>2. q[n + 1] = q[n]
        BY <2>6, <2>7
      <3> QED
        BY <2>2, <3>1, <3>2, Zenon
    <2>8. CASE c.kind # "bare"
      <3>1. PICK m : Suits(m, c) /\ Paired(ms, i, r[n], c).out = Append(r[n].out, m)
        BY <2>3, <2>4, <2>5, <2>8, PairedSuits, SMTT(30)
      <3>2. Under(Append(reps, m), q[n + 1])
        BY <2>2, <2>3, <2>6, <2>8, <3>1, UnderGrows
      <3>3. r[n + 1].out = base \o Append(reps, m)
        <4>1. reps \in Seq(MessageType) /\ m \in MessageType
          BY <2>2, <3>1 DEF Under, Suits
        <4>2. Append(base \o reps, m) = base \o Append(reps, m)
          BY <1>3, <4>1
        <4> QED
          BY <2>2, <2>6, <3>1, <4>2
      <3> QED
        BY <3>2, <3>3
    <2> QED
      BY <2>7, <2>8
  <1>10. N \in Served
    <2> HIDE DEF Served
    <2> QED
      BY <1>3, <1>8, <1>9, SetInduction
  <1>11. r[N] \in AccType
    BY <1>3, <1>6
  <1> QED
    BY <1>3, <1>4, <1>5, <1>10, <1>11 DEF base

\* They are calls, and a message without calls has none.
LEMMA RealCallsAre ==
  ASSUME NEW m, m.calls \in Seq(CallType)
  PROVE  RealCalls(m) \in Seq(CallType) /\ (m.calls = <<>> => RealCalls(m) = <<>>)
  <1>1. PICK q : RealBy(q, m) /\ RealCalls(m) = q[Len(m.calls)]
    BY PickedSteps DEF RealCalls, RealBy
  <1>2. Len(m.calls) \in Nat /\ Len(m.calls) \in 0 .. Len(m.calls)
    OBVIOUS
  <1>3. q[Len(m.calls)] \in Seq(CallType) /\ q[0] = <<>>
    BY <1>1, <1>2 DEF RealBy, PickedBy
  <1>4. m.calls = <<>> => Len(m.calls) = 0
    OBVIOUS
  <1> QED
    BY <1>1, <1>3, <1>4

\* Each reply stands in the replies of a message, and each call has its own.
Formed(out) ==
  \A i \in DOMAIN out :
    /\ out[i].role = "tool" =>
         \E k \in 1 .. i - 1 :
           i - k <= Len(RealCalls(out[k])) /\ \A j \in k + 1 .. i : out[j].role = "tool"
    /\ \A j \in 1 .. Len(RealCalls(out[i])) :
         i + j <= Len(out) /\ Suits(out[i + j], RealCalls(out[i])[j])

\* A message with a reply to each of its calls leaves a request formed.
LEMMA FormedGrows ==
  ASSUME NEW out \in Seq(MessageType), Formed(out), NEW m \in MessageType, m.role # "tool",
         NEW reps, Under(reps, RealCalls(m))
  PROVE  /\ Formed(Append(out, m) \o reps) /\ Append(out, m) \o reps \in Seq(MessageType)
         /\ \A x \in DOMAIN out : /\ x \in DOMAIN (Append(out, m) \o reps)
                                  /\ (Append(out, m) \o reps)[x] = out[x]
         /\ Len(out) + 1 \in DOMAIN (Append(out, m) \o reps)
         /\ (Append(out, m) \o reps)[Len(out) + 1] = m
  <1> DEFINE new == Append(out, m) \o reps
             N == Len(out)
             R == Len(reps)
  <1>1. reps \in Seq(MessageType) /\ N \in Nat /\ R \in Nat /\ R = Len(RealCalls(m))
    BY DEF Under
  <1>2. new \in Seq(MessageType) /\ Len(new) = N + 1 + R /\ DOMAIN new = 1 .. N + 1 + R
    BY <1>1
  <1>3. /\ \A x \in 1 .. N : new[x] = out[x]
        /\ new[N + 1] = m
        /\ \A j \in 1 .. R : new[N + 1 + j] = reps[j]
    BY <1>1
  <1>4. \A j \in 1 .. R : Suits(reps[j], RealCalls(m)[j])
    BY DEF Under
  <1>5. DOMAIN out = 1 .. N
    OBVIOUS
  <1> HIDE DEF new, N, R
  <1>6. ASSUME NEW i \in DOMAIN new
        PROVE  /\ new[i].role = "tool" =>
                    \E k \in 1 .. i - 1 :
                      i - k <= Len(RealCalls(new[k])) /\ \A j \in k + 1 .. i : new[j].role = "tool"
               /\ \A j \in 1 .. Len(RealCalls(new[i])) :
                    i + j <= Len(new) /\ Suits(new[i + j], RealCalls(new[i])[j])
    <2>1. CASE i \in 1 .. N
      <3>1. /\ out[i].role = "tool" =>
                 \E k \in 1 .. i - 1 :
                   i - k <= Len(RealCalls(out[k])) /\ \A j \in k + 1 .. i : out[j].role = "tool"
            /\ \A j \in 1 .. Len(RealCalls(out[i])) :
                 i + j <= N /\ Suits(out[i + j], RealCalls(out[i])[j])
        BY <1>5, <2>1 DEF Formed, N
      <3>2. ASSUME new[i].role = "tool"
            PROVE  \E k \in 1 .. i - 1 :
                     i - k <= Len(RealCalls(new[k])) /\ \A j \in k + 1 .. i : new[j].role = "tool"
        <4>1. PICK k \in 1 .. i - 1 :
                i - k <= Len(RealCalls(out[k])) /\ \A j \in k + 1 .. i : out[j].role = "tool"
          BY <1>3, <2>1, <3>1, <3>2
        <4>2. k \in 1 .. N /\ \A j \in k + 1 .. i : j \in 1 .. N
          BY <1>1, <2>1
        <4>3. new[k] = out[k] /\ \A j \in k + 1 .. i : new[j] = out[j]
          BY <1>3, <4>2
        <4> QED
          BY <4>1, <4>3
      <3>3. ASSUME NEW j \in 1 .. Len(RealCalls(new[i]))
            PROVE  i + j <= Len(new) /\ Suits(new[i + j], RealCalls(new[i])[j])
        <4>1. new[i] = out[i]
          BY <1>3, <2>1
        <4>2. i + j <= N /\ Suits(out[i + j], RealCalls(out[i])[j])
          BY <3>1, <3>3, <4>1
        <4>3. i + j \in 1 .. N /\ i + j <= Len(new)
          BY <1>1, <1>2, <2>1, <4>2
        <4> QED
          BY <1>3, <4>1, <4>2, <4>3
      <3> QED
        BY <3>2, <3>3
    <2>2. CASE i = N + 1
      <3>1. ASSUME NEW j \in 1 .. Len(RealCalls(m)) PROVE i + j <= Len(new) /\ Suits(new[i + j], RealCalls(m)[j])
        BY <1>1, <1>2, <1>3, <1>4, <2>2
      <3> QED
        BY <1>3, <2>2, <3>1
    <2>3. CASE i > N + 1
      <3>1. i - (N + 1) \in 1 .. R /\ i = N + 1 + (i - (N + 1)) /\ i \in Nat
        <4>1. i \in 1 .. N + 1 + R
          BY <1>2
        <4>2. N \in Nat /\ R \in Nat
          BY <1>1
        <4> QED
          BY <2>3, <4>1, <4>2
      <3>2. Suits(new[i], RealCalls(m)[i - (N + 1)])
        BY <1>3, <1>4, <3>1
      <3>3. RealCalls(new[i]) = <<>>
        <4>1. new[i].calls = <<>> /\ new[i].calls \in Seq(CallType)
          BY <3>2 DEF Suits
        <4> QED
          BY <4>1, RealCallsAre
      <3>4. N + 1 \in 1 .. i - 1 /\ i - (N + 1) <= Len(RealCalls(new[N + 1]))
        BY <1>1, <1>3, <2>3, <3>1
      <3>5. ASSUME NEW j \in N + 1 + 1 .. i PROVE new[j].role = "tool"
        <4>1. j - (N + 1) \in 1 .. R /\ j = N + 1 + (j - (N + 1))
          BY <1>1, <3>1
        <4> QED
          BY <1>3, <1>4, <4>1 DEF Suits
      <3> QED
        BY <3>3, <3>4, <3>5
    <2> QED
      BY <1>1, <1>2, <2>1, <2>2, <2>3
  <1>7. Formed(new)
    BY <1>6 DEF Formed
  <1>8. /\ \A x \in DOMAIN out : x \in DOMAIN new /\ new[x] = out[x]
        /\ N + 1 \in DOMAIN new /\ new[N + 1] = m
    BY <1>1, <1>2, <1>3, <1>5
  <1> QED
    BY <1>2, <1>7, <1>8 DEF new, N

\* What is in s at some place.
Within(m, s) == \E x \in DOMAIN s : s[x] = m

\* One message more leaves the request formed, and what was in it there.
LEMMA EmittedForms ==
  ASSUME NEW ms, Lawful(ms), NEW i \in DOMAIN ms, NEW acc \in AccType, Formed(acc.out)
  PROVE  /\ Emitted(ms, i, acc) \in AccType /\ Formed(Emitted(ms, i, acc).out)
         /\ \A m : Within(m, acc.out) => Within(m, Emitted(ms, i, acc).out)
         /\ ms[i].role # "tool" => Within(ms[i], Emitted(ms, i, acc).out)
  <1>1. CASE ms[i].role = "tool"
    BY <1>1 DEF Emitted
  <1>2. CASE ms[i].role # "tool"
    <2>1. PICK reps : /\ Under(reps, RealCalls(ms[i]))
                      /\ Emitted(ms, i, acc).out = Append(acc.out, ms[i]) \o reps
      BY <1>2, EmittedIs
    <2>2. acc.out \in Seq(MessageType) /\ ms[i] \in MessageType
      BY DEF Lawful, AccType
    <2>3. PICK new : new = Append(acc.out, ms[i]) \o reps
      OBVIOUS
    <2>4. /\ Formed(new)
          /\ \A x \in DOMAIN acc.out : x \in DOMAIN new /\ new[x] = acc.out[x]
          /\ Len(acc.out) + 1 \in DOMAIN new /\ new[Len(acc.out) + 1] = ms[i]
      BY <1>2, <2>1, <2>2, <2>3, FormedGrows
    <2>5. Emitted(ms, i, acc) \in AccType
      BY <1>2, EmittedIs
    <2> QED
      BY <2>1, <2>3, <2>4, <2>5 DEF Within
  <1> QED
    BY <1>1, <1>2

\* The request is formed, and every message that is no reply is in it.
LEMMA SanitizeForms ==
  ASSUME NEW ms, Lawful(ms)
  PROVE  \E r : /\ SanitizedBy(r, ms) /\ Sanitize(ms) = r[Len(ms)].out
                /\ \A n \in 0 .. Len(ms) :
                     /\ r[n] \in AccType /\ Formed(r[n].out)
                     /\ \A p \in 1 .. n : ms[p].role # "tool" => Within(ms[p], r[n].out)
                     /\ n > 0 => \A m : Within(m, r[n - 1].out) => Within(m, r[n].out)
  <1>1. ms \in Seq(MessageType)
    BY DEF Lawful
  <1>2. PICK r : SanitizedBy(r, ms) /\ Sanitize(ms) = r[Len(ms)].out
    BY <1>1, SanitizeSteps
  <1> DEFINE N == Len(ms)
             Good(n) == /\ r[n] \in AccType /\ Formed(r[n].out)
                        /\ \A p \in 1 .. n : ms[p].role # "tool" => Within(ms[p], r[n].out)
                        /\ n > 0 => \A m : Within(m, r[n - 1].out) => Within(m, r[n].out)
             Done == {n \in Nat : n <= N => Good(n)}
  <1>3. N \in Nat /\ DOMAIN ms = 1 .. N
    BY <1>1
  <1>4. /\ r \in [0 .. N -> AccType] /\ r[0] = [used |-> {}, out |-> <<>>]
        /\ \A n \in 1 .. N : r[n] = Emitted(ms, n, r[n - 1])
    BY <1>2 DEF SanitizedBy
  <1> HIDE DEF N
  <1>5. 0 \in Done
    <2>1. r[0] \in AccType /\ r[0].out = <<>>
      <3>1. 0 \in 0 .. N
        BY <1>3
      <3>2. r[0] \in AccType
        BY <1>4, <3>1
      <3> QED
        BY <1>4, <3>2
    <2>2. Formed(<<>>)
      BY DEF Formed
    <2> QED
      BY <2>1, <2>2
  <1>6. ASSUME NEW n \in Nat, n \in Done PROVE n + 1 \in Done
    <2> SUFFICES ASSUME n + 1 <= N PROVE Good(n + 1)
      OBVIOUS
    <2>1. Good(n) /\ n + 1 \in 1 .. N /\ (n + 1) - 1 = n
      BY <1>3, <1>6
    <2>2. r[n + 1] = Emitted(ms, n + 1, r[n]) /\ n + 1 \in DOMAIN ms
      BY <1>3, <1>4, <2>1
    <2>3. r[n] \in AccType /\ Formed(r[n].out)
      BY <2>1
    <2>4. PICK i \in DOMAIN ms : i = n + 1
      BY <2>2
    <2>5. /\ Emitted(ms, i, r[n]) \in AccType /\ Formed(Emitted(ms, i, r[n]).out)
          /\ \A m : Within(m, r[n].out) => Within(m, Emitted(ms, i, r[n]).out)
          /\ ms[i].role # "tool" => Within(ms[i], Emitted(ms, i, r[n]).out)
      BY <2>3, EmittedForms
    <2>6. ASSUME NEW p \in 1 .. n + 1, ms[p].role # "tool" PROVE Within(ms[p], r[n + 1].out)
      <3>1. CASE p = n + 1
        BY <2>2, <2>4, <2>5, <2>6, <3>1
      <3>2. CASE p # n + 1
        <4>1. p \in 1 .. n
          BY <3>2
        <4> QED
          BY <2>1, <2>2, <2>4, <2>5, <2>6, <4>1
      <3> QED
        BY <3>1, <3>2
    <2> QED
      BY <2>1, <2>2, <2>4, <2>5, <2>6
  <1>7. Nat \subseteq Done
    <2> HIDE DEF Done
    <2> QED
      BY <1>5, <1>6, SetInduction
  <1>8. \A n \in 0 .. N : Good(n)
    BY <1>3, <1>7
  <1> QED
    BY <1>2, <1>8 DEF N

\* The same of the whole request.
LEMMA SanitizeFacts ==
  ASSUME NEW ms, Lawful(ms)
  PROVE  /\ Sanitize(ms) \in Seq(MessageType) /\ Formed(Sanitize(ms))
         /\ \A p \in DOMAIN ms : ms[p].role # "tool" => Within(ms[p], Sanitize(ms))
  <1>1. PICK r : /\ SanitizedBy(r, ms) /\ Sanitize(ms) = r[Len(ms)].out
                 /\ \A n \in 0 .. Len(ms) :
                      /\ r[n] \in AccType /\ Formed(r[n].out)
                      /\ \A p \in 1 .. n : ms[p].role # "tool" => Within(ms[p], r[n].out)
                      /\ n > 0 => \A m : Within(m, r[n - 1].out) => Within(m, r[n].out)
    BY SanitizeForms
  <1>2. Len(ms) \in 0 .. Len(ms) /\ DOMAIN ms = 1 .. Len(ms)
    BY DEF Lawful
  <1> QED
    BY <1>1, <1>2 DEF AccType

\* The last turn made one call, message i, and message i + 1 is its reply.
SingleCall(ms, key, i) ==
  /\ i \in DOMAIN ms /\ i + 1 \in DOMAIN ms
  /\ ms[i].role = "assistant" /\ Len(ms[i].calls) = 1
  /\ ms[i].calls[1].kind = "ok" /\ ms[i].calls[1].key = key
  /\ ms[i + 1].role = "tool" /\ key \in ms[i + 1].shows
  /\ ms[i + 1].id = IF ms[i].calls[1].id = NoId THEN Fallback(key[1]) ELSE ms[i].calls[1].id
  /\ \A j \in DOMAIN ms :
       /\ j > i + 1 => ms[j].role \notin {"tool", "assistant"}
       /\ j < i => /\ ms[j].role = "tool" => ms[j].id[1] # key[1]
                   /\ \A k \in DOMAIN ms[j].calls : ms[j].calls[k].key[1] # key[1]

\* The reply's id is the call's, or the one for calls without an id.
LEMMA SingleCallFacts ==
  ASSUME NEW ms, Lawful(ms), NEW key, NEW i, SingleCall(ms, key, i)
  PROVE  /\ i \in Nat /\ key \in Key /\ GoodCall(ms[i].calls[1])
         /\ ms[i].calls \in Seq(CallType) /\ ms[i].calls[1] \in CallType
         /\ ms[i + 1].id[1] = key[1] /\ key[1] # 0
         /\ ms[i].calls[1].id = NoId => ms[i + 1].id[2] = 0
         /\ ms[i].calls[1].id # NoId => ms[i + 1].id = key /\ ms[i].calls[1].id = key
  <1>1. ms \in Seq(MessageType) /\ i \in DOMAIN ms
    BY DEF Lawful, SingleCall
  <1>2. PICK m \in MessageType : m = ms[i]
    BY <1>1
  <1>3. m.calls \in Seq(CallType) /\ Len(m.calls) = 1 /\ m.calls[1].key = key
    BY <1>2 DEF MessageType, SingleCall
  <1>4. PICK c \in CallType : c = m.calls[1]
    BY <1>3
  <1>5. GoodCall(c)
    <2>1. GoodMessage(m)
      BY <1>1, <1>2 DEF Lawful
    <2>2. 1 \in DOMAIN m.calls
      BY <1>3
    <2> QED
      BY <1>4, <2>1, <2>2 DEF GoodMessage
  <1>6. c.key = key /\ key \in Key
    BY <1>3, <1>4 DEF CallType
  <1>7. ms[i + 1].id = IF c.id = NoId THEN <<key[1], 0>> ELSE c.id
    BY <1>2, <1>4 DEF SingleCall, Fallback
  <1> QED
    BY <1>1, <1>2, <1>3, <1>4, <1>5, <1>6, <1>7, SMTT(30) DEF GoodCall

\* No earlier turn takes the reply.
LEMMA PairedSpares ==
  ASSUME NEW ms, Lawful(ms), NEW key, NEW i, SingleCall(ms, key, i),
         NEW n \in DOMAIN ms, n < i, NEW acc \in AccType, i + 1 \notin acc.used,
         NEW k \in DOMAIN ms[n].calls
  PROVE  /\ Paired(ms, n, acc, ms[n].calls[k]) \in AccType
         /\ i + 1 \notin Paired(ms, n, acc, ms[n].calls[k]).used
  <1>1. ms \in Seq(MessageType) /\ ms[n] \in MessageType /\ i \in DOMAIN ms /\ i + 1 \in DOMAIN ms
    BY DEF Lawful, SingleCall
  <1>2. PICK m \in MessageType : m = ms[n]
    BY <1>1
  <1>3. PICK c \in CallType : c = ms[n].calls[k]
    <2>1. m.calls \in Seq(CallType)
      BY DEF MessageType
    <2> QED
      BY <1>2, <2>1
  <1>4. c.id[1] # key[1]
    <2>1. GoodCall(c)
      <3>1. GoodMessage(ms[n])
        BY DEF Lawful
      <3> QED
        BY <1>3, <3>1 DEF GoodMessage
    <2>2. c.key[1] # key[1]
      BY <1>3 DEF SingleCall
    <2>3. key[1] # 0
      BY SingleCallFacts
    <2> QED
      BY <2>1, <2>2, <2>3 DEF GoodCall, NoId
  <1>5. i + 1 \notin RepliesTo(ms, c.id)
    <2>1. ms[i + 1].id[1] = key[1]
      BY SingleCallFacts
    <2> QED
      BY <1>4, <2>1 DEF RepliesTo
  <1>6. i + 1 \notin OrphansAfter(ms, n)
    <2>1. i \in n + 1 .. i + 1 /\ ms[i].role = "assistant"
      BY <1>1 DEF SingleCall
    <2> QED
      BY <2>1 DEF OrphansAfter
  <1>7. i + 1 \notin Found(ms, n, acc, c)
    BY <1>5, <1>6 DEF Found
  <1>8. Paired(ms, n, acc, c) \in AccType
    BY <1>1, PairedIs
  <1>9. i + 1 \notin Paired(ms, n, acc, c).used
    <2>1. CASE c.kind = "bare"
      BY <1>1, <2>1, PairedIs
    <2>2. CASE c.kind # "bare" /\ Found(ms, n, acc, c) = {}
      <3>1. Paired(ms, n, acc, c) = [used |-> acc.used, out |-> Append(acc.out, Reply(c.id, {}))]
        BY <1>1, <2>2, PairedIs
      <3> QED
        BY <3>1
    <2>3. CASE c.kind # "bare" /\ Found(ms, n, acc, c) # {}
      <3>1. PICK x \in Found(ms, n, acc, c) : Paired(ms, n, acc, c) = Taken(ms, acc, x)
        <4>1. ms \in Seq(MessageType) /\ c.kind # "bare" /\ Found(ms, n, acc, c) # {}
          BY <1>1, <2>3
        <4> QED
          BY <4>1, PairedIs
      <3> QED
        BY <1>7, <3>1 DEF Taken
    <2> QED
      BY <2>1, <2>2, <2>3
  <1> QED
    BY <1>3, <1>8, <1>9

\* Nor does an earlier message.
LEMMA EmittedSpares ==
  ASSUME NEW ms, Lawful(ms), NEW key, NEW i, SingleCall(ms, key, i),
         NEW n \in DOMAIN ms, n < i, NEW acc \in AccType, i + 1 \notin acc.used
  PROVE  i + 1 \notin Emitted(ms, n, acc).used
  <1>1. CASE ms[n].role = "tool"
    BY <1>1 DEF Emitted
  <1>2. CASE ms[n].role # "tool"
    <2> DEFINE N == Len(ms[n].calls)
    <2>1. ms \in Seq(MessageType)
      BY DEF Lawful
    <2>2. N \in Nat /\ DOMAIN ms[n].calls = 1 .. N
      <3>1. PICK m \in MessageType : m = ms[n]
        BY <2>1
      <3>2. m.calls \in Seq(CallType)
        BY DEF MessageType
      <3> QED
        BY <3>1, <3>2
    <2>3. PICK r : PairedBy(r, ms, n, acc) /\ Emitted(ms, n, acc) = r[N]
      BY <1>2, <2>1, EmittedSteps
    <2> HIDE DEF N
    <2>4. /\ r \in [0 .. N -> AccType] /\ r[0].used = acc.used
          /\ \A j \in 1 .. N : r[j] = Paired(ms, n, r[j - 1], ms[n].calls[j])
      BY <2>3 DEF PairedBy, N
    <2> DEFINE Spared == {j \in Nat : j <= N => i + 1 \notin r[j].used}
    <2>5. 0 \in Spared
      BY <2>4
    <2>6. ASSUME NEW j \in Nat, j \in Spared PROVE j + 1 \in Spared
      <3> SUFFICES ASSUME j + 1 <= N PROVE i + 1 \notin r[j + 1].used
        OBVIOUS
      <3>1. j \in 0 .. N /\ j + 1 \in 1 .. N /\ (j + 1) - 1 = j /\ j <= N
        BY <2>2
      <3>2. r[j + 1] = Paired(ms, n, r[j], ms[n].calls[j + 1])
        BY <2>4, <3>1
      <3>3. r[j] \in AccType /\ i + 1 \notin r[j].used
        BY <2>4, <2>6, <3>1
      <3>4. PICK k \in DOMAIN ms[n].calls : k = j + 1
        BY <2>2, <3>1
      <3>5. i + 1 \notin Paired(ms, n, r[j], ms[n].calls[k]).used
        BY <3>3, PairedSpares
      <3> QED
        BY <3>2, <3>4, <3>5
    <2>7. N \in Spared
      <3> HIDE DEF Spared
      <3> QED
        BY <2>2, <2>5, <2>6, SetInduction
    <2> QED
      BY <2>2, <2>3, <2>7
  <1> QED
    BY <1>1, <1>2

\* The turn of the call takes its reply.
LEMMA EmittedTakes ==
  ASSUME NEW ms, Lawful(ms), NEW key, NEW i, SingleCall(ms, key, i),
         NEW acc \in AccType, i + 1 \notin acc.used
  PROVE  Within(ms[i + 1], Emitted(ms, i, acc).out)
  <1>1. ms \in Seq(MessageType) /\ i \in DOMAIN ms /\ i + 1 \in DOMAIN ms /\ i \in Nat
        /\ ms[i].role = "assistant" /\ Len(ms[i].calls) = 1 /\ ms[i + 1].role = "tool"
        /\ ms[i].calls[1].kind = "ok"
    BY SingleCallFacts DEF Lawful, SingleCall
  <1>2. PICK r : PairedBy(r, ms, i, acc) /\ Emitted(ms, i, acc) = r[1]
    BY <1>1, EmittedSteps, ZenonT(60)
  <1>3. /\ r[0] \in AccType /\ r[0].used = acc.used
        /\ r[1] = Paired(ms, i, r[0], ms[i].calls[1])
    <2>1. PICK N : N = Len(ms[i].calls) /\ N = 1
      BY <1>1
    <2>2. /\ r \in [0 .. N -> AccType] /\ r[0].used = acc.used
          /\ \A n \in 1 .. N : r[n] = Paired(ms, i, r[n - 1], ms[i].calls[n])
      BY <1>2, <2>1 DEF PairedBy
    <2>3. 0 \in 0 .. N /\ 1 \in 1 .. N /\ 1 - 1 = 0
      BY <2>1
    <2> QED
      BY <2>2, <2>3
  <1>4. PICK c \in CallType : c = ms[i].calls[1]
    BY SingleCallFacts
  <1>5. /\ ms[i + 1].id[1] = key[1] /\ key[1] # 0
        /\ c.id = NoId => ms[i + 1].id[2] = 0
        /\ c.id # NoId => ms[i + 1].id = key /\ c.id = key
    BY <1>4, SingleCallFacts
  <1>6. \A x \in DOMAIN ms : x # i + 1 /\ ms[x].role = "tool" => x < i /\ ms[x].id[1] # key[1]
    <2> SUFFICES ASSUME NEW x \in DOMAIN ms, x # i + 1, ms[x].role = "tool"
                 PROVE  x < i /\ ms[x].id[1] # key[1]
      OBVIOUS
    <2>1. x \in Nat /\ x # i
      BY <1>1
    <2>2. ~(x > i + 1)
      BY DEF SingleCall
    <2>3. x < i
      BY <1>1, <2>1, <2>2
    <2> QED
      BY <2>3 DEF SingleCall
  <1>7. Found(ms, i, r[0], c) = {i + 1}
    <2> DEFINE own == RepliesTo(ms, c.id) \ acc.used
               orphans == OrphansAfter(ms, i) \ acc.used
    <2>1. CASE c.id # NoId
      <3>1. own = {i + 1}
        BY <1>1, <1>5, <1>6, <2>1 DEF RepliesTo
      <3> QED
        BY <1>3, <3>1 DEF Found
    <2>2. CASE c.id = NoId
      <3>1. own = {}
        <4> SUFFICES ASSUME NEW x \in own PROVE FALSE
          OBVIOUS
        <4>1. x \in DOMAIN ms /\ ms[x].role = "tool" /\ ms[x].id[1] = 0
          BY <2>2 DEF RepliesTo, NoId
        <4>2. GoodMessage(ms[x])
          BY <4>1 DEF Lawful
        <4> QED
          BY <4>1, <4>2 DEF GoodMessage
      <3>2. ms[i + 1].id \notin KnownIds(ms)
        <4> SUFFICES ASSUME NEW j \in DOMAIN ms, NEW d \in ToSet(ms[j].calls), d.id = ms[i + 1].id
                     PROVE  FALSE
          BY DEF KnownIds
        <4>1. PICK k \in DOMAIN ms[j].calls : d = ms[j].calls[k]
          BY DEF ToSet
        <4>2. GoodCall(d)
          BY <4>1 DEF Lawful, GoodMessage
        <4> QED
          BY <1>5, <2>2, <4>2 DEF GoodCall, NoId
      <3>3. i + 1 \in OrphansAfter(ms, i)
        <4>1. \A k \in i + 1 .. i + 1 : ms[k].role # "assistant"
          BY <1>1
        <4> QED
          BY <1>1, <3>2, <4>1 DEF OrphansAfter
      <3>4. \A x \in OrphansAfter(ms, i) : x = i + 1
        BY <1>1, <1>6 DEF OrphansAfter
      <3>5. orphans = {i + 1}
        BY <3>3, <3>4
      <3> QED
        BY <1>3, <3>1, <3>5 DEF Found
    <2> QED
      BY <2>1, <2>2
  <1>8. PICK x \in Found(ms, i, r[0], c) : Paired(ms, i, r[0], c) = Taken(ms, r[0], x)
    <2>1. ms \in Seq(MessageType) /\ c.kind # "bare" /\ Found(ms, i, r[0], c) # {}
      BY <1>1, <1>4, <1>7
    <2> QED
      BY <1>1, <1>3, <2>1, PairedIs
  <1>9. Emitted(ms, i, acc).out = Append(r[0].out, ms[i + 1])
    BY <1>2, <1>3, <1>4, <1>7, <1>8 DEF Taken
  <1>10. r[0].out \in Seq(MessageType)
    BY <1>3 DEF AccType
  <1>11. PICK out \in Seq(MessageType) : out = r[0].out
    BY <1>10
  <1>12. Len(out) + 1 \in DOMAIN Append(out, ms[i + 1]) /\ Append(out, ms[i + 1])[Len(out) + 1] = ms[i + 1]
    OBVIOUS
  <1> QED
    BY <1>9, <1>11, <1>12 DEF Within

\* The result of the last turn's only call is in the request.
LEMMA SanitizeReaches ==
  ASSUME NEW ms, Lawful(ms), NEW key, NEW i, SingleCall(ms, key, i)
  PROVE  Within(ms[i + 1], Sanitize(ms))
  <1>1. PICK r : /\ SanitizedBy(r, ms) /\ Sanitize(ms) = r[Len(ms)].out
                 /\ \A n \in 0 .. Len(ms) :
                      /\ r[n] \in AccType /\ Formed(r[n].out)
                      /\ \A p \in 1 .. n : ms[p].role # "tool" => Within(ms[p], r[n].out)
                      /\ n > 0 => \A m : Within(m, r[n - 1].out) => Within(m, r[n].out)
    BY SanitizeForms
  <1> DEFINE N == Len(ms)
  <1>2. N \in Nat /\ DOMAIN ms = 1 .. N /\ i \in 1 .. N
    BY DEF Lawful, SingleCall
  <1>3. /\ r[0].used = {} /\ \A n \in 1 .. N : r[n] = Emitted(ms, n, r[n - 1])
        /\ Sanitize(ms) = r[N].out
        /\ \A n \in 0 .. N : r[n] \in AccType
        /\ \A n \in 1 .. N : \A m : Within(m, r[n - 1].out) => Within(m, r[n].out)
    <2>1. r[0].used = {} /\ \A n \in 1 .. N : r[n] = Emitted(ms, n, r[n - 1])
      <3>1. SanitizedBy(r, ms)
        BY <1>1
      <3>2. r[0] = [used |-> {}, out |-> <<>>]
        BY <3>1 DEF SanitizedBy
      <3> QED
        BY <3>1, <3>2 DEF SanitizedBy
    <2>2. \A n \in 1 .. N : n \in 0 .. N /\ n > 0
      BY <1>2
    <2> QED
      BY <1>1, <2>1, <2>2
  <1> HIDE DEF N
  <1> DEFINE Early == {n \in Nat : n < i => i + 1 \notin r[n].used}
             Late == {d \in Nat : i + d <= N => Within(ms[i + 1], r[i + d].out)}
  <1>4. 0 \in Early
    BY <1>3
  <1>5. ASSUME NEW n \in Nat, n \in Early PROVE n + 1 \in Early
    <2> SUFFICES ASSUME n + 1 < i PROVE i + 1 \notin r[n + 1].used
      OBVIOUS
    <2>1. n \in 0 .. N /\ n + 1 \in 1 .. N /\ (n + 1) - 1 = n /\ n < i
      BY <1>2
    <2>2. r[n] \in AccType /\ i + 1 \notin r[n].used /\ r[n + 1] = Emitted(ms, n + 1, r[n])
      BY <1>3, <1>5, <2>1
    <2>3. PICK p \in DOMAIN ms : p = n + 1 /\ p < i
      BY <1>2, <2>1
    <2>4. i + 1 \notin Emitted(ms, p, r[n]).used
      BY <2>2, <2>3, EmittedSpares
    <2> QED
      BY <2>2, <2>3, <2>4
  <1>6. Nat \subseteq Early
    <2> HIDE DEF Early
    <2> QED
      BY <1>4, <1>5, SetInduction
  <1>7. 0 \in Late
    <2>1. i - 1 \in Nat /\ i - 1 < i /\ i - 1 \in 0 .. N /\ i + 0 = i
      BY <1>2
    <2>2. i + 1 \notin r[i - 1].used /\ r[i - 1] \in AccType /\ r[i] = Emitted(ms, i, r[i - 1])
      BY <1>2, <1>3, <1>6, <2>1
    <2>3. Within(ms[i + 1], r[i].out)
      BY <2>2, EmittedTakes
    <2> QED
      BY <2>1, <2>3
  <1>8. ASSUME NEW d \in Nat, d \in Late PROVE d + 1 \in Late
    <2> SUFFICES ASSUME i + (d + 1) <= N PROVE Within(ms[i + 1], r[i + (d + 1)].out)
      OBVIOUS
    <2>1. i + (d + 1) \in 1 .. N /\ (i + (d + 1)) - 1 = i + d /\ i + d <= N
      BY <1>2
    <2>2. Within(ms[i + 1], r[i + d].out)
      BY <1>8, <2>1
    <2> QED
      BY <1>3, <2>1, <2>2
  <1>9. Nat \subseteq Late
    <2> HIDE DEF Late
    <2> QED
      BY <1>7, <1>8, SetInduction
  <1>10. N - i \in Nat /\ i + (N - i) = N
    BY <1>2
  <1>11. Within(ms[i + 1], r[N].out)
    <2>1. N - i \in Late
      BY <1>9, <1>10
    <2>2. i + (N - i) <= N
      BY <1>2
    <2> QED
      BY <1>10, <2>1, <2>2
  <1> QED
    BY <1>3, <1>11

-----------------------------------------------------------------------------
(* The Responses request.                                                  *)

\* A tail of a sequence is picked by its places.
LEMMA PickedTail ==
  ASSUME NEW T, NEW s \in Seq(T), NEW I, NEW m \in 0 .. Len(s),
         \A n \in 1 .. Len(s) : (n \in I) <=> (n > m)
  PROVE  Picked(s, I) = SubSeq(s, m + 1, Len(s))
  <1> DEFINE N == Len(s)
  <1>1. N \in Nat /\ m \in Nat /\ m <= N /\ \A n \in 1 .. N : s[n] \in T
    OBVIOUS
  <1>2. PICK r : PickedBy(r, T, s, I) /\ Picked(s, I) = r[N]
    BY PickedSteps
  <1>3. /\ r \in [0 .. N -> Seq(T)] /\ r[0] = <<>>
        /\ \A n \in 1 .. N : r[n] = IF n \in I THEN Append(r[n - 1], s[n]) ELSE r[n - 1]
    BY <1>2 DEF PickedBy
  <1> HIDE DEF N
  <1> DEFINE Before == {n \in Nat : n <= m => r[n] = <<>>}
             After == {d \in Nat : m + d <= N =>
                         /\ Len(r[m + d]) = d
                         /\ \A x \in 1 .. d : r[m + d][x] = s[m + x]}
  <1>4. 0 \in Before
    BY <1>3
  <1>5. ASSUME NEW n \in Nat, n \in Before PROVE n + 1 \in Before
    <2> SUFFICES ASSUME n + 1 <= m PROVE r[n + 1] = <<>>
      OBVIOUS
    <2>1. n + 1 \in 1 .. N /\ ~(n + 1 > m) /\ (n + 1) - 1 = n
      BY <1>1
    <2>2. n + 1 \notin I
      BY <2>1 DEF N
    <2> QED
      BY <1>3, <1>5, <2>1, <2>2
  <1>6. Nat \subseteq Before
    <2> HIDE DEF Before
    <2> QED
      BY <1>4, <1>5, SetInduction
  <1>7. 0 \in After
    <2>1. r[m] = <<>> /\ m + 0 = m
      BY <1>1, <1>6
    <2> QED
      BY <2>1
  <1>8. ASSUME NEW d \in Nat, d \in After PROVE d + 1 \in After
    <2> SUFFICES ASSUME m + (d + 1) <= N
                 PROVE  /\ Len(r[m + (d + 1)]) = d + 1
                        /\ \A x \in 1 .. d + 1 : r[m + (d + 1)][x] = s[m + x]
      OBVIOUS
    <2>1. /\ m + (d + 1) \in 1 .. N /\ m + (d + 1) > m /\ (m + (d + 1)) - 1 = m + d
          /\ m + d \in 0 .. N /\ m + d <= N
      BY <1>1
    <2>2. m + (d + 1) \in I
      BY <2>1 DEF N
    <2>3. r[m + (d + 1)] = Append(r[m + d], s[m + (d + 1)])
      BY <1>3, <2>1, <2>2
    <2>4. PICK t \in Seq(T) : t = r[m + d]
      BY <1>3, <2>1
    <2>5. Len(t) = d /\ \A x \in 1 .. d : t[x] = s[m + x]
      BY <1>8, <2>1, <2>4
    <2>6. PICK e \in T : e = s[m + (d + 1)]
      BY <1>1, <2>1
    <2>7. PICK u \in Seq(T) : u = Append(t, e)
      <3>1. Append(t, e) \in Seq(T)
        BY <2>4, <2>6
      <3> QED
        BY <3>1
    <2>8. Len(u) = d + 1 /\ u[d + 1] = e /\ \A x \in 1 .. d : u[x] = t[x]
      BY <2>5, <2>7
    <2>9. r[m + (d + 1)] = u
      BY <2>3, <2>4, <2>6, <2>7
    <2>10. ASSUME NEW x \in 1 .. d + 1 PROVE u[x] = s[m + x]
      <3>1. x = d + 1 \/ x \in 1 .. d
        OBVIOUS
      <3> QED
        BY <2>5, <2>6, <2>8, <3>1
    <2> QED
      BY <2>8, <2>9, <2>10
  <1>9. N - m \in After
    <2>1. Nat \subseteq After
      <3> HIDE DEF After
      <3> QED
        BY <1>7, <1>8, SetInduction
    <2> QED
      BY <1>1, <2>1, SMTT(30)
  <1>10. /\ m + (N - m) = N /\ N - m \in Nat /\ N \in 0 .. N
    BY <1>1
  <1>11. /\ r[N] \in Seq(T) /\ Len(r[N]) = N - m
         /\ \A x \in 1 .. N - m : r[N][x] = s[m + x]
    BY <1>3, <1>9, <1>10
  <1>12. /\ SubSeq(s, m + 1, N) \in Seq(T) /\ Len(SubSeq(s, m + 1, N)) = N - m
         /\ \A x \in 1 .. N - m : SubSeq(s, m + 1, N)[x] = s[m + x]
    BY <1>1 DEF N
  <1>13. r[N] = SubSeq(s, m + 1, N)
    <2>1. PICK t \in Seq(T), u \in Seq(T) : t = r[N] /\ u = SubSeq(s, m + 1, N)
      BY <1>11, <1>12
    <2>2. Len(t) = Len(u) /\ \A x \in 1 .. Len(t) : t[x] = u[x]
      BY <1>11, <1>12, <2>1
    <2>3. t = u
      BY <2>2, SeqEqual
    <2> QED
      BY <2>1, <2>3
  <1> QED
    BY <1>2, <1>13 DEF N

AllText(ms) == \A j \in DOMAIN ms : ms[j].text

\* A conversation that starts anew is sent whole.
LEMMA ItemsFresh ==
  ASSUME NEW ms \in Seq(MessageType), AllText(ms)
  PROVE  Items(Fresh, ms) = ms
  <1> DEFINE I == {i \in DOMAIN ms : i > Fresh.cursor /\ ms[i].text
                                       /\ ~(Fresh.prev # 0 /\ ms[i].role = "assistant")}
  <1>1. \A n \in 1 .. Len(ms) : (n \in I) <=> (n > 0)
    BY DEF AllText, Fresh
  <1>2. Items(Fresh, ms) = Picked(ms, I)
    BY Zenon DEF Items
  <1> HIDE DEF I
  <1>3. PICK m \in 0 .. Len(ms) : m = 0
    OBVIOUS
  <1>4. Picked(ms, I) = SubSeq(ms, m + 1, Len(ms))
    BY <1>1, <1>3, PickedTail
  <1>5. SubSeq(ms, 1, Len(ms)) = ms
    OBVIOUS
  <1> QED
    BY <1>2, <1>3, <1>4, <1>5

\* What the provider has after a continued conversation of the transcript.
Continued(st, ms, has) ==
  /\ st.prev # 0 /\ st.cursor \in Nat /\ st.cursor < Len(ms)
  /\ SubSeq(ms, 1, st.cursor) = st.prefix
  /\ ms[st.cursor + 1].role = "assistant"
  /\ \A j \in DOMAIN ms : j > st.cursor + 1 => ms[j].text /\ ms[j].role # "assistant"
  /\ has = SubSeq(ms, 1, st.cursor + 1)

\* Continued, a conversation becomes the transcript.
LEMMA ItemsContinue ==
  ASSUME NEW ms \in Seq(MessageType), NEW st, NEW has, Continued(st, ms, has)
  PROVE  has \o Items(st, ms) = ms /\ Current(st, ms) = st
  <1>1. /\ st.prev # 0 /\ st.cursor \in Nat /\ st.cursor < Len(ms)
        /\ SubSeq(ms, 1, st.cursor) = st.prefix
        /\ ms[st.cursor + 1].role = "assistant"
        /\ \A j \in DOMAIN ms : j > st.cursor + 1 => ms[j].text /\ ms[j].role # "assistant"
        /\ has = SubSeq(ms, 1, st.cursor + 1)
    BY DEF Continued
  <1>2. PICK m \in 0 .. Len(ms) : m = st.cursor + 1
    BY <1>1
  <1> DEFINE I == {i \in DOMAIN ms : i > st.cursor /\ ms[i].text
                                       /\ ~(st.prev # 0 /\ ms[i].role = "assistant")}
  <1>3. ASSUME NEW n \in 1 .. Len(ms) PROVE (n \in I) <=> (n > m)
    <2>1. n \in DOMAIN ms /\ n \in Nat /\ m \in Nat /\ m - 1 = st.cursor
      BY <1>1, <1>2
    <2>2. CASE n > m
      BY <1>1, <1>2, <2>1, <2>2
    <2>3. CASE n = m
      BY <1>1, <1>2, <2>1, <2>3
    <2>4. CASE n < m
      <3>1. ~(n > st.cursor)
        BY <1>1, <2>1, <2>4
      <3> QED
        BY <2>1, <2>4, <3>1
    <2> QED
      BY <2>1, <2>2, <2>3, <2>4
  <1>4. Items(st, ms) = Picked(ms, I)
    BY Zenon DEF Items
  <1> HIDE DEF I
  <1>5. Picked(ms, I) = SubSeq(ms, m + 1, Len(ms))
    BY <1>3, PickedTail
  <1>6. SubSeq(ms, 1, m) \o SubSeq(ms, m + 1, Len(ms)) = ms
    <2>1. PICK a \in Seq(MessageType), b \in Seq(MessageType) :
             a = SubSeq(ms, 1, m) /\ b = SubSeq(ms, m + 1, Len(ms))
      <3>1. SubSeq(ms, 1, m) \in Seq(MessageType)
        OBVIOUS
      <3>2. SubSeq(ms, m + 1, Len(ms)) \in Seq(MessageType)
        OBVIOUS
      <3> QED
        BY <3>1, <3>2
    <2>2. /\ Len(a) = m /\ \A x \in 1 .. m : a[x] = ms[x]
          /\ Len(b) = Len(ms) - m /\ \A x \in 1 .. Len(ms) - m : b[x] = ms[m + x]
      BY <2>1
    <2>3. PICK u \in Seq(MessageType) : u = a \o b
      <3>1. a \o b \in Seq(MessageType)
        BY <2>1
      <3> QED
        BY <3>1
    <2>4. /\ Len(u) = Len(a) + Len(b) /\ \A x \in 1 .. Len(a) : u[x] = a[x]
          /\ \A x \in Len(a) + 1 .. Len(a) + Len(b) : u[x] = b[x - Len(a)]
      BY <2>3
    <2>5. Len(u) = Len(ms)
      BY <2>2, <2>4
    <2>6. ASSUME NEW x \in 1 .. Len(u) PROVE u[x] = ms[x]
      <3>1. CASE x <= m
        BY <2>2, <2>4, <2>5, <3>1
      <3>2. CASE x > m
        <4>1. x \in m + 1 .. Len(ms) /\ x - m \in 1 .. Len(ms) - m /\ m + (x - m) = x
          BY <2>5, <3>2
        <4> QED
          BY <2>2, <2>4, <4>1
      <3> QED
        BY <3>1, <3>2
    <2>7. u = ms
      BY <2>5, <2>6, SeqEqual
    <2> QED
      BY <2>1, <2>3, <2>7
  <1>7. Current(st, ms) = st
    BY <1>1 DEF Current
  <1> QED
    BY <1>1, <1>2, <1>4, <1>5, <1>6, <1>7

-----------------------------------------------------------------------------
(* The transcript.                                                         *)

\* No message is of a later request than q.
Through(ms, q) ==
  \A i \in DOMAIN ms :
    /\ ms[i].role = "tool" => ms[i].id[1] <= q
    /\ \A k \in DOMAIN ms[i].calls : ms[i].calls[k].key[1] <= q

\* The calls of the last assistant turn are those of request q.
LastIs(ms, q) ==
  \A i \in DOMAIN ms :
    /\ ms[i].role = "assistant"
    /\ \A k \in DOMAIN ms : k > i => ms[k].role # "assistant"
    => \A k \in DOMAIN ms[i].calls : ms[i].calls[k].key[1] = q

\* A transcript up to the turn of request q.
Good(ms, q) == Lawful(ms) /\ Through(ms, q) /\ LastIs(ms, q)

\* Every call but those still open has a reply after it.
Owed(ms, open) ==
  \A i \in DOMAIN ms : \A k \in DOMAIN ms[i].calls :
    \/ ms[i].calls[k] \in open
    \/ \E j \in DOMAIN ms : j > i /\ ms[j].role = "tool" /\ ms[j].id = ms[i].calls[k].id

\* The provider's side of a conversation: it starts anew, or continues.
Provided(st, ms, has) == (st = Fresh /\ AllText(ms)) \/ Continued(st, ms, has)

\* What the loop keeps true of the transcript between two requests.
Fit(wire, ms, q, st, has, open) ==
  /\ Good(ms, q)
  /\ wire = "responses" => Owed(ms, open) /\ Provided(st, ms, has)

\* The members of a sequence with one more.
LEMMA Appended ==
  ASSUME NEW ms \in Seq(MessageType), NEW m \in MessageType, NEW new, new = Append(ms, m)
  PROVE  /\ new \in Seq(MessageType) /\ Len(ms) \in Nat /\ Len(new) = Len(ms) + 1
         /\ DOMAIN ms = 1 .. Len(ms) /\ DOMAIN new = 1 .. Len(ms) + 1
         /\ \A j \in DOMAIN ms : new[j] = ms[j] /\ j < Len(ms) + 1 /\ j \in DOMAIN new
         /\ new[Len(ms) + 1] = m
         /\ \A j \in DOMAIN new : j \in DOMAIN ms \/ j = Len(ms) + 1
  OBVIOUS

\* A transcript without a turn is one of any request.
LEMMA GoodAnew ==
  ASSUME NEW ms \in Seq(MessageType), NEW q,
         \A i \in DOMAIN ms : ms[i].role \in {"system", "user"} /\ ms[i].calls = <<>> /\ ms[i].text
  PROVE  Good(ms, q) /\ AllText(ms) /\ \A open : Owed(ms, open)
  <1>1. \A i \in DOMAIN ms : /\ ms[i].role # "tool" /\ ms[i].role # "assistant"
                             /\ DOMAIN ms[i].calls = {}
    OBVIOUS
  <1>2. Lawful(ms)
    BY <1>1 DEF Lawful, GoodMessage, InTurn
  <1> QED
    BY <1>1, <1>2 DEF Good, Through, LastIs, AllText, Owed

\* One message more that is no turn.
LEMMA GoodAppend ==
  ASSUME NEW q \in Nat, NEW ms, Good(ms, q), NEW m \in MessageType, GoodMessage(m),
         m.role # "assistant", m.role = "tool" => m.id[1] = q
  PROVE  Good(Append(ms, m), q)
  <1>1. ms \in Seq(MessageType)
    BY DEF Good, Lawful
  <1>2. PICK new : new = Append(ms, m)
    OBVIOUS
  <1>3. /\ new \in Seq(MessageType) /\ Len(ms) \in Nat
        /\ DOMAIN ms = 1 .. Len(ms) /\ DOMAIN new = 1 .. Len(ms) + 1
        /\ \A j \in DOMAIN ms : new[j] = ms[j] /\ j < Len(ms) + 1 /\ j \in DOMAIN new
        /\ new[Len(ms) + 1] = m
        /\ \A j \in DOMAIN new : j \in DOMAIN ms \/ j = Len(ms) + 1
    BY <1>1, <1>2, Appended
  <1> DEFINE L == Len(ms) + 1
  <1>4. \A i \in DOMAIN new : GoodMessage(new[i])
    BY <1>3 DEF Good, Lawful
  <1>5. m.calls = <<>> /\ DOMAIN m.calls = {}
    BY DEF GoodMessage
  <1>6. Through(new, q)
    BY <1>3, <1>5 DEF Good, Through
  <1>7. ASSUME NEW i \in DOMAIN new, new[i].role = "assistant"
        PROVE  i \in DOMAIN ms /\ ms[i] = new[i] /\ i < L
    BY <1>3, <1>7
  <1>8. LastIs(new, q)
    <2> SUFFICES ASSUME NEW i \in DOMAIN new, new[i].role = "assistant",
                        \A k \in DOMAIN new : k > i => new[k].role # "assistant"
                 PROVE  \A k \in DOMAIN new[i].calls : new[i].calls[k].key[1] = q
      BY DEF LastIs
    <2>1. \A k \in DOMAIN ms : k > i => ms[k].role # "assistant"
      BY <1>3
    <2>2. i \in DOMAIN ms /\ ms[i] = new[i]
      BY <1>7
    <2> QED
      BY <2>1, <2>2 DEF Good, LastIs
  <1>9. InTurn(new)
    <2> SUFFICES ASSUME NEW i \in DOMAIN new, NEW j \in DOMAIN new, i < j,
                        new[i].role = "assistant", new[j].role = "tool",
                        \A k \in i + 1 .. j : new[k].role # "assistant"
                 PROVE  \A k \in DOMAIN new[i].calls : new[j].id[1] = new[i].calls[k].key[1]
      BY DEF InTurn
    <2>1. i \in DOMAIN ms /\ ms[i] = new[i] /\ i < L
      BY <1>7
    <2>2. CASE j \in DOMAIN ms
      <3>1. \A k \in i + 1 .. j : k \in DOMAIN ms /\ ms[k].role # "assistant"
        BY <1>3, <2>1, <2>2
      <3>2. new[j] = ms[j]
        BY <1>3, <2>2
      <3> QED
        BY <2>1, <2>2, <3>1, <3>2 DEF Good, Lawful, InTurn
    <2>3. CASE j = L
      <3>1. \A k \in DOMAIN ms : k > i => ms[k].role # "assistant"
        BY <1>3, <2>1, <2>3
      <3>2. \A k \in DOMAIN ms[i].calls : ms[i].calls[k].key[1] = q
        BY <2>1, <3>1 DEF Good, LastIs
      <3>3. new[j].id[1] = q
        BY <1>3, <2>3
      <3> QED
        BY <2>1, <3>2, <3>3
    <2> QED
      BY <1>3, <2>2, <2>3
  <1> QED
    BY <1>2, <1>3, <1>4, <1>6, <1>8, <1>9 DEF Good, Lawful

\* The next turn.
LEMMA GoodTurn ==
  ASSUME NEW q \in Nat, NEW ms, Good(ms, q), NEW m \in MessageType, GoodMessage(m),
         m.role = "assistant", \A k \in DOMAIN m.calls : m.calls[k].key[1] = q + 1
  PROVE  Good(Append(ms, m), q + 1)
  <1>1. ms \in Seq(MessageType)
    BY DEF Good, Lawful
  <1>2. PICK new : new = Append(ms, m)
    OBVIOUS
  <1>3. /\ new \in Seq(MessageType) /\ Len(ms) \in Nat
        /\ DOMAIN ms = 1 .. Len(ms) /\ DOMAIN new = 1 .. Len(ms) + 1
        /\ \A j \in DOMAIN ms : new[j] = ms[j] /\ j < Len(ms) + 1 /\ j \in DOMAIN new
        /\ new[Len(ms) + 1] = m
        /\ \A j \in DOMAIN new : j \in DOMAIN ms \/ j = Len(ms) + 1
    BY <1>1, <1>2, Appended
  <1> DEFINE L == Len(ms) + 1
  <1>4. \A i \in DOMAIN new : GoodMessage(new[i])
    BY <1>3 DEF Good, Lawful
  <1>5. Through(new, q + 1)
    <2>1. ASSUME NEW i \in DOMAIN ms
          PROVE  /\ ms[i].role = "tool" => ms[i].id[1] <= q + 1
                 /\ \A k \in DOMAIN ms[i].calls : ms[i].calls[k].key[1] <= q + 1
      <3>1. PICK x \in MessageType : x = ms[i]
        BY <1>1
      <3>2. x.id[1] \in Nat /\ \A k \in DOMAIN x.calls : x.calls[k].key[1] \in Nat
        <4>1. x.id \in Key /\ x.calls \in Seq(CallType)
          BY DEF MessageType
        <4>2. \A k \in DOMAIN x.calls : x.calls[k] \in CallType
          BY <4>1
        <4>3. \A k \in DOMAIN x.calls : x.calls[k].key \in Key
          BY <4>2 DEF CallType
        <4> QED
          BY <4>1, <4>3 DEF Key
      <3>3. /\ x.role = "tool" => x.id[1] <= q
            /\ \A k \in DOMAIN x.calls : x.calls[k].key[1] <= q
        BY <3>1 DEF Good, Through
      <3> QED
        BY <3>1, <3>2, <3>3
    <2> QED
      BY <1>3, <2>1 DEF Through
  <1>6. LastIs(new, q + 1)
    BY <1>3 DEF LastIs
  <1>7. InTurn(new)
    <2> SUFFICES ASSUME NEW i \in DOMAIN new, NEW j \in DOMAIN new, i < j,
                        new[i].role = "assistant", new[j].role = "tool",
                        \A k \in i + 1 .. j : new[k].role # "assistant"
                 PROVE  \A k \in DOMAIN new[i].calls : new[j].id[1] = new[i].calls[k].key[1]
      BY DEF InTurn
    <2>1. j \in DOMAIN ms /\ i \in DOMAIN ms /\ ms[i] = new[i] /\ ms[j] = new[j]
      BY <1>3
    <2>2. \A k \in i + 1 .. j : k \in DOMAIN ms /\ ms[k].role # "assistant"
      BY <1>3, <2>1
    <2> QED
      BY <2>1, <2>2 DEF Good, Lawful, InTurn
  <1> QED
    BY <1>2, <1>3, <1>4, <1>5, <1>6, <1>7 DEF Good, Lawful

\* One message more may close calls, under whose id it replies.
LEMMA OwedAppend ==
  ASSUME NEW ms \in Seq(MessageType), NEW open, Owed(ms, open), NEW m \in MessageType,
         DOMAIN m.calls = {}, NEW left2,
         \A c \in open : c \in left2 \/ (m.role = "tool" /\ m.id = c.id)
  PROVE  Owed(Append(ms, m), left2)
  <1>1. PICK new : new = Append(ms, m)
    OBVIOUS
  <1>2. /\ DOMAIN ms = 1 .. Len(ms) /\ DOMAIN new = 1 .. Len(ms) + 1 /\ Len(ms) \in Nat
        /\ \A j \in DOMAIN ms : new[j] = ms[j] /\ j < Len(ms) + 1 /\ j \in DOMAIN new
        /\ new[Len(ms) + 1] = m
        /\ \A j \in DOMAIN new : j \in DOMAIN ms \/ j = Len(ms) + 1
    BY <1>1, Appended
  <1>3. ASSUME NEW i \in DOMAIN new, NEW k \in DOMAIN new[i].calls
        PROVE  \/ new[i].calls[k] \in left2
               \/ \E j \in DOMAIN new : j > i /\ new[j].role = "tool" /\ new[j].id = new[i].calls[k].id
    <2>1. i \in DOMAIN ms /\ new[i] = ms[i]
      BY <1>2, <1>3
    <2>2. PICK c : c = new[i].calls[k]
      OBVIOUS
    <2>3. c \in open \/ \E j \in DOMAIN ms : j > i /\ ms[j].role = "tool" /\ ms[j].id = c.id
      BY <2>1, <2>2 DEF Owed
    <2>4. CASE c \in open
      <3>1. c \in left2 \/ (m.role = "tool" /\ m.id = c.id)
        BY <2>4
      <3>2. i < Len(ms) + 1 /\ Len(ms) + 1 \in DOMAIN new /\ new[Len(ms) + 1] = m
        BY <1>2, <2>1
      <3> QED
        BY <2>2, <3>1, <3>2
    <2>5. CASE \E j \in DOMAIN ms : j > i /\ ms[j].role = "tool" /\ ms[j].id = c.id
      BY <1>2, <2>2, <2>5
    <2> QED
      BY <2>3, <2>4, <2>5
  <1> QED
    BY <1>1, <1>3 DEF Owed

\* A longer transcript begins as it did.
LEMMA SubSeqAppend ==
  ASSUME NEW ms \in Seq(MessageType), NEW m \in MessageType, NEW n \in 0 .. Len(ms)
  PROVE  SubSeq(Append(ms, m), 1, n) = SubSeq(ms, 1, n)
  <1>1. PICK new : new = Append(ms, m)
    OBVIOUS
  <1>2. new \in Seq(MessageType) /\ Len(new) = Len(ms) + 1 /\ \A j \in 1 .. Len(ms) : new[j] = ms[j]
    BY <1>1, Appended
  <1>3. PICK a \in Seq(MessageType), b \in Seq(MessageType) :
           a = SubSeq(new, 1, n) /\ b = SubSeq(ms, 1, n)
    <2>1. SubSeq(new, 1, n) \in Seq(MessageType)
      BY <1>2
    <2>2. SubSeq(ms, 1, n) \in Seq(MessageType)
      OBVIOUS
    <2> QED
      BY <2>1, <2>2, Zenon
  <1>4. Len(a) = n /\ Len(b) = n /\ \A x \in 1 .. n : a[x] = new[x] /\ b[x] = ms[x]
    BY <1>2, <1>3
  <1>5. ASSUME NEW x \in 1 .. Len(a) PROVE a[x] = b[x]
    <2>1. x \in 1 .. n /\ x \in 1 .. Len(ms)
      BY <1>4
    <2>2. a[x] = new[x] /\ b[x] = ms[x]
      BY <1>4, <2>1
    <2>3. new[x] = ms[x]
      BY <1>2, <2>1
    <2> QED
      BY <2>2, <2>3
  <1>6. a = b
    BY <1>4, <1>5, SeqEqual
  <1> QED
    BY <1>1, <1>3, <1>6

\* One message more that is text and no turn is still to be sent.
LEMMA ProvidedAppend ==
  ASSUME NEW ms \in Seq(MessageType), NEW st, NEW has, Provided(st, ms, has),
         NEW m \in MessageType, m.role # "assistant", m.text
  PROVE  Provided(st, Append(ms, m), has)
  <1>1. PICK new : new = Append(ms, m)
    OBVIOUS
  <1>2. /\ new \in Seq(MessageType) /\ Len(new) = Len(ms) + 1
        /\ DOMAIN ms = 1 .. Len(ms) /\ DOMAIN new = 1 .. Len(ms) + 1 /\ Len(ms) \in Nat
        /\ \A j \in DOMAIN ms : new[j] = ms[j] /\ j < Len(ms) + 1 /\ j \in DOMAIN new
        /\ new[Len(ms) + 1] = m
        /\ \A j \in DOMAIN new : j \in DOMAIN ms \/ j = Len(ms) + 1
    BY <1>1, Appended
  <1>3. CASE st = Fresh /\ AllText(ms)
    BY <1>1, <1>2, <1>3 DEF Provided, AllText
  <1>4. CASE Continued(st, ms, has)
    <2>1. /\ st.prev # 0 /\ st.cursor \in Nat /\ st.cursor < Len(ms)
          /\ SubSeq(ms, 1, st.cursor) = st.prefix
          /\ ms[st.cursor + 1].role = "assistant"
          /\ \A j \in DOMAIN ms : j > st.cursor + 1 => ms[j].text /\ ms[j].role # "assistant"
          /\ has = SubSeq(ms, 1, st.cursor + 1)
      BY <1>4 DEF Continued
    <2>2. st.cursor \in 0 .. Len(ms) /\ st.cursor + 1 \in 0 .. Len(ms) /\ st.cursor + 1 \in DOMAIN ms
      BY <1>2, <2>1
    <2>3. PICK a \in 0 .. Len(ms), b \in 0 .. Len(ms) : a = st.cursor /\ b = st.cursor + 1
      BY <2>2
    <2>4. SubSeq(new, 1, a) = SubSeq(ms, 1, a) /\ SubSeq(new, 1, b) = SubSeq(ms, 1, b)
      BY <1>1, SubSeqAppend
    <2>5. st.cursor < Len(new) /\ new[st.cursor + 1] = ms[st.cursor + 1]
      BY <1>2, <2>1, <2>2
    <2>6. ASSUME NEW j \in DOMAIN new, j > st.cursor + 1 PROVE new[j].text /\ new[j].role # "assistant"
      <3>1. CASE j \in DOMAIN ms
        BY <1>2, <2>1, <2>6, <3>1
      <3>2. CASE j = Len(ms) + 1
        BY <1>2, <3>2
      <3> QED
        BY <1>2, <3>1, <3>2
    <2>7. Continued(st, new, has)
      BY <2>1, <2>3, <2>4, <2>5, <2>6 DEF Continued
    <2> QED
      BY <1>1, <2>7 DEF Provided
  <1> QED
    BY <1>3, <1>4 DEF Provided

\* A transcript without a turn, and a conversation that starts anew.
LEMMA FitAnew ==
  ASSUME NEW ms \in Seq(MessageType), NEW q, NEW wire, NEW has, NEW open,
         \A i \in DOMAIN ms : ms[i].role \in {"system", "user"} /\ ms[i].calls = <<>> /\ ms[i].text
  PROVE  Fit(wire, ms, q, Fresh, has, open)
  BY GoodAnew DEF Fit, Provided

\* One message more that is no turn: a reply to the turn's request, or a text.
LEMMA FitAppend ==
  ASSUME NEW q \in Nat, NEW wire, NEW ms, NEW st, NEW has, NEW open, Fit(wire, ms, q, st, has, open),
         NEW m \in MessageType, GoodMessage(m), m.role # "assistant", m.text,
         m.role = "tool" => m.id[1] = q, NEW left2,
         wire = "responses" => \A c \in open : c \in left2 \/ (m.role = "tool" /\ m.id = c.id)
  PROVE  Fit(wire, Append(ms, m), q, st, has, left2)
  <1>1. Good(ms, q) /\ ms \in Seq(MessageType)
    BY DEF Fit, Good, Lawful
  <1>2. Good(Append(ms, m), q)
    BY <1>1, GoodAppend
  <1>3. DOMAIN m.calls = {}
    BY DEF GoodMessage
  <1>4. wire = "responses" => Owed(Append(ms, m), left2)
    BY <1>1, <1>3, OwedAppend DEF Fit
  <1>5. wire = "responses" => Provided(st, Append(ms, m), has)
    BY <1>1, ProvidedAppend DEF Fit
  <1> QED
    BY <1>2, <1>4, <1>5 DEF Fit

\* The answer to request q + 1: the provider has its turn.
LEMMA FitTurn ==
  ASSUME NEW q \in Nat, NEW wire, NEW ms, Good(ms, q),
         NEW lost, wire = "responses" => Owed(ms, lost),
         NEW m \in MessageType, GoodMessage(m), m.role = "assistant",
         \A k \in DOMAIN m.calls : m.calls[k].key[1] = q + 1,
         NEW open, lost \subseteq open, \A k \in DOMAIN m.calls : m.calls[k] \in open,
         NEW st, NEW has,
         wire = "responses" => /\ st = [prev |-> q + 1, cursor |-> Len(ms), prefix |-> ms]
                               /\ has = Append(ms, m)
  PROVE  Fit(wire, Append(ms, m), q + 1, st, has, open)
  <1>1. ms \in Seq(MessageType)
    BY DEF Good, Lawful
  <1>2. Good(Append(ms, m), q + 1)
    BY GoodTurn
  <1>3. PICK new : new = Append(ms, m)
    OBVIOUS
  <1>4. /\ new \in Seq(MessageType) /\ Len(new) = Len(ms) + 1
        /\ DOMAIN ms = 1 .. Len(ms) /\ DOMAIN new = 1 .. Len(ms) + 1 /\ Len(ms) \in Nat
        /\ \A j \in DOMAIN ms : new[j] = ms[j] /\ j < Len(ms) + 1 /\ j \in DOMAIN new
        /\ new[Len(ms) + 1] = m
        /\ \A j \in DOMAIN new : j \in DOMAIN ms \/ j = Len(ms) + 1
    BY <1>1, <1>3, Appended
  <1> SUFFICES ASSUME wire = "responses" PROVE Owed(new, open) /\ Provided(st, new, has)
    BY <1>2, <1>3 DEF Fit
  <1>5. Owed(new, open)
    <2>1. ASSUME NEW i \in DOMAIN new, NEW k \in DOMAIN new[i].calls
          PROVE  \/ new[i].calls[k] \in open
                 \/ \E j \in DOMAIN new : j > i /\ new[j].role = "tool" /\ new[j].id = new[i].calls[k].id
      <3>1. CASE i = Len(ms) + 1
        BY <1>4, <2>1, <3>1
      <3>2. CASE i \in DOMAIN ms
        <4>1. \/ ms[i].calls[k] \in lost
              \/ \E j \in DOMAIN ms : j > i /\ ms[j].role = "tool" /\ ms[j].id = ms[i].calls[k].id
          BY <1>4, <2>1, <3>2 DEF Owed
        <4>2. CASE ms[i].calls[k] \in lost
          BY <1>4, <3>2, <4>2
        <4>3. CASE \E j \in DOMAIN ms : j > i /\ ms[j].role = "tool" /\ ms[j].id = ms[i].calls[k].id
          BY <1>4, <3>2, <4>3
        <4> QED
          BY <4>1, <4>2, <4>3
      <3> QED
        BY <1>4, <2>1, <3>1, <3>2
    <2> QED
      BY <2>1 DEF Owed
  <1>6. st.prev # 0 /\ st.cursor = Len(ms) /\ st.prefix = ms /\ has = new
    BY <1>3
  <1>7. SubSeq(new, 1, Len(ms)) = ms
    <2>1. PICK n \in 0 .. Len(ms) : n = Len(ms)
      BY <1>4
    <2>2. SubSeq(new, 1, n) = SubSeq(ms, 1, n)
      BY <1>1, <1>3, SubSeqAppend
    <2>3. SubSeq(ms, 1, Len(ms)) = ms
      BY <1>1
    <2> QED
      BY <2>1, <2>2, <2>3
  <1>8. SubSeq(new, 1, Len(ms) + 1) = new
    BY <1>4
  <1>9. \A j \in DOMAIN new : ~(j > Len(ms) + 1)
    BY <1>4
  <1>10. Continued(st, new, has)
    BY <1>4, <1>6, <1>7, <1>8, <1>9 DEF Continued
  <1> QED
    BY <1>5, <1>10 DEF Provided

\* What the response owes is shown: by a message that is no reply, or by the reply to
\* its only call.
DueKept(ms, d) ==
  /\ \A key \in d.keys :
       \/ \E i \in DOMAIN ms : ms[i].role # "tool" /\ key \in ms[i].shows
       \/ \E i \in DOMAIN ms : SingleCall(ms, key, i)
  /\ d.warn => \E i \in DOMAIN ms : ms[i].role # "tool" /\ ms[i].warn

\* It is in the last n messages.
Recent(ms, d, n) ==
  /\ \A key \in d.keys : \E i \in DOMAIN ms : i > Len(ms) - n /\ key \in ms[i].shows
  /\ d.warn => \E i \in DOMAIN ms : i > Len(ms) - n /\ ms[i].warn

\* Nothing due is kept by every transcript.
LEMMA NothingKept == ASSUME NEW ms, NEW n PROVE DueKept(ms, NothingDue) /\ Recent(ms, NothingDue, n)
  BY DEF DueKept, Recent, NothingDue

\* A text after it leaves the only call the last.
LEMMA SingleCallStays ==
  ASSUME NEW ms \in Seq(MessageType), NEW m \in MessageType, m.role \notin {"tool", "assistant"},
         NEW key, NEW i, SingleCall(ms, key, i)
  PROVE  SingleCall(Append(ms, m), key, i)
  <1>1. PICK new : new = Append(ms, m)
    OBVIOUS
  <1>2. /\ new \in Seq(MessageType) /\ Len(new) = Len(ms) + 1
        /\ DOMAIN ms = 1 .. Len(ms) /\ DOMAIN new = 1 .. Len(ms) + 1 /\ Len(ms) \in Nat
        /\ \A j \in DOMAIN ms : new[j] = ms[j] /\ j < Len(ms) + 1 /\ j \in DOMAIN new
        /\ new[Len(ms) + 1] = m
        /\ \A j \in DOMAIN new : j \in DOMAIN ms \/ j = Len(ms) + 1
    BY <1>1, Appended
  <1>3. /\ i \in DOMAIN ms /\ i + 1 \in DOMAIN ms
        /\ ms[i].role = "assistant" /\ Len(ms[i].calls) = 1
        /\ ms[i].calls[1].kind = "ok" /\ ms[i].calls[1].key = key
        /\ ms[i + 1].role = "tool" /\ key \in ms[i + 1].shows
        /\ ms[i + 1].id = IF ms[i].calls[1].id = NoId THEN Fallback(key[1]) ELSE ms[i].calls[1].id
    BY DEF SingleCall
  <1>4. \A j \in DOMAIN ms :
          /\ j > i + 1 => ms[j].role \notin {"tool", "assistant"}
          /\ j < i => /\ ms[j].role = "tool" => ms[j].id[1] # key[1]
                      /\ \A k \in DOMAIN ms[j].calls : ms[j].calls[k].key[1] # key[1]
    BY DEF SingleCall
  <1>5. ASSUME NEW j \in DOMAIN new
        PROVE  /\ j > i + 1 => new[j].role \notin {"tool", "assistant"}
               /\ j < i => /\ new[j].role = "tool" => new[j].id[1] # key[1]
                           /\ \A k \in DOMAIN new[j].calls : new[j].calls[k].key[1] # key[1]
    <2>1. CASE j \in DOMAIN ms
      <3>1. new[j] = ms[j]
        BY <1>2, <2>1
      <3> QED
        BY <1>4, <2>1, <3>1
    <2>2. CASE j = Len(ms) + 1
      BY <1>2, <1>3, <2>2
    <2> QED
      BY <1>2, <2>1, <2>2
  <1>6. i \in DOMAIN new /\ i + 1 \in DOMAIN new /\ new[i] = ms[i] /\ new[i + 1] = ms[i + 1]
    BY <1>2, <1>3
  <1> QED
    BY <1>1, <1>3, <1>5, <1>6 DEF SingleCall

\* So what is due is kept, and one place further back.
LEMMA DueAppend ==
  ASSUME NEW ms \in Seq(MessageType), NEW m \in MessageType, m.role \notin {"tool", "assistant"},
         NEW d, NEW n \in Nat
  PROVE  /\ DueKept(ms, d) => DueKept(Append(ms, m), d)
         /\ Recent(ms, d, n) => Recent(Append(ms, m), d, n + 1)
  <1>1. PICK new : new = Append(ms, m)
    OBVIOUS
  <1>2. /\ new \in Seq(MessageType) /\ Len(new) = Len(ms) + 1
        /\ DOMAIN ms = 1 .. Len(ms) /\ DOMAIN new = 1 .. Len(ms) + 1 /\ Len(ms) \in Nat
        /\ \A j \in DOMAIN ms : new[j] = ms[j] /\ j < Len(ms) + 1 /\ j \in DOMAIN new
    BY <1>1, Appended
  <1>3. ASSUME DueKept(ms, d) PROVE DueKept(new, d)
    <2>1. ASSUME NEW key \in d.keys
          PROVE  \/ \E i \in DOMAIN new : new[i].role # "tool" /\ key \in new[i].shows
                 \/ \E i \in DOMAIN new : SingleCall(new, key, i)
      <3>1. CASE \E i \in DOMAIN ms : ms[i].role # "tool" /\ key \in ms[i].shows
        BY <1>2, <3>1
      <3>2. CASE \E i \in DOMAIN ms : SingleCall(ms, key, i)
        <4>1. PICK i \in DOMAIN ms : SingleCall(ms, key, i)
          BY <3>2
        <4>2. SingleCall(new, key, i) /\ i \in DOMAIN new
          BY <1>1, <1>2, <4>1, SingleCallStays
        <4> QED
          BY <4>2
      <3> QED
        BY <1>3, <3>1, <3>2 DEF DueKept
    <2>2. d.warn => \E i \in DOMAIN new : new[i].role # "tool" /\ new[i].warn
      <3>1. d.warn => \E i \in DOMAIN ms : ms[i].role # "tool" /\ ms[i].warn
        BY <1>3 DEF DueKept
      <3> QED
        BY <1>2, <3>1
    <2> QED
      BY <2>1, <2>2 DEF DueKept
  <1>4. ASSUME Recent(ms, d, n) PROVE Recent(new, d, n + 1)
    <2>1. \A i \in DOMAIN ms : i > Len(ms) - n => i > Len(new) - (n + 1)
      BY <1>2
    <2>2. \A key \in d.keys : \E i \in DOMAIN new : i > Len(new) - (n + 1) /\ key \in new[i].shows
      BY <1>2, <1>4, <2>1 DEF Recent
    <2>3. d.warn => \E i \in DOMAIN new : i > Len(new) - (n + 1) /\ new[i].warn
      <3>1. d.warn => \E i \in DOMAIN ms : i > Len(ms) - n /\ ms[i].warn
        BY <1>4 DEF Recent
      <3> QED
        BY <1>2, <2>1, <3>1
    <2> QED
      BY <2>2, <2>3 DEF Recent
  <1> QED
    BY <1>1, <1>3, <1>4

\* The summary of a long transcript shows what its last six messages did.
LEMMA SummaryKeeps ==
  ASSUME NEW ms \in Seq(MessageType), NEW d, Recent(ms, d, 6)
  PROVE  /\ <<System, Summary(ms)>> \in Seq(MessageType)
         /\ \A i \in DOMAIN <<System, Summary(ms)>> :
              LET m == <<System, Summary(ms)>>[i] IN
                m.role \in {"system", "user"} /\ m.calls = <<>> /\ m.text
         /\ DueKept(<<System, Summary(ms)>>, d)
  <1> DEFINE recent == {ms[i] : i \in {j \in DOMAIN ms : j > Len(ms) - 6}}
  <1>1. \A m \in recent : m \in MessageType
    OBVIOUS
  <1>2. PICK shows \in SUBSET Key : shows = UNION {m.shows : m \in recent}
    <2>1. \A m \in recent : m.shows \subseteq Key
      BY <1>1 DEF MessageType
    <2> HIDE DEF recent
    <2> QED
      BY <2>1
  <1>3. PICK warn \in BOOLEAN : warn = (\E m \in recent : m.warn)
    OBVIOUS
  <1>4. Summary(ms) = User(shows, warn)
    BY <1>2, <1>3 DEF Summary
  <1>5. PICK u : u = Summary(ms)
    OBVIOUS
  <1>6. /\ u \in MessageType /\ u.role = "user" /\ u.calls = <<>> /\ u.text
        /\ u.shows = shows /\ u.warn = warn
    BY <1>4, <1>5, UserIs
  <1>7. PICK s : s = System
    OBVIOUS
  <1>8. s \in MessageType /\ s.role = "system" /\ s.calls = <<>> /\ s.text
    BY <1>7, SystemIs
  <1>9. <<s, u>> \in Seq(MessageType) /\ DOMAIN <<s, u>> = {1, 2} /\ <<s, u>>[1] = s /\ <<s, u>>[2] = u
    BY <1>6, <1>8
  <1>10. \A i \in DOMAIN <<s, u>> :
           <<s, u>>[i].role \in {"system", "user"} /\ <<s, u>>[i].calls = <<>> /\ <<s, u>>[i].text
    BY <1>6, <1>8, <1>9
  <1>11. \A key \in d.keys : key \in u.shows
    <2> SUFFICES ASSUME NEW key \in d.keys PROVE key \in shows
      BY <1>6
    <2>1. PICK i \in DOMAIN ms : i > Len(ms) - 6 /\ key \in ms[i].shows
      BY DEF Recent
    <2>2. ms[i] \in recent
      BY <2>1
    <2> HIDE DEF recent
    <2> QED
      BY <1>2, <2>1, <2>2
  <1>12. d.warn => u.warn
    <2> SUFFICES ASSUME d.warn PROVE warn
      BY <1>6
    <2>1. PICK i \in DOMAIN ms : i > Len(ms) - 6 /\ ms[i].warn
      BY DEF Recent
    <2>2. ms[i] \in recent
      BY <2>1
    <2> HIDE DEF recent
    <2> QED
      BY <1>3, <2>1, <2>2
  <1>13. DueKept(<<s, u>>, d)
    <2>1. 2 \in DOMAIN <<s, u>> /\ <<s, u>>[2].role # "tool" /\ <<s, u>>[2].shows = u.shows
          /\ <<s, u>>[2].warn = u.warn
      BY <1>6, <1>9
    <2>2. \A key \in d.keys : \E i \in DOMAIN <<s, u>> : <<s, u>>[i].role # "tool" /\ key \in <<s, u>>[i].shows
      BY <1>11, <2>1
    <2>3. d.warn => \E i \in DOMAIN <<s, u>> : <<s, u>>[i].role # "tool" /\ <<s, u>>[i].warn
      BY <1>12, <2>1
    <2> QED
      BY <2>2, <2>3 DEF DueKept
  <1> QED
    BY <1>5, <1>7, <1>9, <1>10, <1>13

\* A transcript, compacted when it is long, is fit and keeps what is due.
LEMMA CompactedFit ==
  ASSUME NEW q, NEW wire, NEW ms, NEW st, NEW has, NEW open, Fit(wire, ms, q, st, has, open),
         NEW d, DueKept(ms, d), Recent(ms, d, 6)
  PROVE  /\ Fit(wire, Compacted(ms), q, IF TooLong(ms) THEN Fresh ELSE st, has, open)
         /\ DueKept(Compacted(ms), d)
  <1>1. ms \in Seq(MessageType)
    BY DEF Fit, Good, Lawful
  <1>2. CASE TooLong(ms)
    <2>1. PICK new : new = <<System, Summary(ms)>>
      OBVIOUS
    <2>2. new \in Seq(MessageType) /\ DueKept(new, d)
      BY <1>1, <2>1, SummaryKeeps
    <2>3. \A i \in DOMAIN new :
            new[i].role \in {"system", "user"} /\ new[i].calls = <<>> /\ new[i].text
      BY <1>1, <2>1, SummaryKeeps
    <2>4. Fit(wire, new, q, Fresh, has, open)
      BY <2>2, <2>3, FitAnew
    <2> QED
      BY <1>2, <2>1, <2>2, <2>4 DEF Compacted
  <1>3. CASE ~TooLong(ms)
    BY <1>3 DEF Compacted
  <1> QED
    BY <1>2, <1>3

-----------------------------------------------------------------------------
(* The calls of a response.                                                *)

\* The calls cs of request q that are still to be handled; with the Responses API
\* they are function calls, whose ids the transport has checked.
LeftGood(wire, native, text, cs, q) ==
  /\ Len(cs) >= 1
  /\ \A k \in DOMAIN cs : GoodCall(cs[k]) /\ cs[k].key = <<q, cs[1].key[2] + (k - 1)>>
  /\ wire = "responses" /\ ~text =>
       native /\ \A k \in DOMAIN cs : cs[k].kind \in {"ok", "badargs", "nameless"} /\ cs[k].id # NoId

\* Before the first call is handled the turn is the last message, and no earlier one
\* is of its request.
Opened(ms, cs, q) ==
  /\ Len(ms) >= 1 /\ ms[Len(ms)] = Assistant(cs, FALSE)
  /\ \A j \in DOMAIN ms : j < Len(ms) =>
       /\ ms[j].role = "tool" => ms[j].id[1] # q
       /\ \A k \in DOMAIN ms[j].calls : ms[j].calls[k].key[1] # q

\* The first of the calls.
LEMMA HeadIs ==
  ASSUME NEW cs \in Seq(CallType), NEW wire, NEW native, NEW text, NEW q \in Nat \ {0},
         LeftGood(wire, native, text, cs, q), NEW c, c = Head(cs)
  PROVE  /\ c \in CallType /\ GoodCall(c) /\ c = cs[1] /\ c.key = <<q, c.key[2]>>
         /\ c.key \in Key /\ c.key[1] = q
         /\ wire = "responses" /\ ~text => native /\ c.kind \in {"ok", "badargs", "nameless"} /\ c.id # NoId
  <1>1. Len(cs) >= 1 /\ Len(cs) \in Nat
    BY DEF LeftGood
  <1>2. 1 \in DOMAIN cs /\ c = cs[1]
    BY <1>1
  <1>3. c \in CallType
    BY <1>2
  <1>4. c.key = <<q, c.key[2] + (1 - 1)>> /\ GoodCall(c)
    BY <1>2 DEF LeftGood
  <1>5. c.key \in Key /\ c.key[2] \in Nat
    BY <1>3 DEF CallType, Key
  <1>6. c.key = <<q, c.key[2]>>
    BY <1>4, <1>5
  <1>7. wire = "responses" /\ ~text => native /\ c.kind \in {"ok", "badargs", "nameless"} /\ c.id # NoId
    BY <1>2 DEF LeftGood
  <1> QED
    BY <1>2, <1>3, <1>4, <1>5, <1>6, <1>7

\* The others.
LEMMA TailIs ==
  ASSUME NEW cs \in Seq(CallType), NEW wire, NEW native, NEW text, NEW q \in Nat \ {0},
         LeftGood(wire, native, text, cs, q)
  PROVE  /\ Tail(cs) \in Seq(CallType) /\ Len(Tail(cs)) = Len(cs) - 1
         /\ Len(cs) = 1 => Tail(cs) = <<>>
         /\ \A c \in ToSet(cs) : c \in ToSet(Tail(cs)) \/ c = Head(cs)
         /\ Len(cs) # 1 => LeftGood(wire, native, text, Tail(cs), q) /\ Tail(cs)[1].key[2] # 1
  <1>1. Len(cs) >= 1 /\ Len(cs) \in Nat /\ cs # <<>> /\ Head(cs) = cs[1]
    BY DEF LeftGood
  <1>2. PICK t \in Seq(CallType) : t = Tail(cs)
    <2>1. Tail(cs) \in Seq(CallType)
      BY <1>1
    <2> QED
      BY <2>1
  <1>3. Len(t) = Len(cs) - 1 /\ \A k \in 1 .. Len(t) : t[k] = cs[k + 1] /\ k + 1 \in DOMAIN cs
    BY <1>1, <1>2
  <1>4. Len(cs) = 1 => t = <<>>
    BY <1>3
  <1>5. ASSUME NEW c \in ToSet(cs) PROVE c \in ToSet(t) \/ c = cs[1]
    <2>1. PICK k \in DOMAIN cs : c = cs[k]
      BY DEF ToSet
    <2>2. CASE k = 1
      BY <2>1, <2>2
    <2>3. CASE k # 1
      <3>1. k - 1 \in 1 .. Len(t) /\ (k - 1) + 1 = k
        BY <1>1, <1>3, <2>3
      <3>2. t[k - 1] = c
        BY <1>3, <2>1, <3>1
      <3> QED
        BY <3>1, <3>2 DEF ToSet
    <2> QED
      BY <2>2, <2>3
  <1>6. ASSUME Len(cs) # 1 PROVE LeftGood(wire, native, text, t, q) /\ t[1].key[2] # 1
    <2>1. Len(t) >= 1 /\ Len(t) \in Nat /\ 1 \in DOMAIN cs /\ 2 \in DOMAIN cs /\ t[1] = cs[2]
      BY <1>1, <1>3, <1>6
    <2>2. PICK n \in Nat \ {0} : n = cs[1].key[2]
      BY <2>1 DEF LeftGood, GoodCall
    <2>3. \A k \in DOMAIN cs : GoodCall(cs[k]) /\ cs[k].key = <<q, n + (k - 1)>>
      BY <2>2 DEF LeftGood
    <2>4. cs[2].key = <<q, n + 1>>
      <3>1. n + (2 - 1) = n + 1
        BY <2>2
      <3> QED
        BY <2>1, <2>3, <3>1
    <2>5. t[1].key[2] = n + 1
      BY <2>1, <2>4
    <2>6. ASSUME NEW k \in DOMAIN t PROVE GoodCall(t[k]) /\ t[k].key = <<q, t[1].key[2] + (k - 1)>>
      <3>1. k \in 1 .. Len(t) /\ k + 1 \in DOMAIN cs /\ t[k] = cs[k + 1] /\ k \in Nat
        BY <1>3
      <3>2. GoodCall(t[k]) /\ t[k].key = <<q, n + ((k + 1) - 1)>>
        BY <2>3, <3>1
      <3>3. n + ((k + 1) - 1) = (n + 1) + (k - 1)
        BY <3>1
      <3> QED
        BY <2>5, <3>2, <3>3
    <2>7. wire = "responses" /\ ~text =>
            native /\ \A k \in DOMAIN t : t[k].kind \in {"ok", "badargs", "nameless"} /\ t[k].id # NoId
      <3>1. \A k \in DOMAIN t : k + 1 \in DOMAIN cs /\ t[k] = cs[k + 1]
        BY <1>3
      <3> QED
        BY <3>1 DEF LeftGood
    <2>8. LeftGood(wire, native, text, t, q)
      BY <2>1, <2>6, <2>7 DEF LeftGood
    <2>9. n + 1 # 1
      BY <2>2
    <2> QED
      BY <2>5, <2>8, <2>9
  <1> QED
    BY <1>1, <1>2, <1>3, <1>4, <1>5, <1>6

\* The calls a response may hold.
LEMMA CallsAre ==
  ASSUME requests \in Nat \ {0}, MaxCalls \in Nat,
         NEW kinds \in SUBSET {"ok", "badargs", "nameless", "bare"}, NEW ids \in SUBSET BOOLEAN,
         NEW cs \in Calls(kinds, ids)
  PROVE  /\ cs \in Seq(CallType) /\ Len(cs) \in 1 .. MaxCalls
         /\ \A k \in DOMAIN cs :
              /\ GoodCall(cs[k]) /\ cs[k].key = <<requests, k>> /\ cs[k].kind \in kinds
              /\ FALSE \notin ids => cs[k].id # NoId
  <1>0. PICK n \in 1 .. MaxCalls :
           cs \in {[i \in 1 .. n |-> Call(requests, i, id[i], kind[i])] :
                    id \in [1 .. n -> ids], kind \in [1 .. n -> kinds]}
    <2> DEFINE OfLength(n) == {[i \in 1 .. n |-> Call(requests, i, id[i], kind[i])] :
                                id \in [1 .. n -> ids], kind \in [1 .. n -> kinds]}
    <2>1. cs \in UNION {OfLength(n) : n \in 1 .. MaxCalls}
      BY DEF Calls
    <2>2. \E n \in 1 .. MaxCalls : cs \in OfLength(n)
      <3> HIDE DEF OfLength
      <3> QED
        BY <2>1
    <2> QED
      BY <2>2
  <1>1. PICK id \in [1 .. n -> ids], kind \in [1 .. n -> kinds] :
           cs = [i \in 1 .. n |-> Call(requests, i, id[i], kind[i])]
    BY <1>0
  <1>2. n \in Nat /\ DOMAIN cs = 1 .. n
    BY <1>1
  <1>3. ASSUME NEW k \in 1 .. n
        PROVE  /\ cs[k] \in CallType /\ GoodCall(cs[k]) /\ cs[k].key = <<requests, k>>
               /\ cs[k].kind \in kinds
               /\ FALSE \notin ids => cs[k].id # NoId
    <2>1. PICK b \in ids : b = id[k]
      BY <1>1
    <2>2. PICK d \in kinds : d = kind[k]
      BY <1>1
    <2>3. cs[k] = Call(requests, k, b, d)
      BY <1>1, <2>1, <2>2
    <2>4. PICK x : x = cs[k]
      OBVIOUS
    <2>5. x = [key |-> <<requests, k>>, id |-> IF b THEN <<requests, k>> ELSE NoId, kind |-> d]
      BY <2>3, <2>4 DEF Call
    <2>6. x.key = <<requests, k>> /\ x.kind = d /\ x.id = IF b THEN <<requests, k>> ELSE NoId
      BY <2>5
    <2>7. <<requests, k>> \in Key /\ NoId \in Key /\ <<requests, k>> # NoId /\ k \in Nat \ {0}
      BY DEF Key, NoId
    <2>8. x \in CallType
      BY <2>5, <2>7 DEF CallType
    <2>9. GoodCall(x)
      BY <2>6, <2>7 DEF GoodCall
    <2>10. FALSE \notin ids => x.id # NoId
      <3>1. b = TRUE \/ b = FALSE
        OBVIOUS
      <3> QED
        BY <2>1, <2>6, <2>7, <3>1
    <2> QED
      BY <2>4, <2>6, <2>8, <2>9, <2>10
  <1>4. cs \in Seq(CallType) /\ Len(cs) = n
    <2>1. cs \in [1 .. n -> CallType]
      BY <1>1, <1>3
    <2> QED
      BY <1>2, <2>1
  <1>5. Len(cs) \in 1 .. MaxCalls
    BY <1>4
  <1>6. \A k \in DOMAIN cs :
          /\ GoodCall(cs[k]) /\ cs[k].key = <<requests, k>> /\ cs[k].kind \in kinds
          /\ FALSE \notin ids => cs[k].id # NoId
    BY <1>2, <1>3
  <1> QED
    BY <1>4, <1>5, <1>6

-----------------------------------------------------------------------------
(* The inductive invariant.                                                *)

Open == IF textual THEN {} ELSE ToSet(left)

\* What may stay without a reply for good: nothing, or the one nameless call that the
\* correction was spent on.
Lost(spent) == {{}} \cup {{c} : c \in {d \in CallType : spent /\ d.kind = "nameless"}}

Basic ==
  /\ conf \in Configs
  /\ pc \in {"top", "waiting", "calls", "done"}
  /\ requests \in 0 .. MaxRequests
  /\ left \in Seq(CallType) /\ Len(left) <= MaxCalls
  /\ textual \in BOOLEAN /\ corrected \in BOOLEAN /\ pending \in BOOLEAN
  /\ state.cursor = Len(state.prefix)
  /\ Lawful(messages)

\* Before a request the transcript is fit and shows what is due.
AtTop ==
  /\ left = <<>>
  /\ \E lost \in Lost(corrected) : Fit(conf.wire, messages, requests, state, sent, lost)
  /\ DueKept(messages, due)

\* A request holds the transcript, in the order the wire asks for.
Waiting ==
  /\ left = <<>> /\ requests # 0
  /\ Good(messages, requests - 1)
  /\ \E lost \in Lost(corrected) : conf.wire = "responses" => Owed(messages, lost)
  /\ sent = IF conf.wire = "chat" THEN Sanitize(messages) ELSE messages
  /\ DueKept(messages, due)

\* The calls still to be handled and the lost one are the only ones without a reply.
Handling ==
  /\ requests # 0
  /\ LeftGood(conf.wire, conf.native, textual, left, requests)
  /\ \E lost \in Lost(corrected) :
       Fit(conf.wire, messages, requests, state, sent, Open \cup lost)
  /\ ~textual /\ left[1].key[2] = 1 => Opened(messages, left, requests)
  /\ due = NothingDue

IInv ==
  /\ Basic
  /\ pc = "top" => AtTop
  /\ pc = "waiting" => Waiting
  /\ pc = "calls" => Handling

\* What the assumption says of a configuration and of the bounds.
LEMMA Bounds ==
  ASSUME conf \in Configs
  PROVE  /\ MaxRequests \in Nat /\ MaxCalls \in Nat
         /\ conf.wire \in {"chat", "responses"} /\ conf.native \in BOOLEAN
  BY TranscriptAssumption DEF Config

\* A text of the loop.
LEMMA UserFit ==
  ASSUME NEW q \in Nat, NEW wire, NEW ms, NEW st, NEW has, NEW open, Fit(wire, ms, q, st, has, open),
         NEW shows \in SUBSET Key, NEW warn \in BOOLEAN
  PROVE  Fit(wire, Append(ms, User(shows, warn)), q, st, has, open)
  <1>1. PICK m : m = User(shows, warn)
    OBVIOUS
  <1>2. m \in MessageType /\ m.role = "user" /\ m.calls = <<>> /\ m.text
    BY <1>1, UserIs
  <1>3. GoodMessage(m)
    BY <1>2 DEF GoodMessage
  <1>4. m.role # "assistant" /\ m.role # "tool"
    BY <1>2
  <1>5. Fit(wire, Append(ms, m), q, st, has, open)
    BY <1>2, <1>3, <1>4, FitAppend
  <1> QED
    BY <1>1, <1>5

\* The first messages.
LEMMA InitHolds == ASSUME Init PROVE IInv
  <1>1. PICK s : s = System
    OBVIOUS
  <1>2. s \in MessageType /\ s.role = "system" /\ s.calls = <<>> /\ s.text
    BY <1>1, SystemIs
  <1>3. PICK u : u = User({}, FALSE)
    OBVIOUS
  <1>4. u \in MessageType /\ u.role = "user" /\ u.calls = <<>> /\ u.text
    BY <1>3, UserIs
  <1>5. PICK ms \in Seq(MessageType) : ms = <<s, u>>
    <2>1. <<s, u>> \in Seq(MessageType)
      BY <1>2, <1>4
    <2> QED
      BY <2>1
  <1>6. \A i \in DOMAIN ms : ms[i].role \in {"system", "user"} /\ ms[i].calls = <<>> /\ ms[i].text
    BY <1>2, <1>4, <1>5
  <1>7. Fit(conf.wire, ms, 0, Fresh, sent, {})
    BY <1>6, FitAnew
  <1>8. messages = ms
    BY <1>1, <1>3, <1>5 DEF Init
  <1>9. Lawful(messages)
    BY <1>7, <1>8 DEF Fit, Good
  <1>10. DueKept(messages, due)
    BY NothingKept DEF Init
  <1>11. state.cursor = Len(state.prefix)
    BY DEF Init, Fresh
  <1>12. AtTop
    BY <1>7, <1>8, <1>10 DEF AtTop, Lost, Init
  <1>13. Basic
    <2>1. MaxRequests \in Nat /\ MaxCalls \in Nat
      BY Bounds DEF Init
    <2>2. 0 \in 0 .. MaxRequests /\ <<>> \in Seq(CallType) /\ Len(<<>>) <= MaxCalls
      BY <2>1
    <2>3. /\ conf \in Configs /\ pc = "top" /\ requests = 0 /\ left = <<>>
          /\ textual = FALSE /\ corrected = FALSE /\ pending = FALSE
      BY DEF Init
    <2> QED
      BY <1>9, <1>11, <2>2, <2>3 DEF Basic
  <1> QED
    BY <1>12, <1>13 DEF IInv, Init

\* The request: what a provider that continues the conversation gets is the rest.
LEMMA AskHolds == ASSUME IInv, Ask PROVE IInv'
  <1>1. /\ pc = "top" /\ requests < MaxRequests /\ pc' = "waiting" /\ requests' = requests + 1
        /\ UNCHANGED <<conf, messages, left, textual, corrected, pending, due>>
    BY DEF Ask
  <1>2. Basic /\ AtTop
    BY <1>1 DEF IInv
  <1>3. /\ MaxRequests \in Nat /\ requests \in Nat /\ conf.wire \in {"chat", "responses"}
        /\ messages \in Seq(MessageType)
    BY <1>2, Bounds DEF Basic, Lawful
  <1>4. ASSUME conf.wire = "chat" PROVE sent' = Sanitize(messages) /\ state' = state
    BY <1>4 DEF Ask
  <1>5. ASSUME conf.wire = "responses" PROVE sent' = messages /\ state' = state
    <2>1. /\ sent' = (IF Current(state, messages).prev # 0 THEN sent ELSE <<>>)
                       \o Items(Current(state, messages), messages)
          /\ state' = Current(state, messages)
      BY <1>5, Zenon DEF Ask
    <2>2. Provided(state, messages, sent)
      <3>1. PICK lost : Fit(conf.wire, messages, requests, state, sent, lost)
        BY <1>2 DEF AtTop
      <3> QED
        BY <1>5, <3>1 DEF Fit
    <2>3. CASE state = Fresh /\ AllText(messages)
      <3>1. Current(state, messages) = Fresh
        BY <2>3 DEF Current
      <3>2. Items(Fresh, messages) = messages
        BY <1>3, <2>3, ItemsFresh
      <3>3. Fresh.prev = 0
        BY DEF Fresh
      <3>4. sent' = <<>> \o messages
        BY <2>1, <3>1, <3>2, <3>3
      <3>5. <<>> \o messages = messages
        BY <1>3
      <3> QED
        BY <2>1, <2>3, <3>1, <3>4, <3>5
    <2>4. CASE Continued(state, messages, sent)
      <3>1. sent \o Items(state, messages) = messages /\ Current(state, messages) = state
        BY <1>3, <2>4, ItemsContinue
      <3>2. state.prev # 0
        BY <2>4 DEF Continued
      <3> QED
        BY <2>1, <3>1, <3>2
    <2> QED
      BY <2>2, <2>3, <2>4 DEF Provided
  <1>6. sent' = (IF conf.wire = "chat" THEN Sanitize(messages) ELSE messages) /\ state' = state
    BY <1>3, <1>4, <1>5
  <1>7. requests' \in 0 .. MaxRequests /\ requests' # 0 /\ requests' - 1 = requests
    BY <1>1, <1>3
  <1>8. Basic'
    <2>1. state'.cursor = Len(state'.prefix) /\ Lawful(messages')
      BY <1>1, <1>2, <1>6 DEF Basic
    <2> QED
      BY <1>1, <1>2, <1>7, <2>1 DEF Basic
  <1>9. Waiting'
    <2>1. Good(messages', requests' - 1)
      BY <1>1, <1>2, <1>7 DEF AtTop, Fit
    <2>2. \E lost \in Lost(corrected') : conf'.wire = "responses" => Owed(messages', lost)
      <3>1. PICK lost \in Lost(corrected) : Fit(conf.wire, messages, requests, state, sent, lost)
        BY <1>2 DEF AtTop
      <3> QED
        BY <1>1, <3>1 DEF Fit
    <2>3. DueKept(messages', due') /\ left' = <<>>
      BY <1>1, <1>2 DEF AtTop
    <2>4. sent' = IF conf'.wire = "chat" THEN Sanitize(messages') ELSE messages'
      BY <1>1, <1>6
    <2> QED
      BY <1>7, <2>1, <2>2, <2>3, <2>4 DEF Waiting
  <1> QED
    BY <1>1, <1>8, <1>9 DEF IInv

\* The attempt ends.
LEMMA StopHolds == ASSUME IInv, Stop PROVE IInv'
  <1>1. pc' = "done" /\ UNCHANGED <<conf, requests, messages, left, textual, corrected, pending,
                                    state, sent, due>>
    BY DEF Stop
  <1>2. Basic'
    BY <1>1 DEF IInv, Basic
  <1> QED
    BY <1>1, <1>2 DEF IInv

\* The turn of the response is recorded, by the loop and by the provider.
LEMMA AnsweredFits ==
  ASSUME IInv, NEW turn \in MessageType, Answered(turn), GoodMessage(turn),
         turn.role = "assistant", \A k \in DOMAIN turn.calls : turn.calls[k].key[1] = requests,
         NEW lost, conf.wire = "responses" => Owed(messages, lost),
         NEW open, lost \subseteq open, \A k \in DOMAIN turn.calls : turn.calls[k] \in open,
         NEW st, st = Completed
  PROVE  /\ Fit(conf.wire, Append(messages, turn), requests, st, sent', open)
         /\ st.cursor = Len(st.prefix) /\ requests \in Nat \ {0} /\ left = <<>>
         /\ due' = NothingDue /\ Through(messages, requests - 1)
  <1>1. pc = "waiting" /\ due' = NothingDue
        /\ sent' = IF conf.wire = "responses" THEN Append(sent, turn) ELSE sent
    BY DEF Answered
  <1>2. Basic /\ Waiting
    BY <1>1 DEF IInv
  <1>3. MaxRequests \in Nat /\ conf.wire \in {"chat", "responses"}
    BY <1>2, Bounds DEF Basic
  <1>4. requests \in Nat \ {0} /\ requests - 1 \in Nat /\ (requests - 1) + 1 = requests
    BY <1>2, <1>3 DEF Basic, Waiting
  <1>5. PICK q \in Nat : q = requests - 1 /\ q + 1 = requests
    BY <1>4
  <1>6. Good(messages, q) /\ (conf.wire = "responses" => Owed(messages, lost))
    BY <1>2, <1>5 DEF Waiting
  <1>7. ASSUME conf.wire = "responses"
        PROVE  /\ st = [prev |-> q + 1, cursor |-> Len(messages), prefix |-> messages]
               /\ sent' = Append(messages, turn)
    <2>1. sent = messages
      BY <1>2, <1>7 DEF Waiting
    <2> QED
      BY <1>1, <1>5, <1>7, <2>1 DEF Completed
  <1>8. Fit(conf.wire, Append(messages, turn), q + 1, st, sent', open)
    BY <1>5, <1>6, <1>7, FitTurn
  <1>9. st.cursor = Len(st.prefix)
    <2>1. CASE conf.wire = "responses"
      BY <1>7, <2>1
    <2>2. CASE conf.wire # "responses"
      <3>1. st = state
        BY <2>2 DEF Completed
      <3> QED
        BY <1>2, <3>1 DEF Basic
    <2> QED
      BY <2>1, <2>2
  <1>10. left = <<>> /\ Through(messages, requests - 1)
    BY <1>2 DEF Waiting, Good
  <1> QED
    BY <1>1, <1>4, <1>5, <1>8, <1>9, <1>10

\* A turn without calls.
LEMMA TextTurn ==
  ASSUME NEW text \in BOOLEAN
  PROVE  LET m == Assistant(<<>>, text) IN
           /\ m \in MessageType /\ GoodMessage(m) /\ m.role = "assistant" /\ DOMAIN m.calls = {}
  <1>1. PICK m : m = Assistant(<<>>, text)
    OBVIOUS
  <1>2. PICK cs \in Seq(CallType) : cs = <<>>
    <2>1. <<>> \in Seq(CallType)
      OBVIOUS
    <2> QED
      BY <2>1
  <1>3. m \in MessageType /\ m.role = "assistant" /\ m.calls = cs
    BY <1>1, <1>2, AssistantIs
  <1>4. DOMAIN m.calls = {}
    BY <1>2, <1>3
  <1>5. GoodMessage(m)
    BY <1>3, <1>4 DEF GoodMessage
  <1> QED
    BY <1>1, <1>3, <1>4, <1>5

\* A response without a call.
LEMMA RespondTextHolds == ASSUME IInv, RespondText PROVE IInv'
  <1>1. PICK text \in BOOLEAN, repeated \in BOOLEAN :
          LET turn == Assistant(<<>>, text)
              told == messages \o <<turn, User({}, FALSE)>>
          IN /\ Answered(turn) /\ pc' = "top" /\ messages' = Compacted(told)
             /\ state' = IF TooLong(told) THEN Fresh ELSE Completed
             /\ pending' = (pending \/ repeated)
             /\ UNCHANGED <<conf, requests, left, textual, corrected>>
    BY DEF RespondText
  <1>2. PICK turn : turn = Assistant(<<>>, text)
    OBVIOUS
  <1>3. PICK told : told = messages \o <<turn, User({}, FALSE)>>
    OBVIOUS
  <1>4. /\ Answered(turn) /\ pc' = "top" /\ messages' = Compacted(told)
        /\ state' = IF TooLong(told) THEN Fresh ELSE Completed
        /\ pending' = (pending \/ repeated)
        /\ UNCHANGED <<conf, requests, left, textual, corrected>>
    BY <1>1, <1>2, <1>3
  <1>5. turn \in MessageType /\ GoodMessage(turn) /\ turn.role = "assistant" /\ DOMAIN turn.calls = {}
    BY <1>2, TextTurn
  <1>6. PICK st : st = Completed
    OBVIOUS
  <1>7. PICK lost \in Lost(corrected) : conf.wire = "responses" => Owed(messages, lost)
    BY <1>4 DEF IInv, Answered, Waiting
  <1>8. /\ Fit(conf.wire, Append(messages, turn), requests, st, sent', lost)
        /\ st.cursor = Len(st.prefix) /\ requests \in Nat \ {0} /\ left = <<>>
        /\ due' = NothingDue
    BY <1>4, <1>5, <1>6, <1>7, AnsweredFits
  <1>9. PICK none \in SUBSET Key : none = {}
    OBVIOUS
  <1>10. Fit(conf.wire, Append(Append(messages, turn), User(none, FALSE)), requests, st, sent', lost)
    BY <1>8, UserFit
  <1>11. told = Append(Append(messages, turn), User({}, FALSE))
    <2>1. messages \in Seq(MessageType)
      BY DEF IInv, Basic, Lawful
    <2>2. PICK u \in MessageType : u = User(none, FALSE)
      BY UserIs
    <2>3. messages \o <<turn, u>> = Append(Append(messages, turn), u)
      BY <1>5, <2>1
    <2> QED
      BY <1>3, <1>9, <2>2, <2>3
  <1>12. Fit(conf.wire, told, requests, st, sent', lost)
    BY <1>9, <1>10, <1>11
  <1>13. DueKept(told, NothingDue) /\ Recent(told, NothingDue, 6)
    BY NothingKept
  <1>14. /\ Fit(conf.wire, Compacted(told), requests, IF TooLong(told) THEN Fresh ELSE st, sent', lost)
         /\ DueKept(Compacted(told), NothingDue)
    BY <1>12, <1>13, CompactedFit
  <1>15. Fit(conf'.wire, messages', requests', state', sent', lost) /\ DueKept(messages', due')
    BY <1>4, <1>6, <1>8, <1>14
  <1>16. AtTop'
    BY <1>4, <1>7, <1>8, <1>15 DEF AtTop
  <1>17. state'.cursor = Len(state'.prefix)
    BY <1>4, <1>6, <1>8 DEF Fresh
  <1>18. Basic'
    <2>1. Lawful(messages')
      BY <1>15 DEF Fit, Good
    <2>2. pending' \in BOOLEAN
      BY <1>4
    <2> QED
      BY <1>4, <1>17, <2>1, <2>2 DEF IInv, Basic
  <1> QED
    BY <1>4, <1>16, <1>18 DEF IInv

\* A turn of a request no message is of yet.
LEMMA OpenedBy ==
  ASSUME NEW ms \in Seq(MessageType), NEW turn \in MessageType, NEW q \in Nat \ {0},
         Through(ms, q - 1), NEW cs, turn = Assistant(cs, FALSE)
  PROVE  Opened(Append(ms, turn), cs, q)
  <1>1. PICK new : new = Append(ms, turn)
    OBVIOUS
  <1>2. /\ new \in Seq(MessageType) /\ Len(ms) \in Nat /\ Len(new) = Len(ms) + 1
        /\ DOMAIN ms = 1 .. Len(ms) /\ DOMAIN new = 1 .. Len(ms) + 1
        /\ \A j \in DOMAIN ms : new[j] = ms[j] /\ j < Len(ms) + 1 /\ j \in DOMAIN new
        /\ new[Len(ms) + 1] = turn
        /\ \A j \in DOMAIN new : j \in DOMAIN ms \/ j = Len(ms) + 1
    BY <1>1, Appended, ZenonT(60)
  <1>3. new[Len(new)] = Assistant(cs, FALSE) /\ Len(new) >= 1
    BY <1>2
  <1>4. ASSUME NEW j \in DOMAIN new, j < Len(new)
         PROVE  /\ new[j].role = "tool" => new[j].id[1] # q
                /\ \A k \in DOMAIN new[j].calls : new[j].calls[k].key[1] # q
    <2>1. j \in DOMAIN ms /\ new[j] = ms[j]
      BY <1>2, <1>4
    <2>2. /\ ms[j].role = "tool" => ms[j].id[1] <= q - 1
          /\ \A k \in DOMAIN ms[j].calls : ms[j].calls[k].key[1] <= q - 1
      BY <2>1 DEF Through
    <2>3. ~(q <= q - 1)
      OBVIOUS
    <2> QED
      BY <2>1, <2>2, <2>3
  <1> QED
    BY <1>1, <1>3, <1>4 DEF Opened

\* Calls are to be handled.
LEMMA RespondHolds ==
  ASSUME IInv, NEW turn \in MessageType, Answered(turn), GoodMessage(turn),
         turn.role = "assistant", \A k \in DOMAIN turn.calls : turn.calls[k].key[1] = requests,
         NEW cs \in Seq(CallType), Len(cs) \in 1 .. MaxCalls,
         \A k \in DOMAIN cs : GoodCall(cs[k]) /\ cs[k].key = <<requests, k>>,
         NEW txt \in BOOLEAN, turn = IF txt THEN Assistant(<<>>, TRUE) ELSE Assistant(cs, FALSE),
         turn.calls = IF txt THEN <<>> ELSE cs,
         conf.wire = "responses" /\ ~txt =>
           conf.native /\ \A k \in DOMAIN cs : cs[k].kind \in {"ok", "badargs", "nameless"} /\ cs[k].id # NoId,
         pc' = "calls", messages' = Append(messages, turn), left' = cs, textual' = txt,
         state' = Completed, UNCHANGED <<conf, requests, corrected, pending>>
  PROVE  IInv'
  <1>1. PICK st : st = Completed
    OBVIOUS
  <1>0. PICK lost \in Lost(corrected) : conf.wire = "responses" => Owed(messages, lost)
    BY DEF IInv, Answered, Waiting
  <1>2. PICK open : open = (IF txt THEN {} ELSE ToSet(cs)) \cup lost
    OBVIOUS
  <1>3. \A k \in DOMAIN turn.calls : turn.calls[k] \in open
    <2>1. CASE txt
      <3>1. turn.calls = <<>>
        BY <2>1, Zenon
      <3>2. DOMAIN <<>> = {}
        OBVIOUS
      <3> QED
        BY <3>1, <3>2, Zenon
    <2>2. CASE ~txt
      <3>1. turn.calls = cs /\ ToSet(cs) \subseteq open
        BY <1>2, <2>2
      <3>2. \A k \in DOMAIN cs : cs[k] \in ToSet(cs)
        BY DEF ToSet
      <3> QED
        BY <3>1, <3>2, Zenon
    <2> QED
      BY <2>1, <2>2
  <1>4. /\ Fit(conf.wire, Append(messages, turn), requests, st, sent', open)
        /\ st.cursor = Len(st.prefix) /\ requests \in Nat \ {0}
        /\ due' = NothingDue /\ Through(messages, requests - 1)
    <2>1. lost \subseteq open
      BY <1>2
    <2> QED
      BY <1>0, <1>1, <1>3, <2>1, AnsweredFits, ZenonT(60)
  <1>5. /\ Fit(conf'.wire, messages', requests', state', sent', Open' \cup lost)
        /\ state'.cursor = Len(state'.prefix)
    BY <1>1, <1>2, <1>4 DEF Open
  <1>6. ASSUME ~txt PROVE Opened(Append(messages, turn), cs, requests)
    <2>1. messages \in Seq(MessageType)
      BY DEF IInv, Basic, Lawful
    <2>2. turn = Assistant(cs, FALSE)
      BY <1>6
    <2> QED
      BY <1>4, <2>1, <2>2, OpenedBy
  <1>7. LeftGood(conf.wire, conf.native, txt, cs, requests) /\ cs[1].key[2] = 1
    <2>1. 1 \in DOMAIN cs /\ Len(cs) >= 1
      OBVIOUS
    <2>2. cs[1].key[2] = 1
      BY <2>1
    <2>3. \A k \in DOMAIN cs : 1 + (k - 1) = k
      OBVIOUS
    <2> QED
      BY <2>1, <2>2, <2>3 DEF LeftGood
  <1>8. LeftGood(conf'.wire, conf'.native, textual', left', requests')
    BY <1>7
  <1>9. ~textual' => Opened(messages', left', requests')
    BY <1>6
  <1>10. Handling'
    <2>1. \E l \in Lost(corrected') :
            Fit(conf'.wire, messages', requests', state', sent', Open' \cup l)
      BY <1>0, <1>5
    <2> QED
      BY <1>4, <1>8, <1>9, <2>1 DEF Handling
  <1>11. Basic'
    <2>1. Lawful(messages')
      BY <1>5 DEF Fit, Good
    <2>2. Len(cs) <= MaxCalls
      <3>1. MaxCalls \in Nat
        BY Bounds DEF IInv, Basic
      <3> QED
        BY <3>1
    <2> QED
      BY <1>5, <2>1, <2>2 DEF IInv, Basic
  <1> QED
    BY <1>10, <1>11 DEF IInv

\* A response with calls; the Responses transport has checked their ids.
LEMMA RespondCallsHolds == ASSUME IInv, RespondCalls PROVE IInv'
  <1> DEFINE ids == IF conf.wire = "chat" THEN BOOLEAN ELSE {TRUE}
  <1>1. PICK cs \in Calls(Kinds, ids) :
          /\ Answered(Assistant(cs, FALSE))
          /\ messages' = Append(messages, Assistant(cs, FALSE))
          /\ left' = cs
    BY DEF RespondCalls
  <1>2. /\ pc' = "calls" /\ state' = Completed /\ textual' = FALSE
        /\ UNCHANGED <<conf, requests, corrected, pending>>
        /\ conf.wire = "responses" => conf.native
    BY DEF RespondCalls
  <1>3. Basic /\ Waiting
    BY <1>1 DEF IInv, Answered
  <1>4. MaxRequests \in Nat /\ MaxCalls \in Nat /\ requests \in Nat \ {0}
    <2>1. MaxRequests \in Nat /\ MaxCalls \in Nat
      BY <1>3, Bounds DEF Basic
    <2> QED
      BY <1>3, <2>1 DEF Basic, Waiting
  <1>5. /\ Kinds \in SUBSET {"ok", "badargs", "nameless", "bare"} /\ ids \in SUBSET BOOLEAN
        /\ conf.wire = "responses" => FALSE \notin ids /\ Kinds = {"ok", "badargs", "nameless"}
    BY DEF Kinds
  <1>6. PICK kinds \in SUBSET {"ok", "badargs", "nameless", "bare"}, may \in SUBSET BOOLEAN :
          kinds = Kinds /\ may = ids
    BY <1>5
  <1>7. cs \in Calls(kinds, may)
    BY <1>6
  <1> HIDE DEF ids
  <1>8. /\ cs \in Seq(CallType) /\ Len(cs) \in 1 .. MaxCalls
        /\ \A k \in DOMAIN cs :
             /\ GoodCall(cs[k]) /\ cs[k].key = <<requests, k>> /\ cs[k].kind \in kinds
             /\ FALSE \notin may => cs[k].id # NoId
    BY <1>4, <1>7, CallsAre
  <1>9. \A k \in DOMAIN cs :
          /\ GoodCall(cs[k]) /\ cs[k].key = <<requests, k>> /\ cs[k].kind \in kinds
          /\ FALSE \notin may => cs[k].id # NoId
    BY <1>8
  <1>10. PICK turn : turn = Assistant(cs, FALSE)
    OBVIOUS
  <1>11. turn \in MessageType /\ turn.role = "assistant" /\ turn.calls = cs
    BY <1>8, <1>10, AssistantIs
  <1>12. GoodMessage(turn)
    <2>1. \A k \in DOMAIN cs : GoodCall(cs[k]) /\ cs[k].key = <<cs[1].key[1], k>>
      <3>1. 1 \in DOMAIN cs
        BY <1>4, <1>8
      <3>2. cs[1].key = <<requests, 1>>
        BY <1>9, <3>1, Zenon
      <3>3. cs[1].key[1] = requests
        BY <3>2
      <3> QED
        BY <1>9, <3>3
    <2> QED
      BY <1>11, <2>1 DEF GoodMessage
  <1>13. ASSUME NEW k \in DOMAIN turn.calls PROVE turn.calls[k].key[1] = requests
    <2>1. cs[k].key = <<requests, k>>
      BY <1>9, <1>11, Zenon
    <2>2. cs[k].key[1] = requests
      BY <2>1
    <2> QED
      BY <1>11, <2>2
  <1>14. conf.wire = "responses" /\ ~FALSE =>
           conf.native /\ \A k \in DOMAIN cs : cs[k].kind \in {"ok", "badargs", "nameless"} /\ cs[k].id # NoId
    BY <1>2, <1>5, <1>6, <1>9
  <1>15. PICK txt \in BOOLEAN : txt = FALSE
    OBVIOUS
  <1>16. /\ turn = IF txt THEN Assistant(<<>>, TRUE) ELSE Assistant(cs, FALSE)
         /\ turn.calls = IF txt THEN <<>> ELSE cs
         /\ textual' = txt /\ messages' = Append(messages, turn) /\ Answered(turn) /\ left' = cs
         /\ \A k \in DOMAIN cs : GoodCall(cs[k]) /\ cs[k].key = <<requests, k>>
         /\ conf.wire = "responses" /\ ~txt =>
              conf.native /\ \A k \in DOMAIN cs : cs[k].kind \in {"ok", "badargs", "nameless"} /\ cs[k].id # NoId
    BY <1>1, <1>2, <1>9, <1>10, <1>11, <1>14, <1>15
  <1> QED
    BY <1>2, <1>8, <1>11, <1>12, <1>13, <1>16, RespondHolds

\* Calls written as text are no calls of the turn.
LEMMA RespondTextCallsHolds == ASSUME IInv, RespondTextCalls PROVE IInv'
  <1>1. PICK cs \in TextCalls :
          /\ Answered(Assistant(<<>>, TRUE)) /\ pc' = "calls"
          /\ messages' = Append(messages, Assistant(<<>>, TRUE)) /\ state' = Completed
          /\ left' = cs /\ textual' = TRUE
          /\ UNCHANGED <<conf, requests, corrected, pending>>
    BY DEF RespondTextCalls
  <1>2. Basic /\ Waiting
    BY <1>1 DEF IInv, Answered
  <1>3. MaxRequests \in Nat /\ MaxCalls \in Nat /\ requests \in Nat \ {0}
    <2>1. MaxRequests \in Nat /\ MaxCalls \in Nat
      BY <1>2, Bounds DEF Basic
    <2> QED
      BY <1>2, <2>1 DEF Basic, Waiting
  <1>4. PICK kinds \in SUBSET {"ok", "badargs", "nameless", "bare"}, may \in SUBSET BOOLEAN :
          kinds = {"ok", "badargs"} /\ may = {TRUE}
    <2>1. {"ok", "badargs"} \in SUBSET {"ok", "badargs", "nameless", "bare"}
      OBVIOUS
    <2>2. {TRUE} \in SUBSET BOOLEAN
      OBVIOUS
    <2> QED
      BY <2>1, <2>2, Zenon
  <1>5. cs \in Calls(kinds, may)
    BY <1>4 DEF TextCalls
  <1>6. /\ cs \in Seq(CallType) /\ Len(cs) \in 1 .. MaxCalls
        /\ \A k \in DOMAIN cs :
             /\ GoodCall(cs[k]) /\ cs[k].key = <<requests, k>> /\ cs[k].kind \in kinds
             /\ FALSE \notin may => cs[k].id # NoId
    BY <1>3, <1>5, CallsAre
  <1>7. \A k \in DOMAIN cs : GoodCall(cs[k]) /\ cs[k].key = <<requests, k>>
    BY <1>6
  <1>8. PICK turn : turn = Assistant(<<>>, TRUE)
    OBVIOUS
  <1>9. PICK txt \in BOOLEAN : txt = TRUE
    OBVIOUS
  <1>10. turn \in MessageType /\ GoodMessage(turn) /\ turn.role = "assistant" /\ DOMAIN turn.calls = {}
    BY <1>8, TextTurn
  <1>11. turn.calls = <<>>
    BY <1>8 DEF Assistant, Message
  <1>12. \A k \in DOMAIN turn.calls : turn.calls[k].key[1] = requests
    BY <1>10
  <1>13. /\ turn = IF txt THEN Assistant(<<>>, TRUE) ELSE Assistant(cs, FALSE)
         /\ turn.calls = IF txt THEN <<>> ELSE cs
         /\ textual' = txt /\ messages' = Append(messages, turn) /\ Answered(turn)
         /\ conf.wire = "responses" /\ ~txt =>
              conf.native /\ \A k \in DOMAIN cs : cs[k].kind \in {"ok", "badargs", "nameless"} /\ cs[k].id # NoId
    BY <1>1, <1>8, <1>9, <1>11
  <1> QED
    BY <1>1, <1>6, <1>7, <1>10, <1>12, <1>13, RespondHolds, ZenonT(60)

\* One call less is to be handled.
LEMMA HandledHolds ==
  ASSUME IInv, pc = "calls", Handled, UNCHANGED <<conf, requests, textual, sent>>,
         corrected' \in BOOLEAN, pending' \in BOOLEAN, state'.cursor = Len(state'.prefix),
         NEW lost \in Lost(corrected'),
         Fit(conf.wire, messages', requests, state', sent,
             (IF textual THEN {} ELSE ToSet(Tail(left))) \cup lost),
         DueKept(messages', due'), Len(left) # 1 => due' = NothingDue
  PROVE  IInv'
  <1>1. Basic /\ Handling
    BY DEF IInv
  <1>2. MaxRequests \in Nat /\ MaxCalls \in Nat /\ requests \in Nat \ {0}
    <2>1. MaxRequests \in Nat /\ MaxCalls \in Nat
      BY <1>1, Bounds DEF Basic
    <2> QED
      BY <1>1, <2>1 DEF Basic, Handling
  <1>3. /\ left \in Seq(CallType) /\ Len(left) <= MaxCalls
        /\ LeftGood(conf.wire, conf.native, textual, left, requests)
    BY <1>1 DEF Basic, Handling
  <1>4. /\ Tail(left) \in Seq(CallType) /\ Len(Tail(left)) = Len(left) - 1
        /\ Len(left) = 1 => Tail(left) = <<>>
        /\ Len(left) # 1 => /\ LeftGood(conf.wire, conf.native, textual, Tail(left), requests)
                            /\ Tail(left)[1].key[2] # 1
    BY <1>2, <1>3, TailIs
  <1>5. left' = Tail(left) /\ pc' = IF Len(left) = 1 THEN "top" ELSE "calls"
    BY DEF Handled, Next1
  <1>6. Basic'
    <2>1. Len(Tail(left)) <= MaxCalls
      BY <1>2, <1>3, <1>4
    <2>2. Lawful(messages')
      BY DEF Fit, Good
    <2> QED
      BY <1>1, <1>4, <1>5, <2>1, <2>2 DEF Basic
  <1>7. CASE Len(left) = 1
    <2>1. pc' = "top" /\ left' = <<>>
      BY <1>4, <1>5, <1>7
    <2>2. ToSet(Tail(left)) = {}
      BY <1>4, <1>7 DEF ToSet
    <2>3. Fit(conf'.wire, messages', requests', state', sent', lost)
      <3>1. (IF textual THEN {} ELSE ToSet(Tail(left))) \cup lost = lost
        BY <2>2
      <3> QED
        BY <3>1
    <2>4. AtTop'
      BY <2>1, <2>3 DEF AtTop
    <2> QED
      BY <1>6, <2>1, <2>4 DEF IInv
  <1>8. CASE Len(left) # 1
    <2>1. pc' = "calls" /\ due' = NothingDue
      BY <1>5, <1>8
    <2>2. \E l \in Lost(corrected') :
            Fit(conf'.wire, messages', requests', state', sent', Open' \cup l)
      BY <1>5 DEF Open
    <2>3. LeftGood(conf'.wire, conf'.native, textual', left', requests') /\ left'[1].key[2] # 1
      BY <1>4, <1>5, <1>8
    <2>4. Handling'
      BY <1>2, <2>1, <2>2, <2>3 DEF Handling
    <2> QED
      BY <1>6, <2>1, <2>4 DEF IInv
  <1> QED
    BY <1>7, <1>8

-----------------------------------------------------------------------------
(* The results.                                                            *)

\* A pending warning follows the result.
LEMMA WarnedFit ==
  ASSUME NEW q \in Nat, NEW wire, NEW ms, NEW st, NEW has, NEW open, Fit(wire, ms, q, st, has, open),
         NEW w \in BOOLEAN, NEW keys
  PROVE  LET before == [keys |-> keys, warn |-> FALSE]
             after == [keys |-> keys, warn |-> w]
         IN /\ Fit(wire, ms \o Warning(w), q, st, has, open)
            /\ DueKept(ms, before) => DueKept(ms \o Warning(w), after)
            /\ Recent(ms, before, 1) => Recent(ms \o Warning(w), after, 2)
  <1> DEFINE before == [keys |-> keys, warn |-> FALSE]
             after == [keys |-> keys, warn |-> w]
  <1>1. ms \in Seq(MessageType)
    BY DEF Fit, Good, Lawful
  <1>2. CASE w = FALSE
    <2>1. ms \o Warning(w) = ms /\ after = before
      <3>1. Warning(w) = <<>> /\ after = before
        BY <1>2 DEF Warning
      <3>2. ms \o <<>> = ms
        BY <1>1
      <3> QED
        BY <3>1, <3>2
    <2>2. ASSUME Recent(ms, before, 1) PROVE Recent(ms, before, 2)
      <3>1. \A i \in DOMAIN ms : i > Len(ms) - 1 => i > Len(ms) - 2
        BY <1>1
      <3>2. \A key \in before.keys : \E i \in DOMAIN ms : i > Len(ms) - 2 /\ key \in ms[i].shows
        BY <2>2, <3>1 DEF Recent
      <3>3. ~before.warn
        OBVIOUS
      <3> QED
        BY <3>2, <3>3 DEF Recent
    <2> HIDE DEF before, after
    <2>3. Recent(ms, before, 1) => Recent(ms \o Warning(w), after, 2)
      BY <2>1, <2>2
    <2>4. Fit(wire, ms \o Warning(w), q, st, has, open)
      BY <2>1
    <2>5. DueKept(ms, before) => DueKept(ms \o Warning(w), after)
      BY <2>1
    <2> QED
      BY <2>3, <2>4, <2>5 DEF before, after
  <1>3. CASE w = TRUE
    <2>1. PICK none \in SUBSET Key : none = {}
      OBVIOUS
    <2>2. PICK yes \in BOOLEAN : yes = TRUE
      OBVIOUS
    <2>3. PICK u : u = User(none, yes)
      OBVIOUS
    <2>4. u \in MessageType /\ u.role = "user" /\ u.warn = TRUE
      BY <2>2, <2>3, UserIs
    <2>5. Fit(wire, Append(ms, u), q, st, has, open)
      BY <2>3, UserFit
    <2>6. ms \o Warning(w) = Append(ms, u)
      <3>1. Warning(w) = <<u>>
        BY <1>3, <2>1, <2>2, <2>3 DEF Warning
      <3>2. ms \o <<u>> = Append(ms, u)
        BY <1>1, <2>4
      <3> QED
        BY <3>1, <3>2
    <2>7. PICK new : new = Append(ms, u)
      OBVIOUS
    <2>8. /\ Len(new) = Len(ms) + 1 /\ Len(ms) + 1 \in DOMAIN new /\ new[Len(ms) + 1] = u
          /\ Len(ms) \in Nat
      BY <1>1, <2>4, <2>7, Appended
    <2>9. /\ DueKept(ms, before) => DueKept(new, before)
          /\ Recent(ms, before, 1) => Recent(new, before, 1 + 1)
      <3>1. u.role \notin {"tool", "assistant"}
        BY <2>4
      <3> HIDE DEF before
      <3>2. PICK n \in Nat : n = 1
        OBVIOUS
      <3>3. /\ DueKept(ms, before) => DueKept(new, before)
            /\ Recent(ms, before, n) => Recent(new, before, n + 1)
        BY <1>1, <2>4, <2>7, <3>1, DueAppend
      <3> QED
        BY <3>2, <3>3
    <2>10. before.keys = keys /\ after.keys = keys /\ after.warn = w
      OBVIOUS
    <2> HIDE DEF before, after
    <2>11. ASSUME DueKept(new, before) PROVE DueKept(new, after)
      <3>1. new[Len(ms) + 1].role # "tool" /\ new[Len(ms) + 1].warn
        BY <2>4, <2>8
      <3>2. \E i \in DOMAIN new : new[i].role # "tool" /\ new[i].warn
        BY <2>8, <3>1
      <3> QED
        BY <2>10, <2>11, <3>2 DEF DueKept
    <2>12. ASSUME Recent(new, before, 2) PROVE Recent(new, after, 2)
      <3>1. new[Len(ms) + 1].warn /\ Len(ms) + 1 > Len(new) - 2
        BY <2>4, <2>8
      <3>2. \E i \in DOMAIN new : i > Len(new) - 2 /\ new[i].warn
        BY <2>8, <3>1
      <3> QED
        BY <2>10, <2>12, <3>2 DEF Recent
    <2>13. /\ Fit(wire, ms \o Warning(w), q, st, has, open)
           /\ DueKept(ms, before) => DueKept(ms \o Warning(w), after)
           /\ Recent(ms, before, 1) => Recent(ms \o Warning(w), after, 2)
      BY <2>5, <2>6, <2>7, <2>9, <2>11, <2>12
    <2> QED
      BY <2>13 DEF before, after
  <1> QED
    BY <1>2, <1>3

\* The reply to the only call of a turn follows it.
LEMMA SingleCallMade ==
  ASSUME NEW ms \in Seq(MessageType), NEW cs \in Seq(CallType), NEW q, Opened(ms, cs, q),
         Len(cs) = 1, NEW key, cs[1].kind = "ok", cs[1].key = key, key[1] = q,
         NEW m \in MessageType, m.role = "tool", key \in m.shows,
         m.id = IF cs[1].id = NoId THEN Fallback(key[1]) ELSE cs[1].id
  PROVE  \E i \in DOMAIN Append(ms, m) : SingleCall(Append(ms, m), key, i)
  <1>1. PICK new : new = Append(ms, m)
    OBVIOUS
  <1>2. /\ new \in Seq(MessageType) /\ Len(ms) \in Nat /\ Len(new) = Len(ms) + 1
        /\ DOMAIN ms = 1 .. Len(ms) /\ DOMAIN new = 1 .. Len(ms) + 1
        /\ \A j \in DOMAIN ms : new[j] = ms[j] /\ j < Len(ms) + 1 /\ j \in DOMAIN new
        /\ new[Len(ms) + 1] = m
        /\ \A j \in DOMAIN new : j \in DOMAIN ms \/ j = Len(ms) + 1
    BY <1>1, Appended
  <1>3. PICK i : i = Len(ms)
    OBVIOUS
  <1>4. PICK turn : turn = Assistant(cs, FALSE)
    OBVIOUS
  <1>5. turn.role = "assistant" /\ turn.calls = cs
    BY <1>4, AssistantIs
  <1>6. i \in DOMAIN ms /\ ms[i] = turn
    BY <1>2, <1>3, <1>4 DEF Opened
  <1>7. i \in DOMAIN new /\ i + 1 \in DOMAIN new /\ new[i] = turn /\ new[i + 1] = m
    BY <1>2, <1>3, <1>6
  <1>8. ASSUME NEW j \in DOMAIN new
        PROVE  /\ j > i + 1 => new[j].role \notin {"tool", "assistant"}
               /\ j < i => /\ new[j].role = "tool" => new[j].id[1] # key[1]
                           /\ \A k \in DOMAIN new[j].calls : new[j].calls[k].key[1] # key[1]
    <2>1. ~(j > i + 1)
      BY <1>2, <1>3
    <2>2. ASSUME j < i
          PROVE  /\ new[j].role = "tool" => new[j].id[1] # key[1]
                 /\ \A k \in DOMAIN new[j].calls : new[j].calls[k].key[1] # key[1]
      <3>1. j \in DOMAIN ms /\ new[j] = ms[j] /\ j < Len(ms)
        BY <1>2, <1>3, <2>2
      <3> QED
        BY <3>1 DEF Opened
    <2> QED
      BY <2>1, <2>2
  <1>9. SingleCall(new, key, i)
    BY <1>5, <1>7, <1>8 DEF SingleCall
  <1> QED
    BY <1>1, <1>7, <1>9

\* The result of a call is told: with native tools by the reply to it.
LEMMA DeliveredFacts ==
  ASSUME IInv, pc = "calls", NEW c, c = Head(left), c.kind = "ok", NEW w \in BOOLEAN,
         NEW d, d = IF Len(left) = 1 /\ c.key[2] = 1 THEN [keys |-> {c.key}, warn |-> w]
                    ELSE NothingDue,
         NEW lost, Fit(conf.wire, messages, requests, state, sent, Open \cup lost)
  PROVE  /\ Fit(conf.wire, Delivered(c, w), requests, IF Replaced THEN Fresh ELSE state, sent,
                (IF textual THEN {} ELSE ToSet(Tail(left))) \cup lost)
         /\ DueKept(Delivered(c, w), d) /\ Recent(Delivered(c, w), d, 2)
         /\ c.key \in Key
  <1> DEFINE before == [keys |-> {c.key}, warn |-> FALSE]
             after == [keys |-> {c.key}, warn |-> w]
             left2 == (IF textual THEN {} ELSE ToSet(Tail(left))) \cup lost
  <1>1. Basic /\ Handling
    BY DEF IInv
  <1>2. MaxRequests \in Nat /\ requests \in Nat \ {0} /\ textual \in BOOLEAN
    <2>1. MaxRequests \in Nat
      BY <1>1, Bounds DEF Basic
    <2> QED
      BY <1>1, <2>1 DEF Basic, Handling
  <1>3. left \in Seq(CallType) /\ LeftGood(conf.wire, conf.native, textual, left, requests)
    BY <1>1 DEF Basic, Handling
  <1>4. /\ c \in CallType /\ GoodCall(c) /\ c = left[1] /\ c.key = <<requests, c.key[2]>>
        /\ c.key \in Key /\ c.key[1] = requests
        /\ conf.wire = "responses" /\ ~textual =>
             conf.native /\ c.kind \in {"ok", "badargs", "nameless"} /\ c.id # NoId
    <2>1. PICK cs \in Seq(CallType), q \in Nat \ {0} : cs = left /\ q = requests
      BY <1>2, <1>3
    <2>2. LeftGood(conf.wire, conf.native, textual, cs, q) /\ c = Head(cs)
      BY <1>3, <2>1
    <2>3. /\ c \in CallType /\ GoodCall(c) /\ c = cs[1] /\ c.key = <<q, c.key[2]>>
          /\ c.key \in Key /\ c.key[1] = q
          /\ conf.wire = "responses" /\ ~textual =>
               conf.native /\ c.kind \in {"ok", "badargs", "nameless"} /\ c.id # NoId
      BY <2>2, HeadIs, SMTT(30)
    <2> QED
      BY <2>1, <2>3
  <1>5. PICK ms \in Seq(MessageType) : ms = messages
    BY <1>1 DEF Basic, Lawful
  <1>6. Fit(conf.wire, ms, requests, state, sent, Open \cup lost)
    BY <1>5
  <1>7. PICK shows \in SUBSET Key : shows = {c.key}
    BY <1>4
  <1>8. \A x : /\ (Len(left) = 1 /\ c.key[2] = 1 => DueKept(x, after)) => DueKept(x, d)
               /\ Recent(x, after, 2) => Recent(x, d, 2)
    BY NothingKept
  <1>9. CASE Replaced
    <2>1. PICK s : s = System
      OBVIOUS
    <2>2. s \in MessageType /\ s.role = "system" /\ s.calls = <<>> /\ s.text
      BY <2>1, SystemIs
    <2>3. PICK u : u = User(shows, w)
      OBVIOUS
    <2>4. /\ u \in MessageType /\ u.role = "user" /\ u.calls = <<>> /\ u.text
          /\ u.shows = shows /\ u.warn = w
      BY <2>3, UserIs
    <2>5. PICK new : new = <<s, u>>
      OBVIOUS
    <2>6. /\ new \in Seq(MessageType) /\ DOMAIN new = {1, 2} /\ Len(new) = 2
          /\ new[1] = s /\ new[2] = u
      BY <2>2, <2>4, <2>5
    <2>7. \A i \in DOMAIN new : new[i].role \in {"system", "user"} /\ new[i].calls = <<>> /\ new[i].text
      BY <2>2, <2>4, <2>6
    <2>8. Fit(conf.wire, new, requests, Fresh, sent, left2)
      BY <2>6, <2>7, FitAnew
    <2>9. DueKept(new, after) /\ Recent(new, after, 2)
      <3>1. after.keys = {c.key} /\ after.warn = w
        OBVIOUS
      <3>2. 2 \in DOMAIN new /\ 2 > Len(new) - 2 /\ new[2].role # "tool"
            /\ new[2].shows = {c.key} /\ new[2].warn = w
        BY <1>7, <2>4, <2>6
      <3> HIDE DEF after
      <3>3. DueKept(new, after)
        BY <3>1, <3>2 DEF DueKept
      <3>4. Recent(new, after, 2)
        BY <3>1, <3>2 DEF Recent
      <3> QED
        BY <3>3, <3>4
    <2>10. Delivered(c, w) = new
      BY <1>7, <1>9, <2>1, <2>3, <2>5 DEF Delivered, Replaced
    <2> QED
      BY <1>4, <1>8, <1>9, <2>8, <2>9, <2>10
  <1>10. ASSUME NEW m \in MessageType, m.shows = {c.key}, ~Replaced,
                Fit(conf.wire, Append(ms, m), requests, state, sent, left2),
                Len(left) = 1 /\ c.key[2] = 1 => DueKept(Append(ms, m), before),
                Delivered(c, w) = Append(ms, m) \o Warning(w)
         PROVE  /\ Fit(conf.wire, Delivered(c, w), requests, IF Replaced THEN Fresh ELSE state, sent, left2)
                /\ DueKept(Delivered(c, w), d) /\ Recent(Delivered(c, w), d, 2)
    <2>1. Recent(Append(ms, m), before, 1)
      <3>1. PICK new : new = Append(ms, m)
        OBVIOUS
      <3>2. /\ Len(new) = Len(ms) + 1 /\ Len(ms) + 1 \in DOMAIN new /\ new[Len(ms) + 1] = m
            /\ Len(ms) \in Nat
        BY <3>1, Appended
      <3>3. Len(ms) + 1 > Len(new) - 1 /\ before.keys = {c.key} /\ ~before.warn
        BY <3>2
      <3> HIDE DEF before
      <3>4. Recent(new, before, 1)
        BY <1>10, <3>2, <3>3 DEF Recent
      <3> QED
        BY <3>1, <3>4
    <2>2. PICK keys : keys = {c.key}
      OBVIOUS
    <2>3. /\ Fit(conf.wire, Append(ms, m) \o Warning(w), requests, state, sent, left2)
          /\ DueKept(Append(ms, m), before) => DueKept(Append(ms, m) \o Warning(w), after)
          /\ Recent(Append(ms, m), before, 1) => Recent(Append(ms, m) \o Warning(w), after, 2)
      <3>1. PICK q \in Nat : q = requests
        BY <1>2
      <3>2. PICK new : new = Append(ms, m)
        OBVIOUS
      <3>3. Fit(conf.wire, new, q, state, sent, left2)
        BY <1>10, <3>1, <3>2
      <3>4. /\ Fit(conf.wire, new \o Warning(w), q, state, sent, left2)
            /\ DueKept(new, [keys |-> keys, warn |-> FALSE])
                 => DueKept(new \o Warning(w), [keys |-> keys, warn |-> w])
            /\ Recent(new, [keys |-> keys, warn |-> FALSE], 1)
                 => Recent(new \o Warning(w), [keys |-> keys, warn |-> w], 2)
        <4> HIDE DEF left2
        <4> QED
          BY <3>3, WarnedFit
      <3> QED
        BY <2>2, <3>1, <3>2, <3>4
    <2> HIDE DEF before, after, left2
    <2>4. Fit(conf.wire, Delivered(c, w), requests, IF Replaced THEN Fresh ELSE state, sent, left2)
      BY <1>10, <2>3
    <2>5. Len(left) = 1 /\ c.key[2] = 1 => DueKept(Delivered(c, w), after)
      BY <1>10, <2>3
    <2>6. Recent(Delivered(c, w), after, 2)
      BY <1>10, <2>1, <2>3
    <2> QED
      BY <1>8, <2>4, <2>5, <2>6
  <1>11. CASE textual /\ ~Replaced
    <2>1. PICK m : m = User(shows, FALSE)
      OBVIOUS
    <2>2. /\ m \in MessageType /\ m.role = "user" /\ m.shows = {c.key}
      BY <1>7, <2>1, UserIs
    <2>3. Delivered(c, w) = Append(ms, m) \o Warning(w)
      BY <1>5, <1>7, <1>11, <2>1 DEF Delivered, Replaced
    <2>4. Open \cup lost = left2
      BY <1>11 DEF Open
    <2>5. Fit(conf.wire, Append(ms, m), requests, state, sent, left2)
      <3> HIDE DEF left2
      <3>1. Fit(conf.wire, ms, requests, state, sent, left2)
        BY <1>6, <2>4
      <3> QED
        BY <1>2, <2>1, <3>1, UserFit
    <2>6. DueKept(Append(ms, m), before)
      <3>1. PICK new : new = Append(ms, m)
        OBVIOUS
      <3>2. Len(ms) + 1 \in DOMAIN new /\ new[Len(ms) + 1] = m
        BY <2>2, <3>1, Appended
      <3>3. before.keys = {c.key} /\ ~before.warn
        OBVIOUS
      <3> HIDE DEF before
      <3>4. DueKept(new, before)
        BY <2>2, <3>2, <3>3 DEF DueKept
      <3> QED
        BY <3>1, <3>4
    <2> QED
      BY <1>4, <1>10, <1>11, <2>2, <2>3, <2>5, <2>6
  <1>12. CASE ~textual
    <2>1. PICK id : id = IF c.id = NoId THEN Fallback(c.key[1]) ELSE c.id
      OBVIOUS
    <2>2. id \in Key /\ id[1] = requests
      <3>1. c.id = NoId => id = <<requests, 0>>
        BY <1>4, <2>1 DEF Fallback
      <3>2. c.id # NoId => id = c.key
        BY <1>4, <2>1 DEF GoodCall
      <3>3. <<requests, 0>> \in Key /\ <<requests, 0>>[1] = requests
        BY <1>2 DEF Key
      <3> QED
        BY <1>4, <3>1, <3>2, <3>3
    <2>3. PICK m : m = Reply(id, shows)
      OBVIOUS
    <2>4. /\ m \in MessageType /\ m.role = "tool" /\ m.calls = <<>> /\ m.text
          /\ m.id = id /\ m.shows = {c.key}
      BY <1>7, <2>2, <2>3, ReplyIs
    <2>5. GoodMessage(m)
      BY <1>2, <1>4, <2>2, <2>4 DEF GoodMessage
    <2>6. conf.wire = "responses" => \A x \in Open \cup lost : x \in left2 \/ (m.role = "tool" /\ m.id = x.id)
      <3>1. Open = ToSet(left) /\ left2 = ToSet(Tail(left)) \cup lost
        BY <1>12 DEF Open
      <3>2. \A x \in ToSet(left) : x \in ToSet(Tail(left)) \/ x = c
        BY <1>2, <1>3, TailIs
      <3>3. conf.wire = "responses" => m.id = c.id
        BY <1>4, <1>12, <2>1, <2>4
      <3> QED
        BY <2>4, <3>1, <3>2, <3>3
    <2>7. Fit(conf.wire, Append(ms, m), requests, state, sent, left2)
      <3> HIDE DEF left2
      <3>1. m.role # "assistant" /\ m.id[1] = requests
        BY <2>2, <2>4
      <3> QED
        BY <1>2, <1>6, <2>4, <2>5, <2>6, <3>1, FitAppend
    <2>8. Delivered(c, w) = Append(ms, m) \o Warning(w)
      BY <1>5, <1>7, <1>12, <2>1, <2>3 DEF Delivered
    <2>9. ASSUME Len(left) = 1, c.key[2] = 1 PROVE DueKept(Append(ms, m), before)
      <3>1. Opened(ms, left, requests)
        BY <1>1, <1>4, <1>5, <1>12, <2>9 DEF Handling
      <3>2. PICK key : key = c.key
        OBVIOUS
      <3>3. /\ left[1].kind = "ok" /\ left[1].key = key /\ key[1] = requests /\ key \in m.shows
            /\ m.id = IF left[1].id = NoId THEN Fallback(key[1]) ELSE left[1].id
        BY <1>4, <2>1, <2>4, <3>2
      <3>4. \E i \in DOMAIN Append(ms, m) : SingleCall(Append(ms, m), key, i)
        BY <1>3, <2>4, <2>9, <3>1, <3>3, SingleCallMade
      <3>5. before.keys = {key} /\ ~before.warn
        BY <3>2
      <3> HIDE DEF before
      <3> QED
        BY <3>4, <3>5 DEF DueKept
    <2>10. ~Replaced
      BY <1>12 DEF Replaced
    <2> QED
      BY <1>4, <1>10, <2>4, <2>7, <2>8, <2>9, <2>10
  <1> QED
    BY <1>2, <1>9, <1>11, <1>12

\* A protocol failure: with the Responses API the call is answered under its id.
LEMMA MalformedHolds == ASSUME IInv, Malformed PROVE IInv'
  <1>1. PICK c : c = Head(left)
    OBVIOUS
  <1>2. /\ pc = "calls" /\ c.kind # "ok" /\ ~corrected /\ corrected' = TRUE /\ Handled
        /\ messages' = Append(messages, IF ToolAnswers(c) THEN Reply(c.id, {c.key})
                                                          ELSE User({}, FALSE))
        /\ UNCHANGED <<conf, requests, textual, pending, state, sent, due>>
    BY <1>1 DEF Malformed
  <1>3. Basic /\ Handling
    BY <1>2 DEF IInv
  <1>4. MaxRequests \in Nat /\ requests \in Nat \ {0} /\ textual \in BOOLEAN
    <2>1. MaxRequests \in Nat
      BY <1>3, Bounds DEF Basic
    <2> QED
      BY <1>3, <2>1 DEF Basic, Handling
  <1>5. PICK cs \in Seq(CallType), q \in Nat \ {0} : cs = left /\ q = requests
    BY <1>3, <1>4 DEF Basic
  <1>6. LeftGood(conf.wire, conf.native, textual, cs, q) /\ c = Head(cs)
    BY <1>1, <1>3, <1>5 DEF Handling
  <1>7. /\ c \in CallType /\ GoodCall(c) /\ c.key \in Key /\ c.key[1] = q
        /\ conf.wire = "responses" /\ ~textual =>
             conf.native /\ c.kind \in {"ok", "badargs", "nameless"} /\ c.id # NoId
    BY <1>6, HeadIs
  <1>8. PICK m : m = IF ToolAnswers(c) THEN Reply(c.id, {c.key}) ELSE User({}, FALSE)
    OBVIOUS
  <1>9. PICK lost : lost = IF ~ToolAnswers(c) /\ c.kind = "nameless" THEN {c} ELSE {}
    OBVIOUS
  <1>10. lost \in Lost(TRUE)
    BY <1>7, <1>9 DEF Lost
  <1>11. PICK left2 : left2 = (IF textual THEN {} ELSE ToSet(Tail(left))) \cup lost
    OBVIOUS
  <1>12. ~textual => \A x \in Open : x \in left2 \/ x = c
    <2>1. \A x \in ToSet(cs) : x \in ToSet(Tail(cs)) \/ x = c
      BY <1>6, TailIs
    <2> QED
      BY <1>5, <1>11, <2>1 DEF Open
  <1>13. textual => Open = {}
    BY DEF Open
  <1>14. Fit(conf.wire, messages, q, state, sent, Open)
    <2>1. PICK old \in Lost(corrected) :
             Fit(conf.wire, messages, requests, state, sent, Open \cup old)
      BY <1>3 DEF Handling
    <2>2. old = {}
      BY <1>2, <2>1 DEF Lost
    <2> QED
      BY <1>5, <2>1, <2>2
  <1>15. Fit(conf.wire, Append(messages, m), q, state, sent, left2)
    <2>1. CASE ToolAnswers(c)
      <3>1. PICK shows \in SUBSET Key : shows = {c.key}
        BY <1>7
      <3>2. c.id # NoId /\ c.id = c.key
        BY <1>7, <2>1 DEF ToolAnswers, GoodCall
      <3>3. PICK id \in Key : id = c.id
        BY <1>7, <3>2
      <3>4. /\ m \in MessageType /\ m.role = "tool" /\ m.calls = <<>> /\ m.text
            /\ m.id = id /\ m.shows = shows
        BY <1>8, <2>1, <3>1, <3>3, ReplyIs
      <3>5. m.id[1] = q
        BY <1>7, <3>2, <3>3, <3>4
      <3>6. GoodMessage(m)
        BY <1>7, <3>1, <3>4, <3>5 DEF GoodMessage
      <3>7. conf.wire = "responses" => \A x \in Open : x \in left2 \/ (m.role = "tool" /\ m.id = x.id)
        BY <1>4, <1>12, <1>13, <3>3, <3>4
      <3>8. m.role # "assistant"
        BY <3>4
      <3> QED
        BY <1>14, <3>4, <3>5, <3>6, <3>7, <3>8, FitAppend
    <2>2. CASE ~ToolAnswers(c)
      <3>1. PICK none \in SUBSET Key : none = {}
        OBVIOUS
      <3>2. PICK no \in BOOLEAN : no = FALSE
        OBVIOUS
      <3>3. m = User(none, no)
        BY <1>8, <2>2, <3>1, <3>2
      <3>4. /\ m \in MessageType /\ m.role = "user" /\ m.calls = <<>> /\ m.text
        BY <3>3, UserIs
      <3>5. m.role # "assistant" /\ m.role # "tool"
        BY <3>4
      <3>6. GoodMessage(m)
        BY <3>4, <3>5 DEF GoodMessage
      <3>7. conf.wire = "responses" => \A x \in Open : x \in left2 \/ (m.role = "tool" /\ m.id = x.id)
        <4>1. conf.wire = "responses" /\ ~textual => c.kind = "nameless"
          BY <1>2, <1>7, <2>2 DEF ToolAnswers
        <4>2. conf.wire = "responses" /\ ~textual => c \in left2
          BY <1>9, <1>11, <2>2, <4>1
        <4> QED
          BY <1>12, <1>13, <4>2
      <3> QED
        BY <1>14, <3>4, <3>5, <3>6, <3>7, FitAppend
    <2> QED
      BY <2>1, <2>2
  <1>16. Fit(conf.wire, messages', requests, state', sent,
             (IF textual THEN {} ELSE ToSet(Tail(left))) \cup lost)
    BY <1>2, <1>5, <1>8, <1>15, <1>11
  <1>17. due' = NothingDue /\ DueKept(messages', due') /\ state'.cursor = Len(state'.prefix)
    BY <1>2, <1>3, NothingKept DEF Handling, Basic
  <1>18. corrected' \in BOOLEAN /\ pending' \in BOOLEAN
    BY <1>2, <1>3 DEF Basic
  <1> QED
    BY <1>2, <1>16, <1>17, <1>18, <1>10, HandledHolds

\* A result, told by a transcript that is fit.
LEMMA ResultHolds ==
  ASSUME IInv, NEW c, c = Head(left), NEW w \in BOOLEAN, Deliver(c, w), NEW st, NEW told,
         NEW lost \in Lost(corrected),
         Fit(conf.wire, told, requests, st, sent,
             (IF textual THEN {} ELSE ToSet(Tail(left))) \cup lost),
         DueKept(told, due'), messages' = told, state' = st, st = Fresh \/ st = state
  PROVE  IInv'
  <1>1. /\ pc = "calls" /\ pending' = FALSE /\ Handled
        /\ UNCHANGED <<conf, requests, textual, corrected, sent>>
        /\ Len(left) # 1 => due' = NothingDue
    BY DEF Deliver
  <1>2. corrected' \in BOOLEAN /\ pending' \in BOOLEAN
    BY <1>1 DEF IInv, Basic
  <1>3. state'.cursor = Len(state'.prefix)
    BY DEF Fresh, IInv, Basic
  <1>4. /\ Fit(conf.wire, messages', requests, state', sent,
               (IF textual THEN {} ELSE ToSet(Tail(left))) \cup lost)
        /\ lost \in Lost(corrected')
    BY <1>1
  <1> QED
    BY <1>1, <1>2, <1>3, <1>4, HandledHolds

\* What a delivered result is due, and that its transcript is fit.
LEMMA DeliverFacts ==
  ASSUME IInv, NEW c, c = Head(left), NEW w \in BOOLEAN, Deliver(c, w)
  PROVE  /\ \E lost \in Lost(corrected) :
              Fit(conf.wire, Delivered(c, w), requests, IF Replaced THEN Fresh ELSE state, sent,
                  (IF textual THEN {} ELSE ToSet(Tail(left))) \cup lost)
         /\ DueKept(Delivered(c, w), due') /\ Recent(Delivered(c, w), due', 2)
         /\ c.key \in Key /\ due'.keys \subseteq {c.key} /\ (due'.warn => w)
         /\ requests \in Nat
  <1>1. pc = "calls" /\ c.kind = "ok"
    BY DEF Deliver
  <1>2. PICK d : d = IF Len(left) = 1 /\ c.key[2] = 1 THEN [keys |-> {c.key}, warn |-> w]
                     ELSE NothingDue
    OBVIOUS
  <1>3. due' = d
    BY <1>2 DEF Deliver
  <1>4. PICK lost \in Lost(corrected) :
           Fit(conf.wire, messages, requests, state, sent, Open \cup lost)
    BY <1>1 DEF IInv, Handling
  <1>5. /\ Fit(conf.wire, Delivered(c, w), requests, IF Replaced THEN Fresh ELSE state, sent,
               (IF textual THEN {} ELSE ToSet(Tail(left))) \cup lost)
        /\ DueKept(Delivered(c, w), d) /\ Recent(Delivered(c, w), d, 2)
        /\ c.key \in Key
    BY <1>1, <1>2, <1>4, DeliveredFacts
  <1>6. d.keys \subseteq {c.key} /\ (d.warn => w)
    BY <1>2 DEF NothingDue
  <1>7. requests \in Nat
    BY <1>1, Bounds DEF IInv, Basic
  <1> QED
    BY <1>3, <1>5, <1>6, <1>7, <1>4

\* A budget refuses the call.
LEMMA RefuseHolds == ASSUME IInv, Refuse PROVE IInv'
  <1>1. PICK c : c = Head(left)
    OBVIOUS
  <1>2. PICK w \in BOOLEAN : /\ Deliver(c, w) /\ messages' = Delivered(c, w)
                             /\ state' = IF Replaced THEN Fresh ELSE state
    BY <1>1 DEF Refuse
  <1>3. PICK lost \in Lost(corrected) :
          /\ Fit(conf.wire, Delivered(c, w), requests, IF Replaced THEN Fresh ELSE state, sent,
                 (IF textual THEN {} ELSE ToSet(Tail(left))) \cup lost)
          /\ DueKept(Delivered(c, w), due')
    BY <1>1, <1>2, DeliverFacts
  <1>4. PICK st : st = IF Replaced THEN Fresh ELSE state
    OBVIOUS
  <1>5. PICK told : told = Delivered(c, w)
    OBVIOUS
  <1> QED
    BY <1>1, <1>2, <1>3, <1>4, <1>5, ResultHolds

\* The last six messages show it still when one more follows.
LEMMA RecentEnough ==
  ASSUME NEW ms \in Seq(MessageType), NEW d, NEW n \in 0 .. 6, Recent(ms, d, n)
  PROVE  Recent(ms, d, 6)
  <1>1. \A i \in DOMAIN ms : i > Len(ms) - n => i > Len(ms) - 6
    OBVIOUS
  <1>2. \A key \in d.keys : \E i \in DOMAIN ms : i > Len(ms) - 6 /\ key \in ms[i].shows
    BY <1>1 DEF Recent
  <1>3. d.warn => \E i \in DOMAIN ms : i > Len(ms) - 6 /\ ms[i].warn
    BY <1>1 DEF Recent
  <1> QED
    BY <1>2, <1>3 DEF Recent

\* A tool runs, and a long transcript is compacted.
LEMMA ExecuteHolds == ASSUME IInv, Execute PROVE IInv'
  <1>1. PICK c : c = Head(left)
    OBVIOUS
  <1>2. PICK w \in BOOLEAN :
          /\ Deliver(c, w) /\ messages' = Compacted(Delivered(c, w))
          /\ state' = IF Replaced \/ TooLong(Delivered(c, w)) THEN Fresh ELSE state
    BY <1>1 DEF Execute
  <1>3. PICK told : told = Delivered(c, w)
    OBVIOUS
  <1>4. PICK base : base = IF Replaced THEN Fresh ELSE state
    OBVIOUS
  <1>5. PICK lost, left2 :
          /\ lost \in Lost(corrected)
          /\ left2 = (IF textual THEN {} ELSE ToSet(Tail(left))) \cup lost
          /\ Fit(conf.wire, told, requests, base, sent, left2)
    BY <1>1, <1>2, <1>3, <1>4, DeliverFacts
  <1>6. /\ Fit(conf.wire, told, requests, base, sent, left2)
        /\ DueKept(told, due') /\ Recent(told, due', 2)
    BY <1>1, <1>2, <1>3, <1>5, DeliverFacts
  <1>7. PICK d : d = due'
    OBVIOUS
  <1>8. Recent(told, d, 6)
    <2>1. told \in Seq(MessageType)
      BY <1>6 DEF Fit, Good, Lawful
    <2>2. PICK n \in 0 .. 6 : n = 2
      OBVIOUS
    <2> QED
      BY <1>6, <1>7, <2>1, <2>2, RecentEnough
  <1>9. PICK st : st = IF TooLong(told) THEN Fresh ELSE base
    OBVIOUS
  <1>10. Fit(conf.wire, Compacted(told), requests, st, sent, left2) /\ DueKept(Compacted(told), d)
    BY <1>6, <1>7, <1>8, <1>9, CompactedFit
  <1>11. state' = st /\ (st = Fresh \/ st = state)
    BY <1>2, <1>3, <1>4, <1>9
  <1>12. PICK new : new = Compacted(told)
    OBVIOUS
  <1> QED
    BY <1>1, <1>2, <1>3, <1>5, <1>7, <1>10, <1>11, <1>12, ResultHolds

\* The prover of a strict harness is called again.
LEMMA StrictRepairHolds == ASSUME IInv, StrictRepair PROVE IInv'
  <1>1. PICK c : c = Head(left)
    OBVIOUS
  <1>2. PICK w \in BOOLEAN :
          LET told == Append(Delivered(c, w), User({}, FALSE)) IN
          /\ Deliver(c, w) /\ messages' = Compacted(told)
          /\ state' = IF Replaced \/ TooLong(told) THEN Fresh ELSE state
    BY <1>1 DEF StrictRepair
  <1>3. PICK none \in SUBSET Key : none = {}
    OBVIOUS
  <1>4. PICK u : u = User(none, FALSE)
    OBVIOUS
  <1>5. PICK ms : ms = Delivered(c, w)
    OBVIOUS
  <1>6. PICK told : told = Append(ms, u)
    OBVIOUS
  <1>7. /\ Deliver(c, w) /\ messages' = Compacted(told)
        /\ state' = IF Replaced \/ TooLong(told) THEN Fresh ELSE state
    BY <1>2, <1>3, <1>4, <1>5, <1>6
  <1>8. PICK base : base = IF Replaced THEN Fresh ELSE state
    OBVIOUS
  <1>9. PICK lost, left2 :
          /\ lost \in Lost(corrected)
          /\ left2 = (IF textual THEN {} ELSE ToSet(Tail(left))) \cup lost
          /\ Fit(conf.wire, ms, requests, base, sent, left2)
    BY <1>1, <1>5, <1>7, <1>8, DeliverFacts
  <1>10. /\ Fit(conf.wire, ms, requests, base, sent, left2)
         /\ DueKept(ms, due') /\ Recent(ms, due', 2) /\ requests \in Nat
    BY <1>1, <1>5, <1>7, <1>9, DeliverFacts
  <1>11. PICK d : d = due'
    OBVIOUS
  <1>12. u \in MessageType /\ u.role = "user"
    BY <1>4, UserIs
  <1>13. ms \in Seq(MessageType)
    BY <1>10 DEF Fit, Good, Lawful
  <1>14. Fit(conf.wire, told, requests, base, sent, left2)
    BY <1>4, <1>6, <1>10, UserFit
  <1>15. DueKept(told, d) /\ Recent(told, d, 6)
    <2>1. u.role \notin {"tool", "assistant"}
      BY <1>12
    <2>2. PICK n \in Nat : n = 2
      OBVIOUS
    <2>3. DueKept(told, d) /\ Recent(told, d, n + 1)
      BY <1>6, <1>10, <1>11, <1>12, <1>13, <2>1, <2>2, DueAppend
    <2>4. PICK k \in 0 .. 6 : k = n + 1
      BY <2>2
    <2>5. told \in Seq(MessageType)
      BY <1>14 DEF Fit, Good, Lawful
    <2> QED
      BY <2>3, <2>4, <2>5, RecentEnough
  <1>16. PICK st : st = IF TooLong(told) THEN Fresh ELSE base
    OBVIOUS
  <1>17. Fit(conf.wire, Compacted(told), requests, st, sent, left2) /\ DueKept(Compacted(told), d)
    BY <1>14, <1>15, <1>16, CompactedFit
  <1>18. state' = st /\ (st = Fresh \/ st = state)
    BY <1>7, <1>8, <1>16
  <1>19. PICK new : new = Compacted(told)
    OBVIOUS
  <1> QED
    BY <1>1, <1>7, <1>9, <1>11, <1>17, <1>18, <1>19, ResultHolds

\* The repair prompt of a failed check carries the attempt and the warning.
LEMMA DiagnosticRepairHolds == ASSUME IInv, DiagnosticRepair PROVE IInv'
  <1>1. PICK c : c = Head(left)
    OBVIOUS
  <1>2. PICK w \in BOOLEAN : Deliver(c, w) /\ messages' = RepairPrompt(c, w) /\ state' = Fresh
    BY <1>1 DEF DiagnosticRepair
  <1>3. c.key \in Key /\ due'.keys \subseteq {c.key} /\ (due'.warn => w)
    BY <1>1, <1>2, DeliverFacts
  <1>4. PICK shows \in SUBSET Key : shows = {c.key}
    BY <1>3
  <1>5. PICK s : s = System
    OBVIOUS
  <1>6. s \in MessageType /\ s.role = "system" /\ s.calls = <<>> /\ s.text
    BY <1>5, SystemIs
  <1>7. PICK u : u = User(shows, w)
    OBVIOUS
  <1>8. /\ u \in MessageType /\ u.role = "user" /\ u.calls = <<>> /\ u.text
        /\ u.shows = shows /\ u.warn = w
    BY <1>7, UserIs
  <1>9. PICK new : new = <<s, u>>
    OBVIOUS
  <1>10. /\ new \in Seq(MessageType) /\ DOMAIN new = {1, 2} /\ new[1] = s /\ new[2] = u
    BY <1>6, <1>8, <1>9
  <1>11. \A i \in DOMAIN new : new[i].role \in {"system", "user"} /\ new[i].calls = <<>> /\ new[i].text
    BY <1>6, <1>8, <1>10
  <1>12. PICK lost, left2 :
           /\ lost \in Lost(corrected)
           /\ left2 = (IF textual THEN {} ELSE ToSet(Tail(left))) \cup lost
    BY DEF Lost
  <1>13. Fit(conf.wire, new, requests, Fresh, sent, left2)
    BY <1>10, <1>11, FitAnew
  <1>14. DueKept(new, due')
    <2>1. PICK d : d = due'
      OBVIOUS
    <2>2. 2 \in DOMAIN new /\ new[2].role # "tool" /\ new[2].shows = {c.key} /\ new[2].warn = w
      BY <1>4, <1>8, <1>10
    <2>3. d.keys \subseteq {c.key} /\ (d.warn => w)
      BY <1>3, <2>1
    <2>4. DueKept(new, d)
      BY <2>2, <2>3 DEF DueKept
    <2> QED
      BY <2>1, <2>4
  <1>15. messages' = new
    BY <1>2, <1>4, <1>5, <1>7, <1>9 DEF RepairPrompt
  <1>16. PICK st : st = Fresh
    OBVIOUS
  <1> QED
    BY <1>1, <1>2, <1>12, <1>13, <1>14, <1>15, <1>16, ResultHolds

\* No step breaks the invariant.
LEMMA StepHolds == ASSUME IInv, [Next]_vars PROVE IInv'
  <1>1. CASE Next
    BY <1>1, AskHolds, StopHolds, RespondTextHolds, RespondCallsHolds, RespondTextCallsHolds,
       MalformedHolds, RefuseHolds, ExecuteHolds, StrictRepairHolds, DiagnosticRepairHolds DEF Next
  <1>2. CASE UNCHANGED vars
    <2>1. Basic' = Basic /\ AtTop' = AtTop /\ Waiting' = Waiting /\ Handling' = Handling /\ pc' = pc
      BY <1>2 DEF vars, Basic, AtTop, Waiting, Handling, Open
    <2> QED
      BY <2>1 DEF IInv
  <1> QED
    BY <1>1, <1>2

-----------------------------------------------------------------------------
(* The theorems.                                                           *)

\* Along every run the transcript is fit for the wire and for the response in hand.
THEOREM Invariance == Spec => []IInv
  <1>1. Init => IInv
    BY InitHolds
  <1>2. IInv /\ [Next]_vars => IInv'
    BY StepHolds
  <1> QED
    BY <1>1, <1>2, PTL DEF Spec

\* A chat request in which each reply stands in its turn.
LEMMA ChatForm ==
  ASSUME IInv, Chat
  PROVE  sent = Sanitize(messages) /\ Lawful(messages) /\ Formed(sent) /\ sent \in Seq(MessageType)
  <1>1. Lawful(messages) /\ sent = Sanitize(messages)
    BY DEF IInv, Basic, Waiting, Chat
  <1> QED
    BY <1>1, SanitizeFacts

\* In every request the loop sends, each call on the chat wire has its own reply after
\* it, of its turn, and on the Responses wire every call is answered but the nameless
\* one the correction was spent on, whatever was appended, corrected, warned of or
\* compacted.
THEOREM WellFormed == Spec => []RequestsWellFormed
  <1>1. ASSUME IInv PROVE TypeOK
    <2>1. messages \in Seq(MessageType)
      BY <1>1 DEF IInv, Basic, Lawful
    <2>2. \A i \in DOMAIN messages : messages[i].role \in {"system", "user", "assistant", "tool"}
      <3>1. ASSUME NEW i \in DOMAIN messages
            PROVE  messages[i].role \in {"system", "user", "assistant", "tool"}
        <4>1. PICK m \in MessageType : m = messages[i]
          BY <2>1
        <4> QED
          BY <4>1 DEF MessageType
      <3> QED
        BY <3>1
    <2> QED
      BY <1>1, <2>2 DEF IInv, Basic, TypeOK
  <1>2. ASSUME IInv PROVE RepliesFollowCalls
    <2> SUFFICES ASSUME Chat, NEW i \in DOMAIN sent
                 PROVE  /\ sent[i].role = "tool" =>
                             \E k \in 1 .. i - 1 :
                               /\ i - k <= Len(RealCalls(sent[k]))
                               /\ \A j \in k + 1 .. i : sent[j].role = "tool"
                        /\ \A j \in 1 .. Len(RealCalls(sent[i])) :
                             i + j <= Len(sent) /\ sent[i + j].role = "tool"
      BY DEF RepliesFollowCalls
    <2>1. Formed(sent)
      BY <1>2, ChatForm
    <2>2. sent[i].role = "tool" =>
            \E k \in 1 .. i - 1 :
              /\ i - k <= Len(RealCalls(sent[k]))
              /\ \A j \in k + 1 .. i : sent[j].role = "tool"
      BY <2>1 DEF Formed
    <2>3. \A j \in 1 .. Len(RealCalls(sent[i])) :
            i + j <= Len(sent) /\ Suits(sent[i + j], RealCalls(sent[i])[j])
      BY <2>1 DEF Formed
    <2> QED
      BY <2>2, <2>3 DEF Suits
  <1>3. ASSUME IInv PROVE ResultsStayInTurn
    <2> SUFFICES ASSUME Chat, NEW i \in DOMAIN sent, NEW j \in 1 .. Len(RealCalls(sent[i])),
                        NEW key \in sent[i + j].shows
                 PROVE  key[1] = RealCalls(sent[i])[j].key[1]
      BY DEF ResultsStayInTurn
    <2>1. Suits(sent[i + j], RealCalls(sent[i])[j])
      BY <1>3, ChatForm DEF Formed
    <2> QED
      BY <2>1 DEF Suits
  <1>4. ASSUME IInv PROVE CallsAnswered
    <2> SUFFICES ASSUME Responses
                 PROVE  /\ \A c \in Unanswered : c.kind = "nameless" /\ corrected
                        /\ \A c, d \in Unanswered : c = d
      BY DEF CallsAnswered
    <2>1. PICK lost \in Lost(corrected) : sent = messages /\ Owed(messages, lost)
      BY <1>4 DEF IInv, Waiting, Responses
    <2>2. ASSUME NEW c \in Unanswered PROVE c \in lost
      <3>1. PICK i \in DOMAIN sent :
              /\ c \in ToSet(sent[i].calls)
              /\ ~\E j \in DOMAIN sent : j > i /\ sent[j].role = "tool" /\ sent[j].id = c.id
        BY DEF Unanswered
      <3>2. PICK k \in DOMAIN sent[i].calls : c = sent[i].calls[k]
        BY <3>1 DEF ToSet
      <3> QED
        BY <2>1, <3>1, <3>2 DEF Owed
    <2>3. CASE lost = {}
      BY <2>2, <2>3
    <2>4. CASE lost # {}
      <3>1. PICK e \in CallType : lost = {e} /\ corrected /\ e.kind = "nameless"
        BY <2>4 DEF Lost
      <3> QED
        BY <2>2, <3>1
    <2> QED
      BY <2>3, <2>4
  <1>5. IInv => RequestsWellFormed
    BY <1>1, <1>2, <1>3, <1>4 DEF RequestsWellFormed
  <1> QED
    BY <1>5, Invariance, PTL

\* The conversation a Responses provider holds is the transcript: nothing compacted
\* away is continued, nothing is sent twice, nothing is skipped.
THEOREM Provider == Spec => []ProviderSeesTranscript
  <1>1. IInv => ProviderSeesTranscript
    BY DEF IInv, Waiting, Responses, ProviderSeesTranscript
  <1> QED
    BY <1>1, Invariance, PTL

\* What a response's only call showed, and the warning it earned, are in the next
\* request.
THEOREM ResultReaches == Spec => []ResultReachesDriver
  <1>1. ASSUME IInv PROVE ResultReachesDriver
    <2> SUFFICES ASSUME pc = "waiting"
                 PROVE  /\ \A key \in due.keys : \E i \in DOMAIN sent : key \in sent[i].shows
                        /\ due.warn => \E i \in DOMAIN sent : sent[i].warn
      BY DEF ResultReachesDriver
    <2>1. /\ Lawful(messages) /\ DueKept(messages, due) /\ conf.wire \in {"chat", "responses"}
          /\ sent = IF conf.wire = "chat" THEN Sanitize(messages) ELSE messages
      BY <1>1, Bounds DEF IInv, Basic, Waiting
    <2>2. ASSUME NEW key \in due.keys PROVE \E m : Within(m, sent) /\ key \in m.shows
      <3>1. CASE \E i \in DOMAIN messages : messages[i].role # "tool" /\ key \in messages[i].shows
        <4>1. PICK i \in DOMAIN messages : messages[i].role # "tool" /\ key \in messages[i].shows
          BY <3>1
        <4>2. Within(messages[i], sent)
          <5>1. CASE conf.wire = "chat"
            BY <2>1, <4>1, <5>1, SanitizeFacts
          <5>2. CASE conf.wire # "chat"
            BY <2>1, <4>1, <5>2 DEF Within
          <5> QED
            BY <5>1, <5>2
        <4> QED
          BY <4>1, <4>2
      <3>2. CASE \E i \in DOMAIN messages : SingleCall(messages, key, i)
        <4>1. PICK i \in DOMAIN messages : SingleCall(messages, key, i)
          BY <3>2
        <4>2. Within(messages[i + 1], sent) /\ key \in messages[i + 1].shows
          <5>1. i + 1 \in DOMAIN messages /\ key \in messages[i + 1].shows
            BY <4>1 DEF SingleCall
          <5>2. CASE conf.wire = "chat"
            BY <2>1, <4>1, <5>1, <5>2, SanitizeReaches
          <5>3. CASE conf.wire # "chat"
            BY <2>1, <5>1, <5>3 DEF Within
          <5> QED
            BY <5>2, <5>3
        <4> QED
          BY <4>2
      <3> QED
        BY <2>1, <3>1, <3>2 DEF DueKept
    <2>3. ASSUME due.warn PROVE \E m : Within(m, sent) /\ m.warn
      <3>1. PICK i \in DOMAIN messages : messages[i].role # "tool" /\ messages[i].warn
        BY <2>1, <2>3 DEF DueKept
      <3>2. Within(messages[i], sent)
        <4>1. CASE conf.wire = "chat"
          BY <2>1, <3>1, <4>1, SanitizeFacts
        <4>2. CASE conf.wire # "chat"
          BY <2>1, <3>1, <4>2 DEF Within
        <4> QED
          BY <4>1, <4>2
      <3> QED
        BY <3>1, <3>2
    <2> QED
      BY <2>2, <2>3 DEF Within
  <1>2. IInv => ResultReachesDriver
    BY <1>1
  <1> QED
    BY <1>2, Invariance, PTL
===============================================================================
