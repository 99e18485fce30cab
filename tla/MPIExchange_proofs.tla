--------------------------- MODULE MPIExchange_proofs ---------------------------
(***************************************************************************)
(* Proofs about MPIExchange, for any ranks, any finite set of requests and *)
(* any scripts, whatever order MPI lets messages go and come in.           *)
(***************************************************************************)
EXTENDS MPIExchange, FiniteSetTheorems, SequenceTheorems, WellFoundedInduction, TLAPS

-----------------------------------------------------------------------------
(* The sets the variables are in. *)

Requests == [dir : {"Send", "Recv"}, at : Nat, ch : Channels, n : Nat \ {0}, done : BOOLEAN]
Entries  == [dir : {"Send", "Recv"}, at : Nat, state : 0 .. 3]

(* What may be in a message. *)
Sendable == {prog[r][i].obj : r \in Ranks, i \in Nat}
Messages == [obj : Sendable, part : 1 .. 4]
Nets     == [req : [Handles -> Requests \cup {Null}], sent : [Channels -> Seq(Messages)],
             posted : [Channels -> Nat]]
Waits    == [queue : Seq(Keys), round : Nat, index : Keys \cup {Null}]

Scripts == \A r \in Ranks : IsScript(prog[r], r)

Types ==
  /\ Scripts
  /\ pc \in [Ranks -> Nat \ {0}]
  /\ \A r \in Ranks : pc[r] <= Len(prog[r]) + 1
  /\ net \in Nets
  /\ todo \in [Ranks -> [Keys -> Entries \cup {Null}]]
  /\ waits \in [Ranks -> Waits]

(* An entry of the table is that of a mesh or a matrix already posted. *)
EntryOK(r, k) == todo[r][k] # Null =>
  LET x == prog[r][todo[r][k].at] IN
  /\ todo[r][k].at \in 1 .. pc[r] - 1
  /\ x.op = todo[r][k].dir
  /\ WhatOf(x) \in {"mesh", "matrix"}

(* The memory of a message is that of an entry, unless it is of the script *)
Held(h) ==
  LET x == prog[h[1]][net.req[h].at] IN
  \/ WhatOf(x) = "array" \/ (x.op = "Send" /\ x.obj.parts = 0)
  \/ todo[h[1]][h[2]] # Null /\ todo[h[1]][h[2]].at = net.req[h].at

FirstOK(r, k) == net.req[<<r, k, 1>>] # Null =>
  /\ net.req[<<r, k, 1>>].at \in 1 .. pc[r] - 1
  /\ Held(<<r, k, 1>>)

(* rqSecond is of a mesh that is being sent, and lives in its entry. *)
SecondOK(r, k) == net.req[<<r, k, 2>>] # Null =>
  /\ todo[r][k] # Null
  /\ net.req[<<r, k, 2>>].at = todo[r][k].at
  /\ todo[r][k].dir = "Send"
  /\ WhatOf(prog[r][todo[r][k].at]) = "mesh"

(* The requests found completed and not yet treated are null, and no other *)
(* is posted in the meantime.                                              *)
QueueOK(r) ==
  LET q == waits[r].queue IN
  /\ \A i \in 1 .. Len(q) : net.req[<<r, q[i], 1>>] = Null
  /\ \A i, j \in 1 .. Len(q) : i # j => q[i] # q[j]
  /\ q # <<>> => At(r, {"Wait", "WaitAny", "WaitAll"})

Inv ==
  /\ Types
  /\ \A r \in Ranks, k \in Keys : EntryOK(r, k) /\ FirstOK(r, k) /\ SecondOK(r, k)
  /\ \A r \in Ranks : QueueOK(r)

(* The condition, on one step: no request is used again before it is over. *)
Reused ==
  \A r \in Ranks : Post(r) =>
    LET k == prog[r][pc[r]].k IN todo[r][k] = Null /\ net.req[<<r, k, 1>>] = Null

-----------------------------------------------------------------------------
(* Posting. *)

(* A handle is a rank, a request and a number. *)
LEMMA HandleIs ==
  ASSUME NEW h \in Handles
  PROVE  /\ h[1] \in Ranks /\ h[2] \in Keys /\ h[3] \in {1, 2}
         /\ h = <<h[1], h[2], h[3]>>
BY DEF Handles

LEMMA IsHandle ==
  ASSUME NEW r \in Ranks, NEW k \in Keys, NEW s \in {1, 2}
  PROVE  <<r, k, s>> \in Handles
BY DEF Handles

(* The instructions of a script that post. *)
LEMMA Posting ==
  ASSUME Scripts, NEW r \in Ranks, NEW i \in 1 .. Len(prog[r])
  PROVE  /\ prog[r][i].op = "Send" =>
              /\ prog[r][i].k \in Keys /\ prog[r][i].peer \in Ranks \ {r}
              /\ prog[r][i].obj.what \in Kinds
         /\ prog[r][i].op = "Recv" =>
              /\ prog[r][i].k \in Keys /\ prog[r][i].peer \in Ranks \ {r}
              /\ prog[r][i].what \in Kinds
BY DEF Scripts, IsScript

(* d is g with a request of instruction at under h. *)
Puts(g, d, h, at) ==
  /\ d \in Nets
  /\ d.req[h] # Null /\ d.req[h].at = at
  /\ \A a \in Handles : a # h => d.req[a] = g.req[a]

(* MPI_Isend: one request, of this instruction. *)
LEMMA PostSendNet ==
  ASSUME Scripts, NEW g \in Nets, NEW r \in Ranks, NEW k \in Keys, NEW s \in {1, 2},
         NEW at \in 1 .. Len(prog[r]), NEW o, o = prog[r][at].obj, prog[r][at].op = "Send",
         NEW part \in 1 .. 4, Tag(o.what, part) \in Tags
  PROVE  Puts(g, PostSend(g, <<r, k, s>>, at, o, part), <<r, k, s>>, at)
<1> DEFINE h == <<r, k, s>>
           c == <<r, prog[r][at].peer, Tag(o.what, part)>>
           q == [dir |-> "Send", at |-> at, ch |-> c, n |-> Len(g.sent[c]) + 1, done |-> FALSE]
           x == [obj |-> o, part |-> part]
<1>1. h \in Handles
  BY IsHandle
<1>2. Len(prog[r]) \in Nat /\ at \in Nat
  BY DEF Scripts, IsScript
<1>3. c \in Channels
  BY Posting DEF Channels
<1>4. g.sent[c] \in Seq(Messages) /\ Len(g.sent[c]) \in Nat
  BY <1>3, LenProperties DEF Nets
<1>5. q \in Requests
  BY <1>2, <1>3, <1>4 DEF Requests
<1>6. x \in Messages
  BY <1>2 DEF Messages, Sendable
<1>7. Append(g.sent[c], x) \in Seq(Messages)
  BY <1>4, <1>6, AppendProperties
<1> DEFINE R == [g.req EXCEPT ![h] = q]
           S == [g.sent EXCEPT ![c] = Append(g.sent[c], x)]
<1>8. PostSend(g, h, at, o, part) = [g EXCEPT !.req = R, !.sent = S]
  BY DEF PostSend
<1> HIDE DEF h, c, q, x
<1>9. R \in [Handles -> Requests \cup {Null}] /\ S \in [Channels -> Seq(Messages)]
  BY <1>1, <1>3, <1>5, <1>7 DEF Nets
<1>10. /\ PostSend(g, h, at, o, part) \in Nets
       /\ PostSend(g, h, at, o, part).req = [g.req EXCEPT ![h] = q]
  <2> HIDE DEF R, S
  <2>1. [g EXCEPT !.req = R, !.sent = S] \in Nets /\ [g EXCEPT !.req = R, !.sent = S].req = R
    BY <1>9 DEF Nets
  <2> QED BY <1>8, <2>1 DEF R
<1>11. q # Null /\ q.at = at
  BY <1>5, NullAssumption DEF q, Requests
<1> QED BY <1>1, <1>10, <1>11 DEF h, Puts, Nets

(* MPI_Irecv *)
LEMMA PostRecvNet ==
  ASSUME Scripts, NEW g \in Nets, NEW r \in Ranks, NEW k \in Keys, NEW s \in {1, 2},
         NEW at \in 1 .. Len(prog[r]), prog[r][at].op = "Recv",
         NEW what, NEW part, Tag(what, part) \in Tags
  PROVE  Puts(g, PostRecv(g, <<r, k, s>>, at, what, part), <<r, k, s>>, at)
<1> DEFINE h == <<r, k, s>>
           c == <<prog[r][at].peer, r, Tag(what, part)>>
           q == [dir |-> "Recv", at |-> at, ch |-> c, n |-> g.posted[c] + 1, done |-> FALSE]
<1>1. h \in Handles
  BY IsHandle
<1>2. Len(prog[r]) \in Nat /\ at \in Nat
  BY DEF Scripts, IsScript
<1>3. c \in Channels
  BY Posting DEF Channels
<1>4. g.posted[c] \in Nat
  BY <1>3 DEF Nets
<1>5. q \in Requests
  BY <1>2, <1>3, <1>4 DEF Requests
<1> DEFINE R == [g.req EXCEPT ![h] = q]
           S == [g.posted EXCEPT ![c] = g.posted[c] + 1]
<1>6. PostRecv(g, h, at, what, part) = [g EXCEPT !.req = R, !.posted = S]
  BY DEF PostRecv
<1> HIDE DEF h, c, q
<1>7. R \in [Handles -> Requests \cup {Null}] /\ S \in [Channels -> Nat]
  BY <1>1, <1>3, <1>4, <1>5 DEF Nets
<1>8. /\ PostRecv(g, h, at, what, part) \in Nets
      /\ PostRecv(g, h, at, what, part).req = [g.req EXCEPT ![h] = q]
  <2> HIDE DEF R, S
  <2>1. [g EXCEPT !.req = R, !.posted = S] \in Nets /\ [g EXCEPT !.req = R, !.posted = S].req = R
    BY <1>7 DEF Nets
  <2> QED BY <1>6, <2>1 DEF R
<1>9. q # Null /\ q.at = at
  BY <1>5, NullAssumption DEF q, Requests
<1> QED BY <1>1, <1>8, <1>9 DEF h, Puts, Nets

(* The tags of the parts of an object. *)
LEMMA PartTags ==
  /\ \A what \in Kinds : Tag(what, 1) \in Tags
  /\ \A part \in 1 .. 2 : Tag("mesh", part) \in Tags
  /\ \A part \in 1 .. 4 : Tag("matrix", part) \in Tags
BY DEF Kinds, Tag, Tags

-----------------------------------------------------------------------------
(* Steps. *)

(* A step that touches one request of one rank. *)
LEMMA Local ==
  ASSUME Inv, Types', prog' = prog, NEW r \in Ranks, NEW k \in Keys,
         \A a \in Ranks : pc'[a] >= pc[a],
         \A a \in Ranks, b \in Keys : a # r \/ b # k =>
           /\ todo'[a][b] = todo[a][b]
           /\ net'.req[<<a, b, 1>>] = net.req[<<a, b, 1>>]
           /\ net'.req[<<a, b, 2>>] = net.req[<<a, b, 2>>],
         EntryOK(r, k)', FirstOK(r, k)', SecondOK(r, k)', \A a \in Ranks : QueueOK(a)'
  PROVE  Inv'
<1>1. ASSUME NEW a \in Ranks, NEW b \in Keys, a # r \/ b # k
      PROVE  EntryOK(a, b)' /\ FirstOK(a, b)' /\ SecondOK(a, b)'
  <2>1. /\ todo'[a][b] = todo[a][b]
        /\ net'.req[<<a, b, 1>>] = net.req[<<a, b, 1>>]
        /\ net'.req[<<a, b, 2>>] = net.req[<<a, b, 2>>]
    BY <1>1
  <2>2. EntryOK(a, b) /\ FirstOK(a, b) /\ SecondOK(a, b)
    BY DEF Inv
  <2>3. pc'[a] \in Nat /\ pc[a] \in Nat /\ pc'[a] >= pc[a]
    BY DEF Inv, Types
  <2>4. \A x, y \in Nat : x \in 1 .. pc[a] - 1 /\ y \in Nat => x \in 1 .. pc'[a] - 1
    BY <2>3
  <2>5. EntryOK(a, b)'
    BY <2>1, <2>2, <2>3, <2>4 DEF EntryOK, WhatOf
  <2>6. FirstOK(a, b)'
    BY <2>1, <2>2, <2>3, <2>4 DEF FirstOK, Held, WhatOf
  <2>7. SecondOK(a, b)'
    BY <2>1, <2>2 DEF SecondOK, WhatOf
  <2> QED BY <2>5, <2>6, <2>7
<1>2. \A a \in Ranks, b \in Keys : EntryOK(a, b)' /\ FirstOK(a, b)' /\ SecondOK(a, b)'
  BY <1>1
<1> QED BY <1>2 DEF Inv

(* What posting an object leaves: a request, two for a mesh in two parts   *)
(* that does not block, and an entry for what has more than one message.   *)
Leaves(r, i, x, k) ==
  /\ k \in Keys /\ net' \in Nets
  /\ \A h \in Handles : h # <<r, k, 1>> /\ h # <<r, k, 2>> => net'.req[h] = net.req[h]
  /\ net'.req[<<r, k, 1>>] # Null /\ net'.req[<<r, k, 1>>].at = i
  /\ net'.req[<<r, k, 2>>] = net.req[<<r, k, 2>>]
       \/ /\ net'.req[<<r, k, 2>>].at = i
          /\ todo'[r][k] # Null /\ x.op = "Send" /\ WhatOf(x) = "mesh"
  /\ todo' \in [Ranks -> [Keys -> Entries \cup {Null}]]
  /\ \A a \in Ranks, b \in Keys : a # r \/ b # k => todo'[a][b] = todo[a][b]
  /\ todo'[r][k] = Null =>
       WhatOf(x) = "array" \/ (x.op = "Send" /\ x.obj.parts = 0)
  /\ todo'[r][k] # Null =>
       todo'[r][k].at = i /\ todo'[r][k].dir = x.op /\ WhatOf(x) \in {"mesh", "matrix"}

(* Send and Recv leave that. *)
LEMMA Posted ==
  ASSUME Inv, NEW r \in Ranks, NEW i \in 1 .. Len(prog[r]), i = pc[r],
         NEW x, x = prog[r][i], NEW k, k = x.k,
         (x.op = "Send" /\ Send(r)) \/ (x.op = "Recv" /\ Recv(r))
  PROVE  Leaves(r, i, x, k)
<1>1. k \in Keys /\ net \in Nets /\ Scripts /\ i \in Nat
  <2>1. Len(prog[r]) \in Nat /\ Scripts
    BY DEF Inv, Types, Scripts, IsScript
  <2> QED BY <2>1, Posting DEF Inv, Types
<1>2. <<r, k, 1>> \in Handles /\ <<r, k, 2>> \in Handles /\ <<r, k, 1>> # <<r, k, 2>>
  BY <1>1, IsHandle
<1>t. ASSUME NEW e \in Entries \cup {Null}, todo' = [todo EXCEPT ![r][k] = e]
      PROVE  /\ todo' \in [Ranks -> [Keys -> Entries \cup {Null}]]
             /\ todo'[r][k] = e
             /\ \A a \in Ranks, b \in Keys : a # r \/ b # k => todo'[a][b] = todo[a][b]
  BY <1>1, <1>t DEF Inv, Types
<1>4. CASE x.op = "Send" /\ Send(r)
  <2> DEFINE first == PostSend(net, <<r, k, 1>>, i, x.obj, 1)
             second == PostSend(first, <<r, k, 2>>, i, x.obj, 2)
             both == x.obj.what = "mesh" /\ x.obj.parts = 2 /\ ~x.blocking
             none == x.obj.what = "array" \/ x.obj.parts = 0
             e == IF none THEN Null ELSE [dir |-> "Send", at |-> i, state |-> IF both THEN 1 ELSE 0]
  <2>1. /\ net' = IF both THEN second ELSE first
        /\ todo' = [todo EXCEPT ![r][k] = e]
    BY <1>4 DEF Send
  <2>2. x.obj.what \in Kinds
    BY <1>1, <1>4, Posting
  <2>3. Puts(net, first, <<r, k, 1>>, i)
    <3>1. Tag(x.obj.what, 1) \in Tags /\ 1 \in 1 .. 4 /\ 1 \in {1, 2}
      BY <2>2, PartTags
    <3> QED BY <1>1, <1>4, <3>1, PostSendNet
  <2> HIDE DEF first
  <2>4. both => Puts(first, second, <<r, k, 2>>, i)
    <3> SUFFICES ASSUME both PROVE Puts(first, second, <<r, k, 2>>, i)
      OBVIOUS
    <3>1. Tag(x.obj.what, 2) \in Tags /\ 2 \in 1 .. 4 /\ 2 \in {1, 2}
      BY PartTags
    <3>2. first \in Nets
      BY <2>3 DEF Puts
    <3> QED BY <1>1, <1>4, <3>1, <3>2, PostSendNet
  <2> HIDE DEF second
  <2>6. WhatOf(x) = x.obj.what
    BY <1>4 DEF WhatOf
  <2>7. e \in Entries \cup {Null}
    BY <1>1 DEF Entries
  <2>8. IF e = Null
        THEN WhatOf(x) = "array" \/ (x.op = "Send" /\ x.obj.parts = 0)
        ELSE e.at = i /\ e.dir = x.op /\ WhatOf(x) \in {"mesh", "matrix"}
    <3>1. CASE none
      BY <1>4, <2>6, <3>1
    <3>2. CASE ~none
      <4>1. e = [dir |-> "Send", at |-> i, state |-> IF both THEN 1 ELSE 0]
        BY <3>2
      <4>2. e \in Entries
        BY <1>1, <4>1 DEF Entries
      <4>3. e # Null
        BY <4>2, NullAssumption DEF Entries
      <4> QED BY <1>4, <2>2, <2>6, <3>2, <4>1, <4>3 DEF Kinds
    <3> QED BY <3>1, <3>2
  <2>9. both => todo'[r][k] # Null /\ WhatOf(x) = "mesh"
    <3> SUFFICES ASSUME both PROVE todo'[r][k] # Null /\ WhatOf(x) = "mesh"
      OBVIOUS
    <3>1. e = [dir |-> "Send", at |-> i, state |-> 1]
      OBVIOUS
    <3>2. e \in Entries
      BY <1>1, <3>1 DEF Entries
    <3>3. e # Null
      BY <3>2, NullAssumption DEF Entries
    <3>4. todo'[r][k] = e
      <4> HIDE DEF e
      <4> QED BY <1>t, <2>1, <2>7
    <3> QED BY <2>6, <3>3, <3>4
  <2> HIDE DEF both, e, none
  <2>10. /\ net' \in Nets
         /\ \A h \in Handles : h # <<r, k, 1>> /\ h # <<r, k, 2>> => net'.req[h] = net.req[h]
         /\ net'.req[<<r, k, 1>>] # Null /\ net'.req[<<r, k, 1>>].at = i
         /\ net'.req[<<r, k, 2>>] = net.req[<<r, k, 2>>] \/ (both /\ net'.req[<<r, k, 2>>].at = i)
    <3>1. CASE both
      BY <1>2, <2>1, <2>3, <2>4, <3>1 DEF Puts
    <3>2. CASE ~both
      BY <1>2, <2>1, <2>3, <3>2 DEF Puts
    <3> QED BY <3>1, <3>2
  <2>11. todo'[r][k] = e
    BY <1>t, <2>1, <2>7
  <2> QED BY <1>1, <1>4, <1>t, <2>1, <2>7, <2>8, <2>9, <2>10, <2>11 DEF Leaves
<1>5. CASE x.op = "Recv" /\ Recv(r)
  <2> DEFINE e == IF x.what = "array" THEN Null ELSE [dir |-> "Recv", at |-> i, state |-> 0]
  <2>1. /\ net' = PostRecv(net, <<r, k, 1>>, i, x.what, 1)
        /\ todo' = [todo EXCEPT ![r][k] = e]
    BY <1>5 DEF Recv
  <2>2. x.what \in Kinds
    BY <1>1, <1>5, Posting
  <2>3. Puts(net, net', <<r, k, 1>>, i)
    <3>1. Tag(x.what, 1) \in Tags /\ 1 \in {1, 2}
      BY <2>2, PartTags
    <3> QED BY <1>1, <1>5, <2>1, <3>1, PostRecvNet
  <2>4. WhatOf(x) = x.what
    BY <1>5 DEF WhatOf
  <2>5. e \in Entries \cup {Null}
    BY <1>1 DEF Entries
  <2>6. IF e = Null
        THEN WhatOf(x) = "array" \/ (x.op = "Send" /\ x.obj.parts = 0)
        ELSE e.at = i /\ e.dir = x.op /\ WhatOf(x) \in {"mesh", "matrix"}
    <3>1. CASE x.what = "array"
      BY <2>4, <3>1
    <3>2. CASE x.what # "array"
      <4>1. e = [dir |-> "Recv", at |-> i, state |-> 0]
        BY <3>2
      <4>2. e \in Entries
        BY <1>1, <4>1 DEF Entries
      <4>3. e # Null
        BY <4>2, NullAssumption DEF Entries
      <4> QED BY <1>5, <2>2, <2>4, <3>2, <4>1, <4>3 DEF Kinds
    <3> QED BY <3>1, <3>2
  <2> HIDE DEF e
  <2>7. /\ \A h \in Handles : h # <<r, k, 1>> => net'.req[h] = net.req[h]
        /\ net'.req[<<r, k, 1>>] # Null /\ net'.req[<<r, k, 1>>].at = i
        /\ net'.req[<<r, k, 2>>] = net.req[<<r, k, 2>>]
    BY <1>2, <2>3 DEF Puts
  <2>8. todo'[r][k] = e
    BY <1>t, <2>1, <2>5
  <2> QED BY <1>1, <1>t, <2>1, <2>3, <2>5, <2>6, <2>7, <2>8 DEF Puts, Leaves
<1> QED BY <1>4, <1>5

(* A new object, under a request nothing else uses. *)
LEMMA PostInv ==
  ASSUME Inv, Reused, NEW r \in Ranks, Post(r)
  PROVE  Inv'
<1>0. Len(prog[r]) \in Nat /\ pc[r] \in 1 .. Len(prog[r]) /\ pc \in [Ranks -> Nat \ {0}]
  BY DEF Inv, Types, Scripts, IsScript, Post, At
<1>a. PICK i \in 1 .. Len(prog[r]) : i = pc[r]
  BY <1>0
<1>b. PICK x : x = prog[r][i]
  OBVIOUS
<1>c. PICK k : k = x.k
  OBVIOUS
<1>1. /\ prog' = prog /\ waits' = waits
      /\ pc' = [pc EXCEPT ![r] = @ + 1]
      /\ (x.op = "Send" /\ Send(r)) \/ (x.op = "Recv" /\ Recv(r))
  BY <1>a, <1>b DEF Post, At
<1>2. Len(prog[r]) \in Nat /\ i \in 1 .. Len(prog[r]) /\ pc \in [Ranks -> Nat \ {0}]
  BY <1>0
<1>3. todo[r][k] = Null
  BY <1>a, <1>b, <1>c DEF Reused
<1>l. Leaves(r, i, x, k)
  <2>1. i = pc[r] /\ x = prog[r][i] /\ k = x.k
    BY <1>a, <1>b, <1>c
  <2>2. (x.op = "Send" /\ Send(r)) \/ (x.op = "Recv" /\ Recv(r))
    BY <1>1
  <2> QED BY <2>1, <2>2, Posted
<1>4. /\ k \in Keys /\ net' \in Nets
      /\ \A h \in Handles : h # <<r, k, 1>> /\ h # <<r, k, 2>> => net'.req[h] = net.req[h]
      /\ net'.req[<<r, k, 1>>].at = i
      /\ net'.req[<<r, k, 2>>] = net.req[<<r, k, 2>>]
           \/ /\ net'.req[<<r, k, 2>>].at = i
              /\ todo'[r][k] # Null /\ x.op = "Send" /\ WhatOf(x) = "mesh"
  BY <1>l DEF Leaves
<1>5. /\ todo' \in [Ranks -> [Keys -> Entries \cup {Null}]]
      /\ \A a \in Ranks, b \in Keys : a # r \/ b # k => todo'[a][b] = todo[a][b]
      /\ todo'[r][k] = Null =>
           WhatOf(x) = "array" \/ (x.op = "Send" /\ x.obj.parts = 0)
      /\ todo'[r][k] # Null =>
           todo'[r][k].at = i /\ todo'[r][k].dir = x.op /\ WhatOf(x) \in {"mesh", "matrix"}
  BY <1>l DEF Leaves
<1>8. net.req[<<r, k, 2>>] = Null
  BY <1>3, <1>4 DEF Inv, SecondOK
<1>9. pc'[r] = i + 1 /\ \A a \in Ranks : a # r => pc'[a] = pc[a]
  BY <1>1, <1>2, <1>a
<1>10. Types'
  <2>1. net' \in Nets'
    <3>1. Sendable' = Sendable
      BY <1>1 DEF Sendable
    <3>2. Nets' = Nets
      BY <3>1 DEF Nets, Messages
    <3> QED BY <1>4, <3>2
  <2>2. pc' \in [Ranks -> Nat \ {0}] /\ \A a \in Ranks : pc'[a] <= Len(prog[a]) + 1
    BY <1>1, <1>2, <1>9 DEF Inv, Types
  <2>3. Scripts'
    BY <1>1 DEF Inv, Types, Scripts
  <2>4. waits' \in [Ranks -> Waits]
    BY <1>1 DEF Inv, Types
  <2> QED BY <1>1, <1>5, <2>1, <2>2, <2>3, <2>4 DEF Types
<1>11. EntryOK(r, k)'
  BY <1>1, <1>2, <1>5, <1>9, <1>b DEF EntryOK
<1>12. FirstOK(r, k)'
  <2>1. i \in 1 .. pc'[r] - 1
    BY <1>2, <1>9
  <2>2. Held(<<r, k, 1>>)'
    BY <1>1, <1>4, <1>5, <1>b DEF Held, WhatOf
  <2> QED BY <1>4, <2>1, <2>2 DEF FirstOK
<1>13. SecondOK(r, k)'
  BY <1>1, <1>4, <1>5, <1>8, <1>b DEF SecondOK
<1>14. \A a \in Ranks, b \in Keys : a # r \/ b # k =>
         /\ todo'[a][b] = todo[a][b]
         /\ net'.req[<<a, b, 1>>] = net.req[<<a, b, 1>>]
         /\ net'.req[<<a, b, 2>>] = net.req[<<a, b, 2>>]
  BY <1>4, <1>5, IsHandle
<1>15. ASSUME NEW a \in Ranks PROVE QueueOK(a)'
  <2>1. CASE a = r
    <3>1. waits[r].queue = <<>>
      BY <1>1, <1>a, <1>b DEF Inv, QueueOK, At
    <3> QED BY <1>1, <2>1, <3>1 DEF QueueOK
  <2>2. CASE a # r
    <3>1. QueueOK(a)
      BY DEF Inv
    <3>2. waits[a].queue \in Seq(Keys)
      BY DEF Inv, Types, Waits
    <3>3. \A j \in 1 .. Len(waits[a].queue) : waits[a].queue[j] \in Keys
      BY <3>2, ElementOfSeq
    <3> QED BY <1>1, <1>9, <1>14, <2>2, <3>1, <3>3 DEF QueueOK, At
  <2> QED BY <2>1, <2>2
<1> QED
  <2>1. \A a \in Ranks : pc'[a] >= pc[a]
    BY <1>2, <1>9, <1>a
  <2> QED BY <1>1, <1>4, <1>10, <1>11, <1>12, <1>13, <1>14, <1>15, <2>1, Local

(* What Do leaves of the object of instruction i: nothing, or its entry    *)
(* and one more request, rqSecond for a mesh that is sent.                 *)
Moves(r, k, i) ==
  LET mesh == todo[r][k].dir = "Send" /\ WhatOf(prog[r][i]) = "mesh" IN
  /\ net' \in Nets
  /\ \A h \in Handles : h # <<r, k, 1>> /\ h # <<r, k, 2>> => net'.req[h] = net.req[h]
  /\ todo' \in [Ranks -> [Keys -> Entries \cup {Null}]]
  /\ \A a \in Ranks, b \in Keys : a # r \/ b # k => todo'[a][b] = todo[a][b]
  /\ mesh \/ todo'[r][k] = Null => net'.req[<<r, k, 1>>] = net.req[<<r, k, 1>>]
  /\ todo'[r][k] = Null => net'.req[<<r, k, 2>>] = Null
  /\ todo'[r][k] # Null =>
       /\ todo'[r][k].at = i /\ todo'[r][k].dir = todo[r][k].dir
       /\ WhatOf(prog[r][i]) = "mesh" => todo[r][k].state = 0 /\ todo'[r][k].state = 1
       /\ mesh => net'.req[<<r, k, 2>>].at = i
       /\ ~mesh => /\ net'.req[<<r, k, 1>>] # Null /\ net'.req[<<r, k, 1>>].at = i
                   /\ net'.req[<<r, k, 2>>] = Null

(* An entry, or its state, changes. *)
Becomes(r, k, e)   == todo' = [todo EXCEPT ![r][k] = e]
StateBecomes(r, k, st) == todo' = [todo EXCEPT ![r][k].state = st]

(* The table after one entry has changed. *)
LEMMA TodoIs ==
  ASSUME Types, NEW r \in Ranks, NEW k \in Keys, NEW e \in Entries \cup {Null},
         Becomes(r, k, e)
  PROVE  /\ todo' \in [Ranks -> [Keys -> Entries \cup {Null}]]
         /\ todo'[r][k] = e
         /\ \A a \in Ranks, b \in Keys : a # r \/ b # k => todo'[a][b] = todo[a][b]
BY DEF Types, Becomes

(* The next state of an entry. *)
LEMMA StateIs ==
  ASSUME Types, NEW r \in Ranks, NEW k \in Keys, todo[r][k] # Null, NEW st \in 0 .. 3,
         StateBecomes(r, k, st)
  PROVE  /\ todo' \in [Ranks -> [Keys -> Entries \cup {Null}]]
         /\ todo'[r][k] # Null
         /\ todo'[r][k].at = todo[r][k].at /\ todo'[r][k].dir = todo[r][k].dir
         /\ todo'[r][k].state = st
         /\ \A a \in Ranks, b \in Keys : a # r \/ b # k => todo'[a][b] = todo[a][b]
<1> DEFINE e == [todo[r][k] EXCEPT !.state = st]
<1>1. todo[r][k] \in Entries
  BY DEF Types
<1>2. e \in Entries /\ e.at = todo[r][k].at /\ e.dir = todo[r][k].dir /\ e.state = st
  BY <1>1 DEF Entries
<1>3. e # Null
  BY <1>2, NullAssumption DEF Entries
<1>4. Becomes(r, k, e)
  BY DEF Becomes, StateBecomes
<1> HIDE DEF e
<1>5. todo'[r][k] = e
  BY <1>2, <1>4, TodoIs
<1> QED BY <1>2, <1>3, <1>4, <1>5, TodoIs

(* SendWMatd::Do and RevcWMatd::Do *)
LEMMA MatrixMoves ==
  ASSUME Inv, NEW r \in Ranks, NEW k \in Keys, todo[r][k] # Null,
         NEW i, i = todo[r][k].at, WhatOf(prog[r][i]) = "matrix",
         net.req[<<r, k, 1>>] = Null, Matrix(r, k)
  PROVE  Moves(r, k, i)
<1>1. /\ Types /\ Scripts /\ net \in Nets /\ EntryOK(r, k) /\ SecondOK(r, k)
      /\ todo[r][k] \in Entries
  BY DEF Inv, Types
<1>2. i \in 1 .. Len(prog[r]) /\ prog[r][i].op = todo[r][k].dir
  BY <1>1 DEF EntryOK, Types, Scripts, IsScript
<1>3. todo[r][k].dir \in {"Send", "Recv"} /\ todo[r][k].state \in 0 .. 3
  BY <1>1 DEF Entries
<1>4. net.req[<<r, k, 2>>] = Null
  BY <1>1 DEF SecondOK
<1>5. <<r, k, 1>> \in Handles /\ <<r, k, 2>> \in Handles /\ <<r, k, 1>> # <<r, k, 2>>
  BY IsHandle
<1>6. CASE todo[r][k].state < 3
  <2> DEFINE part == todo[r][k].state + 2
  <2>1. part \in 1 .. 4 /\ Tag("matrix", part) \in Tags /\ 1 \in {1, 2}
    BY <1>3, <1>6, PartTags
  <2>2. /\ net' = IF todo[r][k].dir = "Send"
                  THEN PostSend(net, <<r, k, 1>>, i, prog[r][i].obj, part)
                  ELSE PostRecv(net, <<r, k, 1>>, i, "matrix", part)
        /\ StateBecomes(r, k, todo[r][k].state + 1)
    BY <1>6 DEF Matrix, StateBecomes
  <2> HIDE DEF part
  <2>3. Puts(net, net', <<r, k, 1>>, i)
    <3>1. CASE todo[r][k].dir = "Send"
      <4>1. prog[r][i].obj.what = "matrix"
        BY <1>2, <3>1 DEF WhatOf
      <4> QED BY <1>1, <1>2, <2>1, <2>2, <3>1, <4>1, PostSendNet
    <3>2. CASE todo[r][k].dir = "Recv"
      BY <1>1, <1>2, <2>1, <2>2, <3>2, PostRecvNet
    <3> QED BY <1>3, <3>1, <3>2
  <2>4. todo[r][k].state + 1 \in 0 .. 3
    BY <1>3, <1>6
  <2>5. /\ todo' \in [Ranks -> [Keys -> Entries \cup {Null}]]
        /\ todo'[r][k] # Null /\ todo'[r][k].at = i /\ todo'[r][k].dir = todo[r][k].dir
        /\ \A a \in Ranks, b \in Keys : a # r \/ b # k => todo'[a][b] = todo[a][b]
    BY <1>1, <2>2, <2>4, StateIs
  <2> QED BY <1>4, <1>5, <2>3, <2>5 DEF Moves, Puts
<1>7. CASE ~(todo[r][k].state < 3)
  <2>1. net' = net /\ Becomes(r, k, Null)
    BY <1>7 DEF Matrix, Finished, Becomes
  <2> QED BY <1>1, <1>4, <2>1, TodoIs DEF Moves
<1> QED BY <1>6, <1>7

(* SendWMeshd::Do: the entry goes only when rqSecond is over. *)
LEMMA SendMeshMoves ==
  ASSUME Inv, NEW r \in Ranks, NEW k \in Keys, todo[r][k] # Null,
         NEW i, i = todo[r][k].at, WhatOf(prog[r][i]) = "mesh", todo[r][k].dir = "Send",
         SendMesh(r, k)
  PROVE  Moves(r, k, i)
<1>1. Types /\ Scripts /\ net \in Nets /\ EntryOK(r, k)
  BY DEF Inv, Types
<1>2. i \in 1 .. Len(prog[r]) /\ prog[r][i].op = "Send"
  BY <1>1 DEF EntryOK, Types, Scripts, IsScript
<1>3. <<r, k, 1>> \in Handles /\ <<r, k, 2>> \in Handles /\ <<r, k, 1>> # <<r, k, 2>>
  BY IsHandle
<1>4. CASE todo[r][k].state = 0 /\ prog[r][i].obj.parts = 2
  <2>1. /\ net' = PostSend(net, <<r, k, 2>>, i, prog[r][i].obj, 2)
        /\ StateBecomes(r, k, 1)
    BY <1>4 DEF SendMesh, StateBecomes
  <2>2. prog[r][i].obj.what = "mesh"
    BY <1>2 DEF WhatOf
  <2>3. Tag("mesh", 2) \in Tags /\ 2 \in 1 .. 4 /\ 2 \in {1, 2} /\ 1 \in 0 .. 3
    BY PartTags
  <2>4. Puts(net, net', <<r, k, 2>>, i)
    BY <1>1, <1>2, <2>1, <2>2, <2>3, PostSendNet
  <2>5. /\ todo' \in [Ranks -> [Keys -> Entries \cup {Null}]]
        /\ todo'[r][k] # Null /\ todo'[r][k].at = i /\ todo'[r][k].dir = todo[r][k].dir
        /\ todo'[r][k].state = 1
        /\ \A a \in Ranks, b \in Keys : a # r \/ b # k => todo'[a][b] = todo[a][b]
    BY <1>1, <2>1, <2>3, StateIs
  <2> QED BY <1>3, <1>4, <2>4, <2>5 DEF Moves, Puts
<1>5. CASE ~(todo[r][k].state = 0 /\ prog[r][i].obj.parts = 2)
  <2>1. /\ net' = [net EXCEPT !.req = [net.req EXCEPT ![<<r, k, 2>>] = Null]]
        /\ Becomes(r, k, Null)
    BY <1>5 DEF SendMesh, Finished, Becomes
  <2>2. net.req \in [Handles -> Requests \cup {Null}]
    BY <1>1 DEF Nets
  <2>3. /\ net' \in Nets /\ net'.req[<<r, k, 2>>] = Null
        /\ \A h \in Handles : h # <<r, k, 2>> => net'.req[h] = net.req[h]
    BY <1>1, <1>3, <2>1, <2>2 DEF Nets
  <2> QED BY <1>1, <1>3, <2>1, <2>3, TodoIs DEF Moves
<1> QED BY <1>4, <1>5

(* RevcWMeshd::Do *)
LEMMA RecvMeshMoves ==
  ASSUME Inv, NEW r \in Ranks, NEW k \in Keys, todo[r][k] # Null,
         NEW i, i = todo[r][k].at, WhatOf(prog[r][i]) = "mesh", todo[r][k].dir = "Recv",
         RecvMesh(r, k)
  PROVE  Moves(r, k, i)
<1>1. Types /\ Scripts /\ net \in Nets /\ EntryOK(r, k) /\ SecondOK(r, k)
  BY DEF Inv, Types
<1>2. i \in 1 .. Len(prog[r]) /\ prog[r][i].op = "Recv"
  BY <1>1 DEF EntryOK, Types, Scripts, IsScript
<1>3. <<r, k, 1>> \in Handles /\ <<r, k, 2>> \in Handles /\ <<r, k, 1>> # <<r, k, 2>>
  BY IsHandle
<1>4. net.req[<<r, k, 2>>] = Null
  BY <1>1 DEF SecondOK
<1>5. CASE /\ todo[r][k].state = 0
           /\ net' = PostRecv(net, <<r, k, 1>>, i, "mesh", 2)
           /\ StateBecomes(r, k, 1)
  <2>1. Tag("mesh", 2) \in Tags /\ 1 \in {1, 2} /\ 1 \in 0 .. 3
    BY PartTags
  <2>2. Puts(net, net', <<r, k, 1>>, i)
    BY <1>1, <1>2, <1>5, <2>1, PostRecvNet
  <2>3. /\ todo' \in [Ranks -> [Keys -> Entries \cup {Null}]]
        /\ todo'[r][k] # Null /\ todo'[r][k].at = i /\ todo'[r][k].dir = todo[r][k].dir
        /\ todo'[r][k].state = 1
        /\ \A a \in Ranks, b \in Keys : a # r \/ b # k => todo'[a][b] = todo[a][b]
    BY <1>1, <1>5, <2>1, StateIs
  <2> QED BY <1>3, <1>4, <1>5, <2>2, <2>3 DEF Moves, Puts
<1>6. CASE net' = net /\ Becomes(r, k, Null)
  BY <1>1, <1>4, <1>6, TodoIs DEF Moves
<1> QED BY <1>5, <1>6 DEF RecvMesh, Finished, Becomes, StateBecomes

(* The queue of a rank, entry by entry. *)
LEMMA QueueKeys ==
  ASSUME Inv, NEW r \in Ranks
  PROVE  /\ waits[r] \in Waits
         /\ waits[r].queue \in Seq(Keys) /\ Len(waits[r].queue) \in Nat
         /\ \A i \in 1 .. Len(waits[r].queue) : waits[r].queue[i] \in Keys
<1>1. waits[r] \in Waits
  BY DEF Inv, Types
<1>2. waits[r].queue \in Seq(Keys)
  BY <1>1 DEF Waits
<1> QED BY <1>1, <1>2, ElementOfSeq, LenProperties

(* A queue is not disturbed by what happens to other requests. *)
LEMMA QueueKept ==
  ASSUME Inv, NEW r \in Ranks, waits'[r].queue = waits[r].queue,
         pc'[r] = pc[r], prog' = prog,
         \A k \in Keys : net.req[<<r, k, 1>>] = Null => net'.req[<<r, k, 1>>] = Null
  PROVE  QueueOK(r)'
<1>1. QueueOK(r)
  BY DEF Inv
<1> QED BY <1>1, QueueKeys DEF QueueOK, At

(* The first request of a queue, treated. *)
LEMMA QueueTail ==
  ASSUME Inv, NEW r \in Ranks, waits[r].queue # <<>>,
         NEW k, k = Head(waits[r].queue),
         waits' = [waits EXCEPT ![r].queue = Tail(waits[r].queue)],
         pc' = pc, prog' = prog,
         \A b \in Keys : b # k => net'.req[<<r, b, 1>>] = net.req[<<r, b, 1>>]
  PROVE  QueueOK(r)' /\ waits' \in [Ranks -> Waits]
<1> DEFINE q == waits[r].queue
           t == Tail(waits[r].queue)
<1>1. QueueOK(r) /\ waits \in [Ranks -> Waits]
  BY DEF Inv, Types
<1>2. q \in Seq(Keys) /\ Len(q) \in Nat /\ waits[r] \in Waits /\ \A i \in 1 .. Len(q) : q[i] \in Keys
  BY QueueKeys
<1>3. /\ Len(q) # 0 /\ k = q[1] /\ t \in Seq(Keys) /\ Len(t) = Len(q) - 1
      /\ \A i \in 1 .. Len(q) - 1 : t[i] = q[i + 1]
  <2> HIDE DEF q
  <2> SUFFICES /\ Len(q) # 0 /\ Head(q) = q[1] /\ Tail(q) \in Seq(Keys) /\ Len(Tail(q)) = Len(q) - 1
               /\ \A i \in 1 .. Len(q) - 1 : Tail(q)[i] = q[i + 1]
    BY DEF q
  <2>1. q # <<>>
    BY DEF q
  <2> QED BY <1>2, <2>1, HeadTailProperties, EmptySeq
<1>4. /\ waits'[r].queue = t /\ waits' \in [Ranks -> Waits]
  <2>1. [waits[r] EXCEPT !.queue = t] \in Waits /\ [waits[r] EXCEPT !.queue = t].queue = t
    BY <1>2, <1>3 DEF Waits
  <2>2. waits' = [waits EXCEPT ![r] = [waits[r] EXCEPT !.queue = t]]
    OBVIOUS
  <2> HIDE DEF t
  <2> QED BY <1>1, <2>1, <2>2
<1>5. \A i \in 1 .. Len(q) : q[i] \in Keys /\ net.req[<<r, q[i], 1>>] = Null
  BY <1>1, <1>2 DEF QueueOK
<1>6. \A i, j \in 1 .. Len(q) : i # j => q[i] # q[j]
  BY <1>1 DEF QueueOK
<1>7. At(r, {"Wait", "WaitAny", "WaitAll"})
  BY <1>1 DEF QueueOK
<1> HIDE DEF q, t
<1>8. ASSUME NEW i \in 1 .. Len(t)
      PROVE  /\ i + 1 \in 1 .. Len(q) /\ t[i] = q[i + 1] /\ t[i] # k
  BY <1>2, <1>3, <1>6
<1>9. \A i \in 1 .. Len(t) : net'.req[<<r, t[i], 1>>] = Null
  BY <1>5, <1>8
<1>10. \A i, j \in 1 .. Len(t) : i # j => t[i] # t[j]
  <2> SUFFICES ASSUME NEW i \in 1 .. Len(t), NEW j \in 1 .. Len(t), i # j PROVE t[i] # t[j]
    OBVIOUS
  <2>1. i + 1 # j + 1 /\ i + 1 \in 1 .. Len(q) /\ j + 1 \in 1 .. Len(q)
    BY <1>2, <1>3
  <2> QED BY <1>6, <1>8, <2>1
<1>11. At(r, {"Wait", "WaitAny", "WaitAll"})'
  BY <1>7 DEF At
<1>12. PICK u : u = t
  OBVIOUS
<1>13. /\ waits'[r].queue = u
       /\ \A i \in 1 .. Len(u) : net'.req[<<r, u[i], 1>>] = Null
       /\ \A i, j \in 1 .. Len(u) : i # j => u[i] # u[j]
  BY <1>4, <1>9, <1>10, <1>12
<1>14. QueueOK(r)'
  BY <1>11, <1>13 DEF QueueOK
<1> QED BY <1>4, <1>14

(* What is done when a message has gone or come, whichever the object: k   *)
(* leaves the queue, unless the Do of a send has posted.                   *)
Treats(r, k) ==
  LET i == todo[r][k].at
      x == prog[r][i]
      again == todo[r][k] # Null /\ todo[r][k].dir = "Send" /\ todo'[r][k] # Null
               /\ WhatOf(x) = "mesh"
  IN  /\ prog' = prog /\ pc' = pc /\ waits[r].queue # <<>>
      /\ k = Head(waits[r].queue) /\ k \in Keys /\ net.req[<<r, k, 1>>] = Null
      /\ waits' = IF again THEN waits ELSE [waits EXCEPT ![r].queue = Tail(waits[r].queue)]
      /\ todo[r][k] = Null => net' = net /\ todo' = todo
      /\ todo[r][k] # Null =>
           /\ todo[r][k] \in Entries /\ i \in 1 .. pc[r] - 1
           /\ x.op = todo[r][k].dir /\ WhatOf(x) \in {"mesh", "matrix"}
           /\ Moves(r, k, i)

LEMMA Treated ==
  ASSUME Inv, NEW r \in Ranks, DoOnWait(r)
  PROVE  \E k \in Keys : Treats(r, k)
<1>1. PICK k : k = Head(waits[r].queue)
  OBVIOUS
<1>2. /\ prog' = prog /\ pc' = pc /\ waits[r].queue # <<>>
  BY DEF DoOnWait
<1>3. /\ k \in Keys /\ net.req[<<r, k, 1>>] = Null
  <2> DEFINE q == waits[r].queue
  <2>1. q \in Seq(Keys) /\ q # <<>> /\ k = Head(q)
    BY <1>1, <1>2, QueueKeys
  <2>2. \A i \in 1 .. Len(q) : net.req[<<r, q[i], 1>>] = Null
    BY DEF Inv, QueueOK
  <2> HIDE DEF q
  <2>3. 1 \in 1 .. Len(q) /\ k = q[1] /\ q[1] \in Keys
    BY <2>1, EmptySeq, LenProperties, HeadTailProperties, ElementOfSeq
  <2> QED BY <2>2, <2>3
<1>4. CASE todo[r][k] = Null
  BY <1>1, <1>2, <1>3, <1>4 DEF DoOnWait, Treats
<1>5. CASE todo[r][k] # Null
  <2>1. PICK i : i = todo[r][k].at
    OBVIOUS
  <2>2. PICK x : x = prog[r][i]
    OBVIOUS
  <2>3. /\ todo[r][k] \in Entries /\ i \in 1 .. pc[r] - 1
        /\ x.op = todo[r][k].dir /\ WhatOf(x) \in {"mesh", "matrix"}
    BY <1>3, <1>5, <2>1, <2>2 DEF Inv, Types, EntryOK
  <2>4. todo[r][k].dir \in {"Send", "Recv"}
    BY <2>3 DEF Entries
  <2>5. /\ CASE WhatOf(x) = "matrix" -> Matrix(r, k)
             [] WhatOf(x) = "mesh" /\ todo[r][k].dir = "Send" -> SendMesh(r, k)
             [] WhatOf(x) = "mesh" /\ todo[r][k].dir = "Recv" -> RecvMesh(r, k)
        /\ waits' = IF todo[r][k].dir = "Send" /\ todo'[r][k] # Null /\ WhatOf(x) = "mesh"
                    THEN waits
                    ELSE [waits EXCEPT ![r].queue = Tail(waits[r].queue)]
    BY <1>1, <1>5, <2>1, <2>2 DEF DoOnWait
  <2>6. Moves(r, k, i)
    <3>1. CASE WhatOf(x) = "matrix"
      BY <1>3, <1>5, <2>1, <2>2, <2>5, <3>1, MatrixMoves
    <3>2. CASE WhatOf(x) = "mesh" /\ todo[r][k].dir = "Send"
      BY <1>3, <1>5, <2>1, <2>2, <2>5, <3>2, SendMeshMoves
    <3>3. CASE WhatOf(x) = "mesh" /\ todo[r][k].dir = "Recv"
      BY <1>3, <1>5, <2>1, <2>2, <2>5, <3>3, RecvMeshMoves
    <3> QED BY <2>3, <2>4, <3>1, <3>2, <3>3
  <2> QED BY <1>1, <1>2, <1>3, <1>5, <2>1, <2>2, <2>3, <2>5, <2>6 DEF Treats
<1> QED BY <1>3, <1>4, <1>5

LEMMA DoOnWaitInv ==
  ASSUME Inv, NEW r \in Ranks, DoOnWait(r)
  PROVE  Inv'
<1>1. PICK k \in Keys : Treats(r, k)
  BY Treated
<1>2. /\ prog' = prog /\ pc' = pc /\ waits[r].queue # <<>> /\ k = Head(waits[r].queue)
  BY <1>1 DEF Treats
<1>3. /\ k \in Keys /\ net.req[<<r, k, 1>>] = Null
  BY <1>1 DEF Treats
<1>4. ASSUME NEW a \in Ranks, a # r, waits'[a] = waits[a],
             \A h \in Handles : h # <<r, k, 1>> /\ h # <<r, k, 2>> => net'.req[h] = net.req[h]
      PROVE  QueueOK(a)'
  BY <1>2, <1>3, <1>4, IsHandle, QueueKept
<1>5. CASE todo[r][k] = Null
  <2>1. /\ net' = net /\ todo' = todo
        /\ waits' = [waits EXCEPT ![r].queue = Tail(waits[r].queue)]
    BY <1>1, <1>5 DEF Treats
  <2>2. QueueOK(r)' /\ waits' \in [Ranks -> Waits]
    BY <1>2, <2>1, QueueTail
  <2>3. \A a \in Ranks : QueueOK(a)'
    BY <1>4, <2>1, <2>2 DEF Inv, Types
  <2>4. Types'
    <3>1. Nets' = Nets
      BY <1>2 DEF Nets, Messages, Sendable
    <3> QED BY <1>2, <2>1, <2>2, <3>1 DEF Inv, Types, Scripts
  <2>5. EntryOK(r, k)' /\ FirstOK(r, k)' /\ SecondOK(r, k)'
    BY <1>2, <1>3, <2>1 DEF Inv, EntryOK, FirstOK, SecondOK, Held, WhatOf
  <2>6. \A a \in Ranks : pc'[a] >= pc[a]
    BY <1>2 DEF Inv, Types
  <2> QED BY <1>2, <1>3, <2>1, <2>3, <2>4, <2>5, <2>6, Local
<1>6. CASE todo[r][k] # Null
  <2>1. PICK i : i = todo[r][k].at
    OBVIOUS
  <2>2. PICK x : x = prog[r][i]
    OBVIOUS
  <2>3. /\ todo[r][k] \in Entries /\ i \in 1 .. pc[r] - 1
        /\ x.op = todo[r][k].dir /\ WhatOf(x) \in {"mesh", "matrix"}
    BY <1>1, <1>6, <2>1, <2>2 DEF Treats
  <2>5. waits' = IF todo[r][k].dir = "Send" /\ todo'[r][k] # Null /\ WhatOf(x) = "mesh"
                 THEN waits
                 ELSE [waits EXCEPT ![r].queue = Tail(waits[r].queue)]
    BY <1>1, <1>6, <2>1, <2>2 DEF Treats
  <2>6. Moves(r, k, i)
    BY <1>1, <1>6, <2>1 DEF Treats
  <2>7. PICK mesh \in BOOLEAN : mesh <=> todo[r][k].dir = "Send" /\ WhatOf(x) = "mesh"
    OBVIOUS
  <2>8. /\ net' \in Nets
        /\ \A h \in Handles : h # <<r, k, 1>> /\ h # <<r, k, 2>> => net'.req[h] = net.req[h]
        /\ todo' \in [Ranks -> [Keys -> Entries \cup {Null}]]
        /\ \A a \in Ranks, b \in Keys : a # r \/ b # k => todo'[a][b] = todo[a][b]
        /\ mesh \/ todo'[r][k] = Null => net'.req[<<r, k, 1>>] = Null
        /\ todo'[r][k] = Null => net'.req[<<r, k, 2>>] = Null
        /\ todo'[r][k] # Null =>
             /\ todo'[r][k].at = i /\ todo'[r][k].dir = todo[r][k].dir
             /\ mesh => net'.req[<<r, k, 2>>].at = i
             /\ ~mesh => net'.req[<<r, k, 1>>].at = i /\ net'.req[<<r, k, 2>>] = Null
    BY <1>3, <2>2, <2>6, <2>7 DEF Moves
  <2>9. \A b \in Keys : b # k => net'.req[<<r, b, 1>>] = net.req[<<r, b, 1>>]
    BY <1>3, <2>8, IsHandle
  <2>10. QueueOK(r)' /\ waits' \in [Ranks -> Waits]
    <3>1. CASE mesh /\ todo'[r][k] # Null
      <4>1. waits' = waits
        BY <2>5, <2>7, <3>1
      <4>2. \A b \in Keys : net.req[<<r, b, 1>>] = Null => net'.req[<<r, b, 1>>] = Null
        BY <2>8, <2>9, <3>1
      <4> QED BY <1>2, <4>1, <4>2, QueueKept DEF Inv, Types
    <3>2. CASE ~mesh \/ todo'[r][k] = Null
      <4>1. waits' = [waits EXCEPT ![r].queue = Tail(waits[r].queue)]
        BY <2>5, <2>7, <3>2
      <4> QED BY <1>1, <1>2, <2>9, <4>1, QueueTail
    <3> QED BY <3>1, <3>2
  <2>11. \A a \in Ranks : QueueOK(a)'
    <3>1. \A a \in Ranks : a # r => waits'[a] = waits[a]
      BY <2>5 DEF Inv, Types
    <3> QED BY <1>4, <2>8, <2>10, <3>1
  <2>12. Types'
    <3>1. Nets' = Nets
      BY <1>2 DEF Nets, Messages, Sendable
    <3> QED BY <1>2, <2>8, <2>10, <3>1 DEF Inv, Types, Scripts
  <2>13. EntryOK(r, k)'
    BY <1>2, <2>2, <2>3, <2>8 DEF EntryOK
  <2>14. FirstOK(r, k)'
    BY <1>2, <2>2, <2>3, <2>8 DEF FirstOK, Held, WhatOf
  <2>15. SecondOK(r, k)'
    BY <1>2, <2>2, <2>3, <2>7, <2>8 DEF SecondOK
  <2>16. \A a \in Ranks : pc'[a] >= pc[a]
    BY <1>2 DEF Inv, Types
  <2>17. \A a \in Ranks, b \in Keys : a # r \/ b # k =>
           /\ todo'[a][b] = todo[a][b]
           /\ net'.req[<<a, b, 1>>] = net.req[<<a, b, 1>>]
           /\ net'.req[<<a, b, 2>>] = net.req[<<a, b, 2>>]
    BY <2>8, IsHandle
  <2> QED BY <1>2, <1>3, <2>11, <2>12, <2>13, <2>14, <2>15, <2>16, <2>17, Local
<1> QED BY <1>5, <1>6

(* What MPI_Wait, MPI_Waitany and MPI_Waitall do of the requests K, which  *)
(* are then in the queue, each once.                                       *)
Returns(r, K, q) ==
  /\ At(r, {"Wait", "WaitAny", "WaitAll"}) /\ waits[r].queue = <<>>
  /\ prog' = prog /\ pc' = pc /\ todo' = todo
  /\ K \subseteq Keys
  /\ prog[r][pc[r]].op = "WaitAll" => K = Open(r) /\ waits[r].round # Rounds
  /\ q \in Seq(Keys)
  /\ \A i \in 1 .. Len(q) : q[i] \in K
  /\ \A i, j \in 1 .. Len(q) : i # j => q[i] # q[j]
  /\ \A k \in K : \E i \in 1 .. Len(q) : q[i] = k
  /\ waits' \in [Ranks -> Waits]
  /\ waits'[r].queue = q /\ waits'[r].round = waits[r].round + 1
  /\ waits'[r].index # Null => waits'[r].index \in prog[r][pc[r]].ks
  /\ \A a \in Ranks : a # r => waits'[a] = waits[a]
  /\ net' \in Nets
  /\ \A k \in K : net'.req[<<r, k, 1>>] = Null
  /\ \A h \in Handles : \/ net'.req[h] = net.req[h]
                        \/ net'.req[h] = Null /\ h[1] = r /\ h[2] \in K /\ h[3] = 1

(* The keys a wait names. *)
LEMMA WaitedKeys ==
  ASSUME Inv, NEW r \in Ranks, At(r, {"Wait", "WaitAny", "WaitAll"})
  PROVE  prog[r][pc[r]].ks \subseteq Keys
<1>1. /\ pc[r] \in Nat \ {0} /\ pc[r] <= Len(prog[r]) /\ IsScript(prog[r], r)
      /\ prog[r][pc[r]].op \in {"Wait", "WaitAny", "WaitAll"}
  BY DEF Inv, Types, Scripts, At
<1>2. Len(prog[r]) \in Nat /\ DOMAIN prog[r] = 1 .. Len(prog[r])
  BY <1>1 DEF IsScript
<1>3. pc[r] \in DOMAIN prog[r]
  BY <1>1, <1>2
<1>4. prog[r][pc[r]].op \notin {"Send", "Recv"}
  BY <1>1
<1> QED BY <1>1, <1>3, <1>4 DEF IsScript

LEMMA Waited ==
  ASSUME Inv, NEW r \in Ranks, MPIWait(r)
  PROVE  \E K \in SUBSET Keys, q \in Seq(Keys) : Returns(r, K, q)
<1>1. /\ At(r, {"Wait", "WaitAny", "WaitAll"})
      /\ prog' = prog /\ pc' = pc /\ todo' = todo
  BY DEF MPIWait
<1>2. Open(r) \subseteq Keys
  BY <1>1, WaitedKeys DEF Open
<1>3. PICK K \in IF prog[r][pc[r]].op = "WaitAll" THEN {Open(r)} ELSE {{k} : k \in Open(r)} :
        /\ Returned(r, K)
        /\ \E q \in Increasing(K) : waits' = [waits EXCEPT ![r] =
             [queue |-> q, round |-> waits[r].round + 1,
              index |-> IF Cardinality(K) = 1 THEN CHOOSE k \in K : TRUE ELSE Null]]
  BY DEF MPIWait
<1>4. K \subseteq Keys /\ IsFiniteSet(K) /\ Cardinality(K) \in Nat
  <2>1. K \subseteq Keys
    BY <1>2
  <2> QED BY <2>1, KeysAssumption, FS_Subset, FS_CardinalityType
<1>5. PICK q \in Increasing(K) : waits' = [waits EXCEPT ![r] =
        [queue |-> q, round |-> waits[r].round + 1,
         index |-> IF Cardinality(K) = 1 THEN CHOOSE k \in K : TRUE ELSE Null]]
  BY <1>3
<1>6. /\ q \in Seq(Keys) /\ Len(q) = Cardinality(K)
      /\ \A i \in 1 .. Len(q) : q[i] \in K
      /\ \A i, j \in 1 .. Len(q) : i # j => q[i] # q[j]
      /\ \A k \in K : \E i \in 1 .. Len(q) : q[i] = k
  <2>1. /\ q \in [1 .. Cardinality(K) -> K]
        /\ \A i, j \in 1 .. Cardinality(K) : i < j => q[i] < q[j]
    BY DEF Increasing
  <2>2. q \in [1 .. Cardinality(K) -> Keys]
    BY <1>4, <2>1
  <2>3. q \in Seq(Keys) /\ Len(q) = Cardinality(K)
    BY <1>4, <2>2, IsASeq
  <2>4. \A i \in 1 .. Len(q) : q[i] \in Nat
    BY <2>2, <2>3, KeysAssumption
  <2>5. \A i, j \in 1 .. Len(q) : i # j => q[i] # q[j]
    BY <1>4, <2>1, <2>3, <2>4
  <2>6. q \in Surjection(1 .. Cardinality(K), K)
    <3>1. q \in Injection(1 .. Cardinality(K), K)
      BY <2>1, <2>3, <2>5 DEF Injection, IsInjective
    <3>2. Cardinality(1 .. Cardinality(K)) = Cardinality(K)
      BY <1>4, FS_Interval
    <3> QED BY <1>4, <3>1, <3>2, FS_Injection
  <2>7. \A k \in K : \E i \in 1 .. Len(q) : q[i] = k
    BY <2>3, <2>6 DEF Surjection
  <2> QED BY <2>1, <2>3, <2>5, <2>7
<1>7. /\ waits' \in [Ranks -> Waits] /\ waits'[r].queue = q /\ waits'[r].round = waits[r].round + 1
      /\ waits'[r].index # Null => waits'[r].index \in prog[r][pc[r]].ks
      /\ \A a \in Ranks : a # r => waits'[a] = waits[a]
  <2> DEFINE w == [queue |-> q, round |-> waits[r].round + 1,
                   index |-> IF Cardinality(K) = 1 THEN CHOOSE k \in K : TRUE ELSE Null]
  <2>1. Cardinality(K) = 1 => (CHOOSE k \in K : TRUE) \in K
    <3>1. Cardinality(K) = 1 => K # {}
      BY FS_EmptySet
    <3> QED BY <1>4, <3>1
  <2>2. waits[r].round \in Nat /\ waits \in [Ranks -> Waits]
    BY QueueKeys DEF Waits, Inv, Types
  <2>3. w \in Waits /\ w.queue = q /\ w.round = waits[r].round + 1
    BY <1>4, <1>6, <2>1, <2>2 DEF Waits
  <2>4. w.index # Null => w.index \in prog[r][pc[r]].ks
    <3>1. K \subseteq Open(r)
      BY <1>3
    <3> QED BY <2>1, <3>1 DEF Open
  <2>5. waits' = [waits EXCEPT ![r] = w]
    BY <1>5
  <2> HIDE DEF w
  <2> QED BY <2>2, <2>3, <2>4, <2>5
<1>8. /\ net' \in Nets
      /\ \A k \in K : net'.req[<<r, k, 1>>] = Null
      /\ \A h \in Handles : net'.req[h] = net.req[h] \/ (net'.req[h] = Null /\ h[1] = r /\ h[2] \in K /\ h[3] = 1)
  <2> DEFINE R == [h \in Handles |-> IF h \in {r} \X K \X {1} THEN Null ELSE net.req[h]]
  <2>1. net' = [net EXCEPT !.req = R]
    BY <1>3 DEF Returned
  <2>2. net \in Nets
    BY DEF Inv, Types
  <2>3. R \in [Handles -> Requests \cup {Null}]
    BY <2>2 DEF Nets
  <2>4. net' \in Nets /\ net'.req = R
    <3> HIDE DEF R
    <3> QED BY <2>1, <2>2, <2>3 DEF Nets
  <2>5. \A k \in K : R[<<r, k, 1>>] = Null
    BY <1>4, IsHandle
  <2>6. \A h \in Handles : R[h] = net.req[h] \/ (R[h] = Null /\ h[1] = r /\ h[2] \in K /\ h[3] = 1)
    OBVIOUS
  <2> QED BY <2>4, <2>5, <2>6
<1>9. prog[r][pc[r]].op = "WaitAll" => K = Open(r) /\ waits[r].round # Rounds
  <2>1. ~WaitOver(r)
    BY DEF MPIWait
  <2> QED BY <1>3, <2>1 DEF WaitOver
<1>10. waits[r].queue = <<>>
  BY DEF MPIWait
<1> QED BY <1>1, <1>4, <1>6, <1>7, <1>8, <1>9, <1>10 DEF Returns

(* What they return was completed, and is treated once. *)
LEMMA MPIWaitInv ==
  ASSUME Inv, NEW r \in Ranks, MPIWait(r)
  PROVE  Inv'
<1>1. PICK K \in SUBSET Keys, q \in Seq(Keys) : Returns(r, K, q)
  BY Waited
<1>2. /\ At(r, {"Wait", "WaitAny", "WaitAll"})
      /\ prog' = prog /\ pc' = pc /\ todo' = todo
      /\ \A i \in 1 .. Len(q) : q[i] \in K
      /\ \A i, j \in 1 .. Len(q) : i # j => q[i] # q[j]
      /\ waits' \in [Ranks -> Waits] /\ waits'[r].queue = q
      /\ \A a \in Ranks : a # r => waits'[a] = waits[a]
      /\ net' \in Nets
      /\ \A k \in K : net'.req[<<r, k, 1>>] = Null
      /\ \A h \in Handles : net'.req[h] = net.req[h] \/ (net'.req[h] = Null /\ h[3] = 1)
  BY <1>1 DEF Returns
<1>3. ASSUME NEW a \in Ranks, NEW k \in Keys
      PROVE  /\ net'.req[<<a, k, 1>>] = net.req[<<a, k, 1>>] \/ net'.req[<<a, k, 1>>] = Null
             /\ net'.req[<<a, k, 2>>] = net.req[<<a, k, 2>>]
             /\ EntryOK(a, k)' /\ FirstOK(a, k)' /\ SecondOK(a, k)'
  <2>1. /\ net'.req[<<a, k, 1>>] = net.req[<<a, k, 1>>] \/ net'.req[<<a, k, 1>>] = Null
        /\ net'.req[<<a, k, 2>>] = net.req[<<a, k, 2>>]
    BY <1>2, IsHandle
  <2>2. EntryOK(a, k) /\ FirstOK(a, k) /\ SecondOK(a, k)
    BY DEF Inv
  <2> QED BY <1>2, <2>1, <2>2 DEF EntryOK, FirstOK, SecondOK, Held, WhatOf
<1>4. ASSUME NEW a \in Ranks PROVE QueueOK(a)'
  <2>1. CASE a = r
    <3>1. \A i \in 1 .. Len(q) : net'.req[<<r, q[i], 1>>] = Null
      BY <1>2
    <3>2. At(r, {"Wait", "WaitAny", "WaitAll"})'
      BY <1>2 DEF At
    <3> QED BY <1>2, <2>1, <3>1, <3>2 DEF QueueOK
  <2>2. CASE a # r
    BY <1>2, <1>3, <2>2, QueueKept
  <2> QED BY <2>1, <2>2
<1>5. Types'
  <2>1. Nets' = Nets
    BY <1>2 DEF Nets, Messages, Sendable
  <2> QED BY <1>2, <2>1 DEF Inv, Types, Scripts
<1> QED BY <1>3, <1>4, <1>5 DEF Inv

(* The script goes on after a wait. *)
LEMMA EndWaitInv ==
  ASSUME Inv, NEW r \in Ranks, EndWait(r)
  PROVE  Inv'
<1>1. /\ At(r, {"Wait", "WaitAny", "WaitAll"})
      /\ pc' = [pc EXCEPT ![r] = @ + 1]
      /\ waits' = [waits EXCEPT ![r] = NotWaiting]
      /\ UNCHANGED <<prog, net, todo, got>>
  BY DEF EndWait
<1>2. /\ pc \in [Ranks -> Nat \ {0}] /\ waits \in [Ranks -> Waits]
      /\ Len(prog[r]) \in Nat /\ pc[r] <= Len(prog[r])
  BY <1>1 DEF Inv, Types, Scripts, IsScript, At
<1>3. /\ pc' \in [Ranks -> Nat \ {0}] /\ pc'[r] = pc[r] + 1
      /\ \A a \in Ranks : a # r => pc'[a] = pc[a]
  BY <1>1, <1>2
<1>4. NotWaiting \in Waits /\ NotWaiting.queue = <<>>
  BY EmptySeq DEF NotWaiting, Waits
<1>5. /\ waits' \in [Ranks -> Waits] /\ waits'[r].queue = <<>>
      /\ \A a \in Ranks : a # r => waits'[a] = waits[a]
  BY <1>1, <1>2, <1>4
<1>6. Types'
  <2>1. Nets' = Nets
    BY <1>1 DEF Nets, Messages, Sendable
  <2>2. ASSUME NEW a \in Ranks PROVE pc'[a] <= Len(prog[a]) + 1
    <3>1. CASE a = r
      <4>1. pc[r] \in Nat /\ Len(prog[r]) \in Nat /\ pc[r] <= Len(prog[r]) /\ pc'[r] = pc[r] + 1
        BY <1>2, <1>3
      <4>2. pc'[r] <= Len(prog[r]) + 1
        BY <4>1
      <4> QED BY <3>1, <4>2
    <3>2. CASE a # r
      <4>1. pc'[a] = pc[a]
        BY <1>3, <3>2
      <4>2. pc[a] <= Len(prog[a]) + 1
        BY DEF Inv, Types
      <4> QED BY <4>1, <4>2
    <3> QED BY <3>1, <3>2
  <2> QED BY <1>1, <1>3, <1>5, <2>1, <2>2 DEF Inv, Types, Scripts
<1>7. ASSUME NEW a \in Ranks, NEW k \in Keys
      PROVE  EntryOK(a, k)' /\ FirstOK(a, k)' /\ SecondOK(a, k)'
  <2>1. EntryOK(a, k) /\ FirstOK(a, k) /\ SecondOK(a, k)
    BY DEF Inv
  <2>2. 1 .. pc[a] - 1 \subseteq 1 .. pc'[a] - 1
    BY <1>2, <1>3
  <2> QED BY <1>1, <2>1, <2>2 DEF EntryOK, FirstOK, SecondOK, Held, WhatOf
<1>8. ASSUME NEW a \in Ranks PROVE QueueOK(a)'
  <2>1. CASE a = r
    BY <1>5, <2>1, EmptySeq DEF QueueOK
  <2>2. CASE a # r
    BY <1>1, <1>3, <1>5, <2>2, QueueKept
  <2> QED BY <2>1, <2>2
<1> QED BY <1>6, <1>7, <1>8 DEF Inv

(* MPI completes a request, or keeps a copy of a message. *)
LEMMA CompleteInv ==
  ASSUME Inv, NEW h \in Handles, Complete(h) \/ Buffer(h)
  PROVE  Inv'
<1>1. /\ net.req[h] # Null
      /\ net' = [net EXCEPT !.req[h].done = TRUE]
      /\ UNCHANGED <<prog, pc, todo, got, waits>>
  BY DEF Complete, Buffer, Active
<1> DEFINE q == [net.req[h] EXCEPT !.done = TRUE]
           R == [net.req EXCEPT ![h] = q]
<1>2. net \in Nets /\ net.req \in [Handles -> Requests \cup {Null}]
  BY DEF Inv, Types, Nets
<1>3. net.req[h] \in Requests
  BY <1>1, <1>2
<1>4. q \in Requests /\ q.at = net.req[h].at
  BY <1>3 DEF Requests
<1>5. net' = [net EXCEPT !.req = R]
  BY <1>1
<1> HIDE DEF q
<1>6. R \in [Handles -> Requests \cup {Null}]
  BY <1>2, <1>4
<1>7. net' \in Nets /\ net'.req = R
  <2> HIDE DEF R
  <2> QED BY <1>2, <1>5, <1>6 DEF Nets
<1>8. \A a \in Handles : /\ net'.req[a] # Null => net.req[a] # Null
                         /\ net'.req[a].at = net.req[a].at
  BY <1>1, <1>2, <1>4, <1>7
<1>9. ASSUME NEW a \in Ranks, NEW k \in Keys
      PROVE  EntryOK(a, k)' /\ FirstOK(a, k)' /\ SecondOK(a, k)'
  <2>1. EntryOK(a, k) /\ FirstOK(a, k) /\ SecondOK(a, k)
    BY DEF Inv
  <2>2. /\ net'.req[<<a, k, 1>>] # Null => net.req[<<a, k, 1>>] # Null
        /\ net'.req[<<a, k, 2>>] # Null => net.req[<<a, k, 2>>] # Null
        /\ net'.req[<<a, k, 1>>].at = net.req[<<a, k, 1>>].at
        /\ net'.req[<<a, k, 2>>].at = net.req[<<a, k, 2>>].at
    BY <1>8, IsHandle
  <2> QED BY <1>1, <2>1, <2>2 DEF EntryOK, FirstOK, SecondOK, Held, WhatOf
<1>10. ASSUME NEW a \in Ranks PROVE QueueOK(a)'
  <2>1. \A k \in Keys : net.req[<<a, k, 1>>] = Null => net'.req[<<a, k, 1>>] = Null
    BY <1>8, IsHandle
  <2> QED BY <1>1, <2>1, QueueKept
<1>11. Types'
  <2>1. Nets' = Nets
    BY <1>1 DEF Nets, Messages, Sendable
  <2> QED BY <1>1, <1>7, <2>1 DEF Inv, Types, Scripts
<1> QED BY <1>9, <1>10, <1>11 DEF Inv

(* Nothing is posted at first. *)
LEMMA InitInv ==
  ASSUME Init
  PROVE  Inv
<1>1. Scripts
  BY ProgramsAssumption DEF Init, Scripts
<1>2. NotWaiting \in Waits /\ NotWaiting.queue = <<>>
  BY EmptySeq DEF NotWaiting, Waits
<1>3. /\ net = [req |-> [h \in Handles |-> Null], sent |-> [c \in Channels |-> <<>>],
                posted |-> [c \in Channels |-> 0]]
      /\ todo = [r \in Ranks |-> [k \in Keys |-> Null]]
      /\ pc = [r \in Ranks |-> 1] /\ waits = [r \in Ranks |-> NotWaiting]
  BY DEF Init
<1>4. net \in Nets /\ \A h \in Handles : net.req[h] = Null
  BY <1>3, EmptySeq DEF Nets
<1>5. \A r \in Ranks : pc[r] <= Len(prog[r]) + 1
  BY <1>1, <1>3 DEF Scripts, IsScript
<1>6. Types
  BY <1>1, <1>2, <1>3, <1>4, <1>5 DEF Types
<1>7. \A r \in Ranks, k \in Keys : EntryOK(r, k) /\ FirstOK(r, k) /\ SecondOK(r, k)
  BY <1>3, <1>4, IsHandle DEF EntryOK, FirstOK, SecondOK
<1>8. \A r \in Ranks : QueueOK(r)
  BY <1>2, <1>3, EmptySeq DEF QueueOK
<1> QED BY <1>6, <1>7, <1>8 DEF Inv

(* Every step keeps the invariant, while no request is used too early. *)
LEMMA NextInv ==
  ASSUME Inv, [Next]_vars, [Reused]_vars
  PROVE  Inv'
<1>1. CASE UNCHANGED vars
  <2>1. prog' = prog /\ pc' = pc /\ net' = net /\ todo' = todo /\ waits' = waits
    BY <1>1 DEF vars
  <2>2. Nets' = Nets
    BY <2>1 DEF Nets, Messages, Sendable
  <2>3. Types'
    BY <2>1, <2>2 DEF Inv, Types, Scripts
  <2>4. ASSUME NEW a \in Ranks, NEW k \in Keys
        PROVE  EntryOK(a, k)' /\ FirstOK(a, k)' /\ SecondOK(a, k)'
    <3>1. EntryOK(a, k) /\ FirstOK(a, k) /\ SecondOK(a, k)
      BY DEF Inv
    <3>2. EntryOK(a, k)'
      BY <2>1, <3>1 DEF EntryOK
    <3>3. FirstOK(a, k)'
      BY <2>1, <3>1 DEF FirstOK, Held
    <3>4. SecondOK(a, k)'
      BY <2>1, <3>1 DEF SecondOK
    <3> QED BY <3>2, <3>3, <3>4
  <2>5. \A a \in Ranks : QueueOK(a)'
    BY <2>1 DEF Inv, QueueOK, At
  <2> QED BY <2>3, <2>4, <2>5 DEF Inv
<1>2. ASSUME NEW r \in Ranks, Rank(r), Reused
      PROVE  Inv'
  BY <1>2, PostInv, MPIWaitInv, DoOnWaitInv, EndWaitInv DEF Rank
<1>3. ASSUME NEW h \in Handles, Complete(h) \/ Buffer(h)
      PROVE  Inv'
  BY <1>3, CompleteInv
<1> QED BY <1>1, <1>2, <1>3 DEF Next, Done

-----------------------------------------------------------------------------
(* mpiWaitAll. *)

(* Request k of r is still to be treated by the wait r is in. *)
Queued(r, k) == \E i \in 1 .. Len(waits[r].queue) : waits[r].queue[i] = k

(* A mesh that is received, and whose second part has been asked for. *)
SecondPart(r, k) ==
  /\ todo[r][k] # Null /\ todo[r][k].dir = "Recv" /\ todo[r][k].state = 1
  /\ WhatOf(prog[r][todo[r][k].at]) = "mesh"

(* Nothing is left to do under request k of r. *)
Free(r, k) == todo[r][k] = Null /\ net.req[<<r, k, 1>>] = Null

(* What is in the table has a message under way, or is to be treated. *)
LiveOK(r, k) == todo[r][k] # Null => net.req[<<r, k, 1>>] # Null \/ Queued(r, k)

(* Everything is under the request of its instruction, and the message of  *)
(* a request is of the object in the table.                                *)
KeyOK(r, k) ==
  /\ todo[r][k] # Null => prog[r][todo[r][k].at].k = k
  /\ net.req[<<r, k, 1>>] # Null =>
       /\ prog[r][net.req[<<r, k, 1>>].at].op \in {"Send", "Recv"}
       /\ prog[r][net.req[<<r, k, 1>>].at].k = k
       /\ todo[r][k] # Null => net.req[<<r, k, 1>>].at = todo[r][k].at

(* A matrix, which two rounds of mpiWaitAll do not bring to an end. *)
IsMatrix(r, k) == todo[r][k] # Null /\ WhatOf(prog[r][todo[r][k].at]) = "matrix"

(* After a round of mpiWaitAll the first messages have been treated, after *)
(* two the second parts too.                                               *)
RoundsOK(r, k) == ~IsMatrix(r, k) =>
  /\ waits[r].round = 1 /\ ~Queued(r, k) => Free(r, k) \/ SecondPart(r, k)
  /\ waits[r].round = 2 => Free(r, k) \/ (Queued(r, k) /\ SecondPart(r, k))

(* Rounds and the index are those of the wait at pc. *)
WaitOK(r) ==
  /\ waits[r].round # 0 \/ waits[r].index # Null => At(r, {"Wait", "WaitAny", "WaitAll"})
  /\ waits[r].index # Null => waits[r].index \in prog[r][pc[r]].ks
  /\ At(r, {"WaitAll"}) => \A k \in prog[r][pc[r]].ks : RoundsOK(r, k)

(* The wait at i of a script ends what its instruction j posts: a wait for *)
(* its request alone, or a mpiWaitAll unless it is a matrix.               *)
WaitedFor(f, j, i) ==
  /\ f[j].op \in {"Send", "Recv"}
  /\ \/ f[i].op \in {"Wait", "WaitAny"} /\ f[i].ks = {f[j].k}
     \/ f[i].op = "WaitAll" /\ f[j].k \in f[i].ks /\ WhatOf(f[j]) # "matrix"

(* Nothing is left of what the wait at i was for. *)
EndedOK(r, i) == \A j \in 1 .. i - 1 : WaitedFor(prog[r], j, i) => Ended(r, j)

RankInv(r) ==
  /\ \A k \in Keys : LiveOK(r, k) /\ KeyOK(r, k)
  /\ WaitOK(r)
  /\ \A i \in 1 .. pc[r] - 1 : EndedOK(r, i)

(* The first of a queue is in it. *)
LEMMA HeadQueued ==
  ASSUME Inv, NEW r \in Ranks, waits[r].queue # <<>>
  PROVE  Queued(r, Head(waits[r].queue))
<1> DEFINE q == waits[r].queue
<1>1. q \in Seq(Keys) /\ q # <<>>
  BY QueueKeys
<1> HIDE DEF q
<1>2. 1 \in 1 .. Len(q) /\ q[1] = Head(q)
  BY <1>1, EmptySeq, LenProperties, HeadTailProperties
<1> QED BY <1>2 DEF q, Queued

(* Once treated it is not, and the others are. *)
LEMMA TailQueued ==
  ASSUME Inv, NEW r \in Ranks, waits[r].queue # <<>>,
         NEW k, k = Head(waits[r].queue),
         waits' = [waits EXCEPT ![r].queue = Tail(waits[r].queue)]
  PROVE  /\ ~Queued(r, k)'
         /\ waits'[r].round = waits[r].round /\ waits'[r].index = waits[r].index
         /\ \A b \in Keys : b # k /\ Queued(r, b) => Queued(r, b)'
<1> DEFINE q == waits[r].queue
           t == Tail(waits[r].queue)
<1>1. /\ q \in Seq(Keys) /\ Len(q) \in Nat /\ waits[r] \in Waits /\ waits \in [Ranks -> Waits]
      /\ \A i, j \in 1 .. Len(q) : i # j => q[i] # q[j]
  BY QueueKeys DEF Inv, Types, QueueOK
<1>2. /\ Len(q) # 0 /\ k = q[1] /\ t \in Seq(Keys) /\ Len(t) = Len(q) - 1
      /\ \A i \in 1 .. Len(q) - 1 : t[i] = q[i + 1]
  <2> HIDE DEF q
  <2> SUFFICES /\ Len(q) # 0 /\ Head(q) = q[1] /\ Tail(q) \in Seq(Keys) /\ Len(Tail(q)) = Len(q) - 1
               /\ \A i \in 1 .. Len(q) - 1 : Tail(q)[i] = q[i + 1]
    BY DEF q
  <2>1. q # <<>>
    BY DEF q
  <2> QED BY <1>1, <2>1, HeadTailProperties, EmptySeq
<1>3. /\ waits'[r].queue = t
      /\ waits'[r].round = waits[r].round /\ waits'[r].index = waits[r].index
  <2>1. /\ [waits[r] EXCEPT !.queue = t].queue = t
        /\ [waits[r] EXCEPT !.queue = t].round = waits[r].round
        /\ [waits[r] EXCEPT !.queue = t].index = waits[r].index
    BY <1>1 DEF Waits
  <2>2. waits' = [waits EXCEPT ![r] = [waits[r] EXCEPT !.queue = t]]
    OBVIOUS
  <2> HIDE DEF t
  <2> QED BY <1>1, <2>1, <2>2
<1>4. \A b : Queued(r, b) <=> \E i \in 1 .. Len(q) : q[i] = b
  BY DEF Queued
<1>5. \A b : Queued(r, b)' <=> \E i \in 1 .. Len(t) : t[i] = b
  BY <1>3 DEF Queued
<1> HIDE DEF q, t
<1>6. \A i \in 1 .. Len(t) : i + 1 \in 1 .. Len(q) /\ i + 1 # 1 /\ t[i] = q[i + 1]
  BY <1>1, <1>2
<1>7. \A i \in 1 .. Len(t) : t[i] # k
  <2>1. 1 \in 1 .. Len(q)
    BY <1>1, <1>2
  <2> QED BY <1>1, <1>2, <1>6, <2>1
<1>8. ASSUME NEW b \in Keys, b # k, NEW i \in 1 .. Len(q), q[i] = b
      PROVE  \E j \in 1 .. Len(t) : t[j] = b
  <2>1. i # 1
    BY <1>2, <1>8
  <2>2. i - 1 \in 1 .. Len(t) /\ (i - 1) + 1 = i
    BY <1>1, <1>2, <2>1
  <2> QED BY <1>6, <1>8, <2>2
<1> QED BY <1>3, <1>4, <1>5, <1>7, <1>8

(* What a step leaves of the requests of an instruction that had ended: a  *)
(* new message is of the instruction at pc, or of an entry of the table.   *)
Origin(r, k) ==
  /\ todo'[r][k] # Null => \/ todo'[r][k].at = pc[r]
                           \/ todo[r][k] # Null /\ todo'[r][k].at = todo[r][k].at
  /\ \A s \in {1, 2} : net'.req[<<r, k, s>>] # Null =>
       \/ net'.req[<<r, k, s>>].at = pc[r]
       \/ net.req[<<r, k, s>>] # Null /\ net'.req[<<r, k, s>>].at = net.req[<<r, k, s>>].at
       \/ todo[r][k] # Null /\ net'.req[<<r, k, s>>].at = todo[r][k].at

LEMMA EndedStays ==
  ASSUME NEW r \in Ranks, pc[r] \in Nat, pc'[r] \in Nat, pc'[r] >= pc[r], prog' = prog,
         \A k \in Keys : Origin(r, k),
         NEW i \in 1 .. pc[r] - 1, EndedOK(r, i)
  PROVE  EndedOK(r, i)'
<1> SUFFICES ASSUME NEW j \in 1 .. i - 1, WaitedFor(prog[r], j, i)
             PROVE  Ended(r, j)'
  BY DEF EndedOK, WaitedFor, WhatOf
<1>1. Ended(r, j)
  BY DEF EndedOK
<1>2. j < pc[r] /\ j < pc'[r] /\ j # pc[r]
  OBVIOUS
<1> QED BY <1>1, <1>2 DEF Ended, Origin

(* A request that nothing happens to. *)
LEMMA RequestKept ==
  ASSUME NEW r \in Ranks, NEW k \in Keys, prog' = prog,
         waits'[r].round = waits[r].round, Queued(r, k) => Queued(r, k)',
         todo'[r][k] = todo[r][k],
         net'.req[<<r, k, 1>>] = Null <=> net.req[<<r, k, 1>>] = Null,
         net'.req[<<r, k, 1>>].at = net.req[<<r, k, 1>>].at
  PROVE  /\ LiveOK(r, k) => LiveOK(r, k)'
         /\ KeyOK(r, k) => KeyOK(r, k)'
         /\ RoundsOK(r, k) => RoundsOK(r, k)'
BY DEF LiveOK, KeyOK, RoundsOK, IsMatrix, Free, SecondPart, WhatOf

(* A rank that nothing happens to, but what MPI does. *)
LEMMA RankKept ==
  ASSUME Inv, NEW r \in Ranks, RankInv(r), prog' = prog, pc'[r] = pc[r], waits'[r] = waits[r],
         \A k \in Keys : todo'[r][k] = todo[r][k],
         \A k \in Keys, s \in {1, 2} :
           /\ net'.req[<<r, k, s>>] = Null <=> net.req[<<r, k, s>>] = Null
           /\ net'.req[<<r, k, s>>].at = net.req[<<r, k, s>>].at
  PROVE  RankInv(r)'
<1>1. \A k \in Keys : Queued(r, k)' <=> Queued(r, k)
  BY DEF Queued
<1>2. \A k \in Keys : LiveOK(r, k)' /\ KeyOK(r, k)' /\ (RoundsOK(r, k) => RoundsOK(r, k)')
  BY <1>1, RequestKept DEF RankInv
<1>3. WaitOK(r)'
  <2>1. At(r, {"WaitAll"}) => prog[r][pc[r]].ks \subseteq Keys
    <3>1. At(r, {"WaitAll"}) => At(r, {"Wait", "WaitAny", "WaitAll"})
      BY DEF At
    <3> QED BY <3>1, WaitedKeys
  <2>2. WaitOK(r)
    BY DEF RankInv
  <2> QED BY <1>2, <2>1, <2>2 DEF WaitOK, At
<1>4. \A i \in 1 .. pc'[r] - 1 : EndedOK(r, i)'
  <2>1. pc[r] \in Nat /\ pc'[r] >= pc[r]
    BY DEF Inv, Types
  <2>2. \A k \in Keys : Origin(r, k)
    BY DEF Origin
  <2> QED BY <2>1, <2>2, EndedStays DEF RankInv
<1> QED BY <1>2, <1>3, <1>4 DEF RankInv

(* The step of a rank leaves the others as they are. *)
LEMMA OthersKept ==
  ASSUME Inv, NEW r \in Ranks, \A a \in Ranks : RankInv(a), prog' = prog,
         \A a \in Ranks : a # r =>
           /\ pc'[a] = pc[a] /\ waits'[a] = waits[a]
           /\ \A b \in Keys : /\ todo'[a][b] = todo[a][b]
                              /\ net'.req[<<a, b, 1>>] = net.req[<<a, b, 1>>]
                              /\ net'.req[<<a, b, 2>>] = net.req[<<a, b, 2>>]
  PROVE  \A a \in Ranks : a # r => RankInv(a)'
<1> SUFFICES ASSUME NEW a \in Ranks, a # r PROVE RankInv(a)'
  OBVIOUS
<1>1. ASSUME NEW k \in Keys, NEW s \in {1, 2}
      PROVE  net'.req[<<a, k, s>>] = net.req[<<a, k, s>>]
  <2>1. /\ net'.req[<<a, k, 1>>] = net.req[<<a, k, 1>>]
        /\ net'.req[<<a, k, 2>>] = net.req[<<a, k, 2>>]
    OBVIOUS
  <2>2. CASE s = 1
    BY <2>1, <2>2
  <2>3. CASE s = 2
    BY <2>1, <2>3
  <2> QED BY <2>2, <2>3
<1> QED BY <1>1, RankKept

(* A new object: between waits, so that no round counts yet. *)
LEMMA PostRank ==
  ASSUME Inv, Inv', NEW r \in Ranks, Post(r), \A a \in Ranks : RankInv(a)
  PROVE  \A a \in Ranks : RankInv(a)'
<1>0. Len(prog[r]) \in Nat /\ pc[r] \in 1 .. Len(prog[r]) /\ pc \in [Ranks -> Nat \ {0}]
  BY DEF Inv, Types, Scripts, IsScript, Post, At
<1>a. PICK i \in 1 .. Len(prog[r]) : i = pc[r]
  BY <1>0
<1>b. PICK x : x = prog[r][i]
  OBVIOUS
<1>c. PICK k : k = x.k
  OBVIOUS
<1>1. /\ prog' = prog /\ waits' = waits
      /\ pc' = [pc EXCEPT ![r] = @ + 1]
      /\ (x.op = "Send" /\ Send(r)) \/ (x.op = "Recv" /\ Recv(r))
  BY <1>a, <1>b DEF Post, At
<1>2. Leaves(r, i, x, k)
  <2>1. i = pc[r] /\ x = prog[r][i] /\ k = x.k
    BY <1>a, <1>b, <1>c
  <2>2. (x.op = "Send" /\ Send(r)) \/ (x.op = "Recv" /\ Recv(r))
    BY <1>1
  <2> QED BY <2>1, <2>2, Posted
<1>3. pc'[r] = pc[r] + 1 /\ pc[r] \in Nat /\ \A a \in Ranks : a # r => pc'[a] = pc[a]
  BY <1>0, <1>1
<1>4. waits'[r].round = 0 /\ waits'[r].index = Null
  BY <1>1, <1>a, <1>b DEF RankInv, WaitOK, At
<1>5. k \in Keys
  BY <1>2 DEF Leaves
<1>6. \A a \in Ranks, b \in Keys : a # r \/ b # k =>
        /\ todo'[a][b] = todo[a][b]
        /\ net'.req[<<a, b, 1>>] = net.req[<<a, b, 1>>]
        /\ net'.req[<<a, b, 2>>] = net.req[<<a, b, 2>>]
  BY <1>2, IsHandle DEF Leaves
<1>7. LiveOK(r, k)' /\ KeyOK(r, k)'
  <2>1. /\ net'.req[<<r, k, 1>>] # Null /\ net'.req[<<r, k, 1>>].at = i
        /\ todo'[r][k] # Null => todo'[r][k].at = i
    BY <1>2 DEF Leaves
  <2> QED BY <1>1, <1>b, <1>c, <2>1 DEF LiveOK, KeyOK
<1>8. \A b \in Keys : LiveOK(r, b)' /\ KeyOK(r, b)'
  <2>1. \A b \in Keys : b # k => LiveOK(r, b)' /\ KeyOK(r, b)'
    <3>1. \A b \in Keys : Queued(r, b)' <=> Queued(r, b)
      BY <1>1 DEF Queued
    <3> QED BY <1>1, <1>6, <3>1, RequestKept DEF RankInv
  <2> QED BY <1>7, <2>1
<1>9. WaitOK(r)'
  BY <1>4 DEF WaitOK, RoundsOK
<1>10. \A j \in 1 .. pc'[r] - 1 : EndedOK(r, j)'
  <2>1. Origin(r, k)
    BY <1>2, <1>5, <1>a DEF Leaves, Origin
  <2>2. \A b \in Keys : Origin(r, b)
    BY <1>6, <2>1 DEF Origin
  <2>3. pc'[r] \in Nat /\ pc'[r] >= pc[r]
    BY <1>3
  <2>4. \A j \in 1 .. pc[r] - 1 : EndedOK(r, j)'
    BY <1>1, <1>3, <2>2, <2>3, EndedStays DEF RankInv
  <2>5. EndedOK(r, i)'
    BY <1>1, <1>b DEF EndedOK, WaitedFor
  <2>6. \A j \in 1 .. pc'[r] - 1 : j = i \/ j \in 1 .. pc[r] - 1
    BY <1>3, <1>a
  <2> QED BY <2>4, <2>5, <2>6
<1>11. RankInv(r)'
  BY <1>1, <1>8, <1>9, <1>10 DEF RankInv
<1>12. \A a \in Ranks : a # r => RankInv(a)'
  BY <1>1, <1>3, <1>6, OthersKept
<1> QED BY <1>11, <1>12

(* A message has gone or come: but for a matrix, only the second part of a *)
(* mesh may be left.                                                       *)
LEMMA DoOnWaitRank ==
  ASSUME Inv, Inv', NEW r \in Ranks, DoOnWait(r), \A a \in Ranks : RankInv(a)
  PROVE  \A a \in Ranks : RankInv(a)'
<1>1. PICK k \in Keys : Treats(r, k)
  BY Treated
<1> DEFINE again == todo[r][k] # Null /\ todo[r][k].dir = "Send" /\ todo'[r][k] # Null
                    /\ WhatOf(prog[r][todo[r][k].at]) = "mesh"
<1>2. /\ prog' = prog /\ pc' = pc /\ waits[r].queue # <<>> /\ k = Head(waits[r].queue)
      /\ net.req[<<r, k, 1>>] = Null
      /\ waits' = IF again THEN waits ELSE [waits EXCEPT ![r].queue = Tail(waits[r].queue)]
  BY <1>1 DEF Treats
<1>3. /\ \A a \in Ranks, b \in Keys : a # r \/ b # k =>
           /\ todo'[a][b] = todo[a][b]
           /\ net'.req[<<a, b, 1>>] = net.req[<<a, b, 1>>]
           /\ net'.req[<<a, b, 2>>] = net.req[<<a, b, 2>>]
  <2>1. CASE todo[r][k] = Null
    BY <1>1, <2>1 DEF Treats
  <2>2. CASE todo[r][k] # Null
    <3>1. Moves(r, k, todo[r][k].at)
      BY <1>1, <2>2 DEF Treats
    <3> QED BY <3>1, IsHandle DEF Moves
  <2> QED BY <2>1, <2>2
<1>4. /\ waits'[r].round = waits[r].round /\ waits'[r].index = waits[r].index
      /\ \A b \in Keys : b # k /\ Queued(r, b) => Queued(r, b)'
      /\ again => Queued(r, k)'
      /\ \A a \in Ranks : a # r => waits'[a] = waits[a]
  <2>1. CASE again
    <3>1. waits' = waits
      BY <1>2, <2>1
    <3> QED BY <1>2, <3>1, HeadQueued DEF Queued
  <2>2. CASE ~again
    <3>1. waits' = [waits EXCEPT ![r].queue = Tail(waits[r].queue)]
      BY <1>2, <2>2
    <3>2. \A a \in Ranks : a # r => waits'[a] = waits[a]
      BY <3>1 DEF Inv, Types
    <3> QED BY <1>2, <2>2, <3>1, <3>2, TailQueued
  <2> QED BY <2>1, <2>2
<1>5. \A b \in Keys : b # k =>
        LiveOK(r, b)' /\ KeyOK(r, b)' /\ (RoundsOK(r, b) => RoundsOK(r, b)')
  BY <1>2, <1>3, <1>4, RequestKept DEF RankInv
<1>6. /\ LiveOK(r, k)' /\ KeyOK(r, k)' /\ Origin(r, k)
      /\ RoundsOK(r, k) => RoundsOK(r, k)'
  <2>1. CASE todo[r][k] = Null
    <3>1. todo' = todo /\ net' = net
      BY <1>1, <2>1 DEF Treats
    <3> QED BY <1>2, <2>1, <3>1 DEF LiveOK, KeyOK, Origin, RoundsOK, Free
  <2>2. CASE todo[r][k] # Null
    <3>1. PICK i : i = todo[r][k].at
      OBVIOUS
    <3>2. PICK x : x = prog[r][i]
      OBVIOUS
    <3>3. /\ todo[r][k] \in Entries /\ i \in 1 .. pc[r] - 1
          /\ x.op = todo[r][k].dir /\ WhatOf(x) \in {"mesh", "matrix"}
          /\ Moves(r, k, i)
      BY <1>1, <2>2, <3>1, <3>2 DEF Treats
    <3>4. x.k = k
      BY <2>2, <3>1, <3>2 DEF RankInv, KeyOK
    <3>5. Origin(r, k)
      <4>1. SecondOK(r, k)
        BY DEF Inv
      <4>2. \A s \in {1, 2} : s = 1 \/ s = 2
        OBVIOUS
      <4> QED BY <1>2, <2>2, <3>1, <3>3, <4>1, <4>2 DEF Moves, Origin, SecondOK
    <3>6. CASE todo'[r][k] = Null
      <4>1. net'.req[<<r, k, 1>>] = Null
        BY <1>2, <3>3, <3>6 DEF Moves
      <4> QED BY <3>5, <3>6, <4>1 DEF LiveOK, KeyOK, RoundsOK, Free
    <3>7. CASE again
      <4>1. /\ todo'[r][k].at = i /\ net'.req[<<r, k, 1>>] = Null /\ todo'[r][k] # Null
            /\ todo[r][k].dir = "Send"
        BY <1>2, <3>1, <3>2, <3>3, <3>7 DEF Moves
      <4>2. LiveOK(r, k)' /\ KeyOK(r, k)'
        BY <1>2, <1>4, <3>2, <3>4, <3>7, <4>1 DEF LiveOK, KeyOK
      <4>3. RoundsOK(r, k) => RoundsOK(r, k)'
        BY <1>4, <2>2, <3>7, <4>1 DEF RoundsOK, IsMatrix, Free, SecondPart
      <4> QED BY <3>5, <4>2, <4>3
    <3>8. CASE todo'[r][k] # Null /\ ~again
      <4>1. ~(todo[r][k].dir = "Send" /\ WhatOf(x) = "mesh")
        BY <2>2, <3>1, <3>2, <3>8
      <4>2. /\ todo'[r][k].at = i /\ todo'[r][k].dir = todo[r][k].dir
            /\ net'.req[<<r, k, 1>>] # Null /\ net'.req[<<r, k, 1>>].at = i
            /\ WhatOf(x) = "mesh" => todo[r][k].state = 0 /\ todo'[r][k].state = 1
        BY <3>2, <3>3, <3>8, <4>1 DEF Moves
      <4>3. LiveOK(r, k)' /\ KeyOK(r, k)'
        BY <1>2, <3>2, <3>3, <3>4, <4>2 DEF LiveOK, KeyOK, Entries
      <4>4. ASSUME RoundsOK(r, k) PROVE RoundsOK(r, k)'
        <5>1. CASE WhatOf(x) = "matrix"
          BY <1>2, <3>2, <3>8, <4>2, <5>1 DEF RoundsOK, IsMatrix, WhatOf
        <5>2. CASE WhatOf(x) # "matrix"
          <6>1. WhatOf(x) = "mesh" /\ todo[r][k].dir = "Recv"
            BY <3>3, <4>1, <5>2 DEF Entries
          <6>2. waits[r].round # 2
            BY <2>2, <3>1, <3>2, <4>2, <4>4, <6>1 DEF RoundsOK, IsMatrix, Free, SecondPart
          <6>3. SecondPart(r, k)'
            BY <1>2, <3>2, <3>8, <4>2, <6>1 DEF SecondPart, WhatOf
          <6> QED BY <1>4, <6>2, <6>3 DEF RoundsOK
        <5> QED BY <5>1, <5>2
      <4> QED BY <3>5, <4>3, <4>4
    <3> QED BY <3>6, <3>7, <3>8
  <2> QED BY <2>1, <2>2
<1> HIDE DEF again
<1>7. WaitOK(r)'
  <2>1. At(r, {"WaitAll"}) => prog[r][pc[r]].ks \subseteq Keys
    <3>1. At(r, {"WaitAll"}) => At(r, {"Wait", "WaitAny", "WaitAll"})
      BY DEF At
    <3> QED BY <3>1, WaitedKeys
  <2>2. WaitOK(r)
    BY DEF RankInv
  <2> QED BY <1>2, <1>4, <1>5, <1>6, <2>1, <2>2 DEF WaitOK, At
<1>8. \A i \in 1 .. pc'[r] - 1 : EndedOK(r, i)'
  <2>1. pc[r] \in Nat /\ pc'[r] = pc[r]
    BY <1>2 DEF Inv, Types
  <2>2. \A b \in Keys : b # k => Origin(r, b)
    BY <1>3 DEF Origin
  <2>3. \A b \in Keys : Origin(r, b)
    BY <1>6, <2>2
  <2> QED BY <1>2, <2>1, <2>3, EndedStays DEF RankInv
<1>9. RankInv(r)'
  BY <1>2, <1>5, <1>6, <1>7, <1>8 DEF RankInv
<1>10. \A a \in Ranks : a # r => RankInv(a)'
  BY <1>2, <1>3, <1>4, OthersKept
<1> QED BY <1>9, <1>10

(* A wait returns: what was not asked for again is free, and what was is   *)
(* in the queue of the second round.                                       *)
LEMMA MPIWaitRank ==
  ASSUME Inv, Inv', NEW r \in Ranks, MPIWait(r), \A a \in Ranks : RankInv(a)
  PROVE  \A a \in Ranks : RankInv(a)'
<1>1. PICK K \in SUBSET Keys, q \in Seq(Keys) : Returns(r, K, q)
  BY Waited
<1>2. /\ At(r, {"Wait", "WaitAny", "WaitAll"}) /\ waits[r].queue = <<>>
      /\ prog' = prog /\ pc' = pc /\ todo' = todo
      /\ prog[r][pc[r]].op = "WaitAll" => K = Open(r)
      /\ waits'[r].round = waits[r].round + 1 /\ waits[r].round \in Nat
      /\ waits'[r].index # Null => waits'[r].index \in prog[r][pc[r]].ks
      /\ \A a \in Ranks : a # r => waits'[a] = waits[a]
  BY <1>1, QueueKeys DEF Returns, Waits
<1>3. \A k \in Keys : ~Queued(r, k)
  BY <1>2, EmptySeq DEF Queued
<1>4. \A k \in K : Queued(r, k)'
  BY <1>1 DEF Returns, Queued
<1>5. \A k \in Keys :
        /\ net'.req[<<r, k, 2>>] = net.req[<<r, k, 2>>]
        /\ net'.req[<<r, k, 1>>] # Null => net'.req[<<r, k, 1>>] = net.req[<<r, k, 1>>]
        /\ k \notin K => net'.req[<<r, k, 1>>] = net.req[<<r, k, 1>>]
  BY <1>1, IsHandle DEF Returns
<1>6. \A a \in Ranks : a # r =>
        \A b \in Keys : /\ net'.req[<<a, b, 1>>] = net.req[<<a, b, 1>>]
                        /\ net'.req[<<a, b, 2>>] = net.req[<<a, b, 2>>]
  BY <1>1, IsHandle DEF Returns
<1>7. \A k \in Keys : LiveOK(r, k)' /\ KeyOK(r, k)'
  <2> SUFFICES ASSUME NEW k \in Keys PROVE LiveOK(r, k)' /\ KeyOK(r, k)'
    OBVIOUS
  <2>1. LiveOK(r, k) /\ KeyOK(r, k)
    BY DEF RankInv
  <2>2. LiveOK(r, k)'
    BY <1>2, <1>3, <1>4, <1>5, <2>1 DEF LiveOK
  <2>3. KeyOK(r, k)'
    BY <1>2, <1>5, <2>1 DEF KeyOK
  <2> QED BY <2>2, <2>3
<1>8. ASSUME At(r, {"WaitAll"}), NEW k \in prog[r][pc[r]].ks
      PROVE  RoundsOK(r, k)'
  <2>1. k \in Keys
    BY <1>2, WaitedKeys
  <2>2. LiveOK(r, k) /\ RoundsOK(r, k)
    BY <1>8, <2>1 DEF RankInv, WaitOK
  <2>3. k \in K <=> net.req[<<r, k, 1>>] # Null
    BY <1>2, <1>8 DEF At, Open
  <2>4. k \notin K => Free(r, k)'
    BY <1>2, <1>3, <1>5, <2>1, <2>2, <2>3 DEF LiveOK, Free
  <2>5. waits[r].round = 1 /\ k \in K /\ ~IsMatrix(r, k) => SecondPart(r, k)
    BY <1>3, <2>1, <2>2, <2>3 DEF RoundsOK, Free
  <2>6. (SecondPart(r, k) => SecondPart(r, k)') /\ (IsMatrix(r, k) => IsMatrix(r, k)')
    BY <1>2 DEF SecondPart, IsMatrix, WhatOf
  <2>7. waits'[r].round = 2 => waits[r].round = 1
    BY <1>2
  <2> QED BY <1>4, <2>4, <2>5, <2>6, <2>7 DEF RoundsOK
<1>9. WaitOK(r)'
  <2>1. At(r, {"Wait", "WaitAny", "WaitAll"})' /\ (At(r, {"WaitAll"})' <=> At(r, {"WaitAll"}))
    BY <1>2 DEF At
  <2>2. prog'[r][pc'[r]].ks = prog[r][pc[r]].ks
    BY <1>2
  <2> QED BY <1>2, <1>8, <2>1, <2>2 DEF WaitOK
<1>10. \A i \in 1 .. pc'[r] - 1 : EndedOK(r, i)'
  <2>1. pc[r] \in Nat /\ pc'[r] = pc[r]
    BY <1>2 DEF Inv, Types
  <2>2. \A k \in Keys, s \in {1, 2} :
          net'.req[<<r, k, s>>] # Null => net'.req[<<r, k, s>>] = net.req[<<r, k, s>>]
    <3>1. \A s \in {1, 2} : s = 1 \/ s = 2
      OBVIOUS
    <3> QED BY <1>5, <3>1
  <2>3. \A k \in Keys : Origin(r, k)
    BY <1>2, <2>2 DEF Origin
  <2> QED BY <1>2, <2>1, <2>3, EndedStays DEF RankInv
<1>11. RankInv(r)'
  BY <1>2, <1>7, <1>9, <1>10 DEF RankInv
<1>12. \A a \in Ranks : a # r => RankInv(a)'
  BY <1>2, <1>6, OthersKept
<1> QED BY <1>11, <1>12

(* After the two rounds of a mpiWaitAll its requests are free but for      *)
(* matrices, after mpiWait the one it waits for is, and with them every    *)
(* instruction that posted under them.                                     *)
LEMMA EndWaitRank ==
  ASSUME Inv, Inv', NEW r \in Ranks, EndWait(r), \A a \in Ranks : RankInv(a)
  PROVE  \A a \in Ranks : RankInv(a)'
<1>1. /\ At(r, {"Wait", "WaitAny", "WaitAll"}) /\ waits[r].queue = <<>> /\ WaitOver(r)
      /\ pc' = [pc EXCEPT ![r] = @ + 1]
      /\ waits' = [waits EXCEPT ![r] = NotWaiting]
      /\ UNCHANGED <<prog, net, todo, got>>
  BY DEF EndWait
<1>2. /\ pc \in [Ranks -> Nat \ {0}] /\ waits \in [Ranks -> Waits]
  BY DEF Inv, Types
<1>3. /\ pc'[r] = pc[r] + 1 /\ pc[r] \in Nat /\ waits'[r] = NotWaiting
      /\ \A a \in Ranks : a # r => pc'[a] = pc[a] /\ waits'[a] = waits[a]
  BY <1>1, <1>2
<1>4. \A k \in Keys : ~Queued(r, k)
  BY <1>1, EmptySeq DEF Queued
<1>5. \A k \in Keys : LiveOK(r, k)' /\ KeyOK(r, k)'
  BY <1>1, <1>4 DEF RankInv, LiveOK, KeyOK
<1>6. WaitOK(r)'
  BY <1>3 DEF WaitOK, RoundsOK, NotWaiting
<1>p. PICK i : i = pc[r]
  OBVIOUS
<1>7. EndedOK(r, i)'
  <2> SUFFICES ASSUME NEW j \in 1 .. i - 1, WaitedFor(prog[r], j, i)
               PROVE  Ended(r, j)'
    BY <1>1 DEF EndedOK, WaitedFor, WhatOf
  <2>1. PICK k : k = prog[r][j].k
    OBVIOUS
  <2>2. k \in prog[r][pc[r]].ks /\ k \in Keys
    BY <1>1, <1>p, <2>1, WaitedKeys DEF WaitedFor
  <2>3. /\ LiveOK(r, k) /\ WaitOK(r) /\ ~Queued(r, k)
        /\ \A b \in Keys : KeyOK(r, b) /\ FirstOK(r, b) /\ SecondOK(r, b)
    BY <1>4, <2>2 DEF RankInv, Inv
  <2>4. Free(r, k) \/ (IsMatrix(r, k) /\ WhatOf(prog[r][j]) # "matrix")
    <3>1. CASE prog[r][i].op = "WaitAll"
      <4>1. At(r, {"WaitAll"}) /\ waits[r].round = 2 /\ WhatOf(prog[r][j]) # "matrix"
        BY <1>1, <1>p, <3>1 DEF WaitedFor, At, WaitOver, Rounds
      <4> QED BY <2>2, <2>3, <4>1 DEF WaitOK, RoundsOK
    <3>2. CASE prog[r][i].op \in {"Wait", "WaitAny"}
      <4>1. prog[r][pc[r]].ks = {k}
        BY <1>p, <2>1, <3>2 DEF WaitedFor
      <4>2. k \notin Open(r)
        BY <1>1, <1>p, <2>3, <3>2, <4>1 DEF WaitOver, WaitOK
      <4>3. net.req[<<r, k, 1>>] = Null
        BY <4>1, <4>2 DEF Open
      <4> QED BY <2>3, <4>3 DEF LiveOK, Free
    <3> QED BY <3>1, <3>2 DEF WaitedFor
  <2>5. ASSUME NEW b \in Keys
        PROVE  /\ todo[r][b] # Null => todo[r][b].at # j
               /\ net.req[<<r, b, 1>>] # Null => net.req[<<r, b, 1>>].at # j
               /\ net.req[<<r, b, 2>>] # Null => net.req[<<r, b, 2>>].at # j
    <3>1. todo[r][b] # Null => todo[r][b].at # j
      BY <2>1, <2>3, <2>4 DEF KeyOK, Free, IsMatrix
    <3>2. net.req[<<r, b, 1>>] # Null => net.req[<<r, b, 1>>].at # j
      BY <2>1, <2>3, <2>4 DEF KeyOK, Free, IsMatrix
    <3>3. net.req[<<r, b, 2>>] # Null => net.req[<<r, b, 2>>].at # j
      BY <2>3, <3>1 DEF SecondOK
    <3> QED BY <3>1, <3>2, <3>3
  <2>6. \A b \in Keys, s \in {1, 2} : net.req[<<r, b, s>>] # Null => net.req[<<r, b, s>>].at # j
    <3>1. \A s \in {1, 2} : s = 1 \/ s = 2
      OBVIOUS
    <3> QED BY <2>5, <3>1
  <2>7. j < pc'[r]
    BY <1>3, <1>p
  <2> QED BY <1>1, <2>5, <2>6, <2>7 DEF Ended
<1>8. \A m \in 1 .. pc'[r] - 1 : EndedOK(r, m)'
  <2>1. \A k \in Keys : Origin(r, k)
    BY <1>1 DEF Origin
  <2>2. pc'[r] \in Nat /\ pc'[r] >= pc[r]
    BY <1>3
  <2>3. \A m \in 1 .. pc[r] - 1 : EndedOK(r, m)'
    BY <1>1, <1>3, <2>1, <2>2, EndedStays DEF RankInv
  <2>4. \A m \in 1 .. pc'[r] - 1 : m = i \/ m \in 1 .. pc[r] - 1
    BY <1>3, <1>p
  <2> QED BY <1>7, <2>3, <2>4
<1>9. RankInv(r)'
  BY <1>1, <1>5, <1>6, <1>8 DEF RankInv
<1>10. \A a \in Ranks : a # r => RankInv(a)'
  BY <1>1, <1>3, OthersKept
<1> QED BY <1>9, <1>10

(* What MPI does by itself. *)
LEMMA CompleteRank ==
  ASSUME Inv, NEW h \in Handles, Complete(h) \/ Buffer(h), \A a \in Ranks : RankInv(a)
  PROVE  \A a \in Ranks : RankInv(a)'
<1>1. /\ net.req[h] # Null
      /\ net' = [net EXCEPT !.req[h].done = TRUE]
      /\ UNCHANGED <<prog, pc, todo, got, waits>>
  BY DEF Complete, Buffer, Active
<1> DEFINE q == [net.req[h] EXCEPT !.done = TRUE]
           R == [net.req EXCEPT ![h] = q]
<1>2. net \in Nets /\ net.req \in [Handles -> Requests \cup {Null}]
  BY DEF Inv, Types, Nets
<1>3. net.req[h] \in Requests
  BY <1>1, <1>2
<1>4. q \in Requests /\ q.at = net.req[h].at
  BY <1>3 DEF Requests
<1>5. q # Null
  BY <1>4, NullAssumption DEF Requests
<1>6. net' = [net EXCEPT !.req = R]
  BY <1>1
<1> HIDE DEF q
<1>7. net'.req = R
  <2> HIDE DEF R
  <2> QED BY <1>2, <1>6 DEF Nets
<1>8. \A a \in Handles : /\ net'.req[a] = Null <=> net.req[a] = Null
                         /\ net'.req[a].at = net.req[a].at
  BY <1>1, <1>2, <1>4, <1>5, <1>7
<1>9. \A a \in Ranks : \A k \in Keys, s \in {1, 2} :
        /\ net'.req[<<a, k, s>>] = Null <=> net.req[<<a, k, s>>] = Null
        /\ net'.req[<<a, k, s>>].at = net.req[<<a, k, s>>].at
  BY <1>8, IsHandle
<1> QED BY <1>1, <1>9, RankKept

LEMMA InitRank ==
  ASSUME Init, NEW r \in Ranks
  PROVE  RankInv(r)
<1>1. /\ \A k \in Keys : todo[r][k] = Null /\ net.req[<<r, k, 1>>] = Null
      /\ pc[r] = 1 /\ waits[r].round = 0 /\ waits[r].index = Null
  BY IsHandle DEF Init, NotWaiting
<1> QED BY <1>1 DEF RankInv, LiveOK, KeyOK, WaitOK, RoundsOK

(* The scripts are given once. *)
LEMMA ProgKept ==
  ASSUME [Next]_vars
  PROVE  prog' = prog
BY DEF Next, Rank, Post, MPIWait, DoOnWait, EndWait, Complete, Buffer, Done, vars

LEMMA NextRank ==
  ASSUME Inv, Inv', [Next]_vars, \A r \in Ranks : RankInv(r)
  PROVE  \A r \in Ranks : RankInv(r)'
<1>1. CASE UNCHANGED vars
  <2>1. prog' = prog /\ pc' = pc /\ net' = net /\ todo' = todo /\ waits' = waits
    BY <1>1 DEF vars
  <2> QED BY <2>1, RankKept
<1>2. ASSUME NEW r \in Ranks, Rank(r)
      PROVE  \A a \in Ranks : RankInv(a)'
  BY <1>2, PostRank, MPIWaitRank, DoOnWaitRank, EndWaitRank DEF Rank
<1>3. ASSUME NEW h \in Handles, Complete(h) \/ Buffer(h)
      PROVE  \A a \in Ranks : RankInv(a)'
  BY <1>3, CompleteRank
<1> QED BY <1>1, <1>2, <1>3 DEF Next, Done

(* The scripts in which no matrix is under a request of a later mpiWaitAll *)
NoMatrixInAll(f) ==
  \A i \in 1 .. Len(f) : \A j \in 1 .. i - 1 :
    f[i].op = "WaitAll" /\ f[j].op \in {"Send", "Recv"} /\ f[j].k \in f[i].ks
      => WhatOf(f[j]) # "matrix"

LEMMA AllFinished ==
  ASSUME Inv, \A r \in Ranks : RankInv(r) /\ NoMatrixInAll(prog[r])
  PROVE  WaitAllFinishes
<1> SUFFICES ASSUME NEW r \in Ranks, NEW i \in 1 .. pc[r] - 1, prog[r][i].op = "WaitAll",
                    NEW j \in 1 .. i - 1, prog[r][j].op \in {"Send", "Recv"},
                    prog[r][j].k \in prog[r][i].ks
             PROVE  Ended(r, j)
  BY DEF WaitAllFinishes
<1>1. i \in 1 .. Len(prog[r])
  BY DEF Inv, Types, Scripts, IsScript
<1>2. WaitedFor(prog[r], j, i)
  BY <1>1 DEF WaitedFor, NoMatrixInAll
<1> QED BY <1>2 DEF RankInv, EndedOK

(* The scripts in which what a request was posted for is waited for before *)
(* it is posted again.                                                     *)
WaitedBetween(f) ==
  \A j \in 1 .. Len(f) : \A i \in 1 .. j - 1 :
    f[i].op \in {"Send", "Recv"} /\ f[j].op \in {"Send", "Recv"} /\ f[i].k = f[j].k
      => \E w \in i + 1 .. j - 1 : WaitedFor(f, i, w)

LEMMA FreeAtPost ==
  ASSUME Inv, \A r \in Ranks : RankInv(r) /\ WaitedBetween(prog[r])
  PROVE  Reused
<1> SUFFICES ASSUME NEW r \in Ranks, Post(r), NEW k, k = prog[r][pc[r]].k
             PROVE  todo[r][k] = Null /\ net.req[<<r, k, 1>>] = Null
  BY DEF Reused
<1>1. At(r, {"Send", "Recv"})
  BY DEF Post, At
<1>2. PICK j \in 1 .. Len(prog[r]) : j = pc[r] /\ prog[r][j].op \in {"Send", "Recv"}
  BY <1>1 DEF At, Inv, Types, Scripts, IsScript
<1>3. k \in Keys /\ k = prog[r][j].k
  BY <1>2, Posting DEF Inv, Types
<1>4. EntryOK(r, k) /\ FirstOK(r, k) /\ KeyOK(r, k) /\ Scripts
  BY <1>3 DEF Inv, Types, RankInv
<1>5. ASSUME NEW i \in 1 .. j - 1, prog[r][i].op \in {"Send", "Recv"}, prog[r][i].k = k
      PROVE  Ended(r, i)
  <2>1. PICK w \in i + 1 .. j - 1 : WaitedFor(prog[r], i, w)
    BY <1>2, <1>3, <1>5 DEF WaitedBetween
  <2>2. w \in 1 .. pc[r] - 1 /\ i \in 1 .. w - 1
    BY <1>2, <2>1
  <2> QED BY <2>1, <2>2 DEF RankInv, EndedOK
<1>6. todo[r][k] = Null
  <2> SUFFICES ASSUME todo[r][k] # Null PROVE FALSE
    OBVIOUS
  <2>1. PICK i : i = todo[r][k].at
    OBVIOUS
  <2>2. i \in 1 .. j - 1 /\ prog[r][i].op \in {"Send", "Recv"} /\ prog[r][i].k = k
    <3>1. todo[r][k] \in Entries
      BY <1>3 DEF Inv, Types
    <3> QED BY <1>2, <1>4, <2>1, <3>1 DEF EntryOK, KeyOK, Entries
  <2>3. Ended(r, i)
    BY <1>5, <2>2
  <2> QED BY <1>3, <2>1, <2>3 DEF Ended
<1>7. net.req[<<r, k, 1>>] = Null
  <2> SUFFICES ASSUME net.req[<<r, k, 1>>] # Null PROVE FALSE
    OBVIOUS
  <2>1. PICK i : i = net.req[<<r, k, 1>>].at
    OBVIOUS
  <2>2. i \in 1 .. j - 1 /\ prog[r][i].k = k
    BY <1>2, <1>4, <2>1 DEF FirstOK, KeyOK
  <2>3. prog[r][i].op \in {"Send", "Recv"}
    BY <1>4, <2>1 DEF KeyOK
  <2>4. Ended(r, i)
    BY <1>5, <2>2, <2>3
  <2> QED BY <1>3, <2>1, <2>4 DEF Ended
<1> QED BY <1>6, <1>7

-----------------------------------------------------------------------------
(* Places in a finite set of instructions. *)

(* A set of numbers has a least one. *)
LEMMA Least ==
  ASSUME NEW T, T \subseteq Nat, T # {}
  PROVE  \E x \in T : \A y \in T : ~ (y < x)
<1>1. IsWellFoundedOn(OpToRel(<, Nat), Nat)
  BY NatLessThanWellFounded
<1>2. \E x \in T : \A y \in T : ~ (<<y, x>> \in OpToRel(<, Nat))
  BY <1>1, WFMin
<1> QED BY <1>2 DEF OpToRel

-----------------------------------------------------------------------------
(* Places in a set of instructions. *)

(* A set of instructions. *)
Within(S, N) == N \in Nat /\ S \subseteq 1 .. N

LEMMA WithinIs ==
  ASSUME NEW N, NEW S, Within(S, N)
  PROVE  N \in Int /\ N \in Nat /\ \A i \in S : i \in Int /\ i \in Nat /\ 1 <= i /\ i <= N
<1>1. N \in Nat /\ \A i \in S : i \in 1 .. N
  BY DEF Within
<1> QED BY <1>1

LEMMA PlaceType ==
  ASSUME NEW N, NEW S, Within(S, N)
  PROVE  /\ IsFiniteSet(S) /\ Cardinality(S) \in Nat
         /\ \A i \in Int : Place(S, i) \in Nat /\ Place(S, i) <= Cardinality(S)
         /\ \A i \in S : Place(S, i) >= 1
<1>1. IsFiniteSet(S) /\ Cardinality(S) \in Nat
  <2>1. N \in Int /\ 1 \in Int
    BY WithinIs
  <2>2. IsFiniteSet(1 .. N)
    BY <2>1, FS_Interval
  <2>3. S \in SUBSET (1 .. N)
    BY DEF Within
  <2> QED BY <2>2, <2>3, FS_Subset, FS_CardinalityType
<1>2. ASSUME NEW i \in Int
      PROVE  /\ IsFiniteSet({j \in S : j <= i})
             /\ Place(S, i) \in Nat /\ Place(S, i) <= Cardinality(S)
             /\ i \in S => Place(S, i) >= 1
  <2> DEFINE T == {j \in S : j <= i}
  <2>1. T \in SUBSET S
    OBVIOUS
  <2>2. IsFiniteSet(T) /\ Cardinality(T) <= Cardinality(S) /\ Cardinality(T) \in Nat
    <3> HIDE DEF T
    <3> QED BY <1>1, <2>1, FS_Subset, FS_CardinalityType
  <2>3. i \in S => i \in T
    BY DEF Within
  <2>4. i \in S => Cardinality(T) # 0
    <3> HIDE DEF T
    <3> QED BY <2>2, <2>3, FS_EmptySet
  <2> QED BY <2>2, <2>4 DEF Place
<1> QED BY <1>1, <1>2, WithinIs

LEMMA PlaceMonotone ==
  ASSUME NEW N, NEW S, Within(S, N), NEW i \in Int, NEW j \in S, i < j
  PROVE  Place(S, i) < Place(S, j)
<1> DEFINE T == {a \in S : a <= i}
           U == {a \in S : a <= j}
<1>1. j \in Int /\ \A a \in S : a \in Int
  BY WithinIs
<1>2. T \in SUBSET U /\ j \in U /\ j \notin T
  <2>1. \A a \in S : a <= i => a <= j
    BY <1>1
  <2>2. j <= j /\ ~ (j <= i)
    BY <1>1
  <2>3. T \in SUBSET U
    BY <2>1
  <2>4. j \in U /\ j \notin T
    BY <2>2
  <2> QED BY <2>3, <2>4
<1>3. IsFiniteSet(U)
  <2>1. U \in SUBSET S
    OBVIOUS
  <2> HIDE DEF U
  <2> QED BY <2>1, PlaceType, FS_Subset
<1>4. Place(S, i) = Cardinality(T) /\ Place(S, j) = Cardinality(U)
  BY DEF Place
<1> HIDE DEF T, U
<1>5. Cardinality(T) <= Cardinality(U) /\ Cardinality(T) # Cardinality(U)
  BY <1>2, <1>3, FS_Subset
<1>6. Cardinality(T) \in Nat /\ Cardinality(U) \in Nat
  BY <1>2, <1>3, FS_Subset, FS_CardinalityType
<1> QED BY <1>4, <1>5, <1>6

LEMMA PlaceInjective ==
  ASSUME NEW N, NEW S, Within(S, N), NEW i \in S, NEW j \in S, Place(S, i) = Place(S, j)
  PROVE  i = j
<1>1. i \in Int /\ j \in Int
  BY WithinIs
<1>2. Place(S, i) \in Nat
  BY <1>1, PlaceType
<1>3. CASE i < j
  BY <1>1, <1>2, <1>3, PlaceMonotone
<1>4. CASE j < i
  BY <1>1, <1>2, <1>4, PlaceMonotone
<1> QED BY <1>1, <1>3, <1>4

LEMMA PlaceNext ==
  ASSUME NEW N, NEW S, Within(S, N), NEW n \in Nat
  PROVE  Place(S, n + 1) = IF n + 1 \in S THEN Place(S, n) + 1 ELSE Place(S, n)
<1> DEFINE T == {a \in S : a <= n}
           U == {a \in S : a <= n + 1}
<1>1. \A a \in S : a \in Int
  BY WithinIs
<1>2. IsFiniteSet(T)
  <2>1. T \in SUBSET S
    OBVIOUS
  <2> HIDE DEF T
  <2> QED BY <2>1, PlaceType, FS_Subset
<1>3. Place(S, n) = Cardinality(T) /\ Place(S, n + 1) = Cardinality(U)
  BY DEF Place
<1>4. CASE n + 1 \in S
  <2>0. \A a \in S : a <= n + 1 <=> a <= n \/ a = n + 1
    BY <1>1
  <2>1. U = T \cup {n + 1} /\ n + 1 \notin T
    BY <1>4, <2>0
  <2> HIDE DEF T, U
  <2> QED BY <1>2, <1>3, <1>4, <2>1, FS_AddElement
<1>5. CASE n + 1 \notin S
  <2>0. \A a \in S : a <= n + 1 <=> a <= n
    BY <1>1, <1>5
  <2>1. U = T
    BY <2>0
  <2> QED BY <1>3, <1>5, <2>1
<1> QED BY <1>4, <1>5

(* The numbers of a set are all taken. *)
LEMMA PlaceOnto ==
  ASSUME NEW N, NEW S, Within(S, N), NEW v \in 1 .. Cardinality(S)
  PROVE  \E i \in S : Place(S, i) = v
<1> DEFINE T == {n \in Nat : Place(S, n) >= v}
<1>1. N \in Nat /\ Cardinality(S) \in Nat
  BY PlaceType, WithinIs
<1>2. N \in T
  <2>1. {a \in S : a <= N} = S
    BY WithinIs
  <2>2. Place(S, N) = Cardinality(S)
    BY <2>1 DEF Place
  <2> QED BY <1>1, <2>2
<1>3. T \subseteq Nat /\ T # {}
  BY <1>2
<1>4. PICK n \in T : \A m \in T : ~ (m < n)
  <2> HIDE DEF T
  <2> QED BY <1>3, Least
<1>5. n \in Nat /\ Place(S, n) >= v /\ Place(S, n) \in Nat
  BY PlaceType
<1>6. n # 0
  <2>1. \A a \in S : ~ (a <= 0)
    BY WithinIs
  <2>3. {a \in S : a <= 0} = {}
    BY <2>1
  <2>2. Place(S, 0) = 0
    BY <2>3, FS_EmptySet DEF Place
  <2> QED BY <1>5, <2>2
<1>7. PICK m \in Nat : n = m + 1
  <2>1. n - 1 \in Nat /\ n = n - 1 + 1
    BY <1>5, <1>6
  <2> QED BY <2>1
<1>8. Place(S, m) \in Nat /\ ~ (Place(S, m) >= v)
  <2>1. m \notin T
    BY <1>4, <1>7
  <2> QED BY <2>1, PlaceType
<1>9. n \in S /\ Place(S, n) = Place(S, m) + 1
  BY <1>5, <1>7, <1>8, PlaceNext
<1> QED BY <1>5, <1>8, <1>9

(* When instructions are added in their order, the next one is the next    *)
(* place.                                                                  *)
LEMMA NextPlace ==
  ASSUME NEW N, NEW S, Within(S, N), NEW L \in Nat, NEW i \in S,
         Place(S, i) > L, \A j \in S : j < i => Place(S, j) <= L
  PROVE  Place(S, i) = L + 1
<1>1. Place(S, i) \in Nat /\ Place(S, i) <= Cardinality(S) /\ Cardinality(S) \in Nat
  <2>1. i \in Int
    BY WithinIs
  <2> QED BY <2>1, PlaceType
<1>2. L + 1 \in 1 .. Cardinality(S)
  BY <1>1
<1>3. PICK j \in S : Place(S, j) = L + 1
  BY <1>2, PlaceOnto
<1>4. i \in Int /\ j \in Int
  BY WithinIs
<1>5. ~ (j < i)
  BY <1>3
<1>6. i < j => Place(S, i) < Place(S, j)
  BY <1>4, PlaceMonotone
<1> QED BY <1>1, <1>3, <1>4, <1>5, <1>6

(* Objects that have a part, among those of two ranks that stand for each  *)
(* other: places are the same again.                                       *)
Keeps(S, R, Sm, Rm, f) ==
  /\ Sm \in SUBSET S /\ Rm \in SUBSET R
  /\ \A a \in Rm : f[a] \in Sm /\ Place(S, f[a]) = Place(R, a)
  /\ \A b \in Sm : \A a \in R : Place(S, b) = Place(R, a) => a \in Rm

LEMMA PlacePreserved ==
  ASSUME NEW N, NEW S, Within(S, N), NEW M, NEW R, Within(R, M),
         NEW Sm, NEW Rm, NEW f, Keeps(S, R, Sm, Rm, f), NEW i \in Rm
  PROVE  Place(Rm, i) = Place(Sm, f[i])
<1>0. /\ Sm \in SUBSET S /\ Rm \in SUBSET R
      /\ \A a \in Rm : f[a] \in Sm /\ Place(S, f[a]) = Place(R, a)
      /\ \A b \in Sm : \A a \in R : Place(S, b) = Place(R, a) => a \in Rm
  BY DEF Keeps
<1>1. /\ \A a \in R : a \in Int /\ Place(R, a) \in Nat /\ Place(R, a) >= 1
                     /\ Place(R, a) <= Cardinality(R)
      /\ \A b \in S : b \in Int /\ Place(S, b) \in Nat /\ Place(S, b) >= 1
                     /\ Place(S, b) <= Cardinality(S)
      /\ Cardinality(S) \in Nat /\ Cardinality(R) \in Nat
      /\ IsFiniteSet(S) /\ IsFiniteSet(R)
  BY PlaceType, WithinIs
<1> DEFINE U == {a \in Rm : a <= i}
           V == {b \in Sm : b <= f[i]}
           g == [a \in U |-> f[a]]
<1>2. IsFiniteSet(U) /\ IsFiniteSet(V)
  <2>1. U \in SUBSET R /\ V \in SUBSET S
    BY <1>0
  <2> HIDE DEF U, V
  <2> QED BY <1>1, <2>1, FS_Subset
<1>3. ASSUME NEW a \in U PROVE f[a] \in V
  <2>1. a \in R /\ i \in R /\ f[a] \in S /\ f[i] \in S /\ a <= i /\ f[a] \in Sm
    BY <1>0
  <2>2. Place(R, a) <= Place(R, i)
    <3>1. CASE a = i
      BY <1>1, <2>1, <3>1
    <3>2. CASE a < i
      BY <1>1, <2>1, <3>2, PlaceMonotone
    <3> QED BY <1>1, <2>1, <3>1, <3>2
  <2>3. Place(S, f[a]) <= Place(S, f[i])
    BY <1>0, <2>1, <2>2
  <2>4. ~ (f[i] < f[a])
    <3> SUFFICES ASSUME f[i] < f[a] PROVE FALSE
      OBVIOUS
    <3>1. f[i] \in Int /\ f[a] \in S
      BY <1>1, <2>1
    <3>2. Place(S, f[i]) < Place(S, f[a])
      BY <3>1, PlaceMonotone
    <3> QED BY <1>1, <2>1, <2>3, <3>2
  <2> QED BY <1>1, <2>1, <2>4
<1>4. ASSUME NEW a \in U, NEW b \in U, f[a] = f[b] PROVE a = b
  <2>1. a \in R /\ b \in R /\ Place(R, a) = Place(R, b)
    BY <1>0, <1>4
  <2> QED BY <2>1, PlaceInjective
<1>5. ASSUME NEW b \in V PROVE \E a \in U : f[a] = b
  <2>1. b \in S /\ b \in Sm /\ b <= f[i] /\ i \in R /\ f[i] \in S
    BY <1>0
  <2>2. Place(S, b) <= Place(S, f[i])
    <3>1. CASE b = f[i]
      BY <1>1, <2>1, <3>1
    <3>2. CASE b < f[i]
      BY <1>1, <2>1, <3>2, PlaceMonotone
    <3> QED BY <1>1, <2>1, <3>1, <3>2
  <2>3. Place(S, f[i]) = Place(R, i)
    BY <1>0
  <2>4. Place(S, b) \in 1 .. Cardinality(R)
    BY <1>1, <2>1, <2>2, <2>3
  <2>5. PICK a \in R : Place(R, a) = Place(S, b)
    BY <2>4, PlaceOnto
  <2>6. a \in Rm
    BY <1>0, <2>1, <2>5
  <2>7. f[a] = b
    <3>1. f[a] \in S /\ Place(S, f[a]) = Place(S, b)
      BY <1>0, <2>5, <2>6
    <3> QED BY <2>1, <3>1, PlaceInjective
  <2>8. ~ (i < a)
    <3> SUFFICES ASSUME i < a PROVE FALSE
      OBVIOUS
    <3>1. Place(R, i) < Place(R, a)
      BY <1>1, <2>1, PlaceMonotone
    <3> QED BY <1>1, <2>1, <2>2, <2>3, <2>5, <3>1
  <2>9. a \in U
    BY <1>0, <1>1, <2>1, <2>6, <2>8
  <2> QED BY <2>7, <2>9
<1>6. g \in Bijection(U, V)
  <2>1. g \in [U -> V]
    BY <1>3
  <2>2. g \in Injection(U, V)
    BY <1>4, <2>1 DEF Injection, IsInjective
  <2>3. g \in Surjection(U, V)
    BY <1>5, <2>1 DEF Surjection
  <2> QED BY <2>2, <2>3 DEF Bijection
<1>7. Cardinality(U) = Cardinality(V)
  <2> HIDE DEF U, V, g
  <2>1. ExistsBijection(U, V)
    BY <1>6 DEF ExistsBijection
  <2> QED BY <1>2, <2>1, FS_Bijection
<1> QED BY <1>7 DEF Place

-----------------------------------------------------------------------------
(* Which send a receive stands for. *)

(* Instruction i of r has a part m: the object a receive stands for has,   *)
(* and every receive asks for a first part.                                *)
HasPart(r, i, m) == m = 1 \/ (Stands(r, i) /\ MessagesOf(ObjectOf(r, i)) >= m)

(* The sends and the receives of a channel.                                *)
SendsOn(c) == {j \in Postings(c[1], "Send", c[2], c[3][1]) : HasPart(c[1], j, c[3][2])}
RecvsOn(c) == {i \in Postings(c[2], "Recv", c[1], c[3][1]) : HasPart(c[2], i, c[3][2])}

LEMMA PostingsIs ==
  ASSUME Scripts, NEW r \in Ranks, NEW op, NEW peer, NEW what
  PROVE  /\ Within(Postings(r, op, peer, what), Len(prog[r]))
         /\ \A i \in Postings(r, op, peer, what) :
              /\ i \in 1 .. Len(prog[r]) /\ prog[r][i].op = op /\ prog[r][i].peer = peer
              /\ WhatOf(prog[r][i]) = what
BY DEF Scripts, IsScript, Postings, Within

LEMMA OnChannel ==
  ASSUME Scripts, NEW c \in Channels
  PROVE  /\ c[1] \in Ranks /\ c[2] \in Ranks /\ c[1] # c[2]
         /\ Within(SendsOn(c), Len(prog[c[1]])) /\ Within(RecvsOn(c), Len(prog[c[2]]))
<1>1. c[1] \in Ranks /\ c[2] \in Ranks /\ c[1] # c[2]
  BY DEF Channels
<1>2. /\ SendsOn(c) \subseteq Postings(c[1], "Send", c[2], c[3][1])
      /\ RecvsOn(c) \subseteq Postings(c[2], "Recv", c[1], c[3][1])
  BY DEF SendsOn, RecvsOn
<1> QED BY <1>1, <1>2, PostingsIs DEF Within

(* A receive that stands for a send stands for one. *)
LEMMA SendOfIs ==
  ASSUME Scripts, NEW p \in Ranks, NEW r \in Ranks, NEW what,
         NEW i \in Postings(r, "Recv", p, what)
  PROVE  LET R == Postings(r, "Recv", p, what)
             S == Postings(p, "Send", r, what)
         IN  /\ Alike(r, i) = R /\ Sends(r, i) = S
             /\ Stands(r, i) <=> Place(R, i) <= Cardinality(S)
             /\ Stands(r, i) => SendOf(r, i) \in S /\ Place(S, SendOf(r, i)) = Place(R, i)
             /\ \A j \in S : Place(S, j) = Place(R, i) => Stands(r, i) /\ j = SendOf(r, i)
             /\ ObjectOf(r, i) = prog[p][SendOf(r, i)].obj
<1> DEFINE R == Postings(r, "Recv", p, what)
           S == Postings(p, "Send", r, what)
<1>1. Within(R, Len(prog[r])) /\ Within(S, Len(prog[p]))
  BY PostingsIs
<1>2. prog[r][i].op = "Recv" /\ prog[r][i].peer = p /\ WhatOf(prog[r][i]) = what
  BY PostingsIs
<1>3. prog[r][i].what = what
  BY <1>2 DEF WhatOf
<1>4. Alike(r, i) = R /\ Sends(r, i) = S
  BY <1>2, <1>3 DEF Alike, Sends
<1> HIDE DEF R, S
<1>5. Stands(r, i) <=> Place(R, i) <= Cardinality(S)
  BY <1>2, <1>4 DEF Stands
<1>6. i \in R /\ i \in Int /\ Place(R, i) \in Nat /\ Place(R, i) >= 1
  <2>1. i \in R
    BY DEF R
  <2> QED BY <1>1, <2>1, PlaceType, WithinIs
<1>7. SendOf(r, i) = CHOOSE j \in S : Place(S, j) = Place(R, i)
  BY <1>4 DEF SendOf
<1>8. Stands(r, i) => SendOf(r, i) \in S /\ Place(S, SendOf(r, i)) = Place(R, i)
  <2> SUFFICES ASSUME Stands(r, i) PROVE SendOf(r, i) \in S /\ Place(S, SendOf(r, i)) = Place(R, i)
    OBVIOUS
  <2>1. Place(R, i) \in 1 .. Cardinality(S)
    <3>1. Cardinality(S) \in Nat
      BY <1>1, PlaceType
    <3> QED BY <1>5, <1>6, <3>1
  <2>2. \E j \in S : Place(S, j) = Place(R, i)
    BY <1>1, <2>1, PlaceOnto
  <2> QED BY <1>7, <2>2
<1>9. ASSUME NEW j \in S, Place(S, j) = Place(R, i)
      PROVE  Stands(r, i) /\ j = SendOf(r, i)
  <2>1. j \in Int
    BY <1>1, WithinIs
  <2>2. Place(S, j) <= Cardinality(S)
    BY <1>1, <2>1, PlaceType
  <2>3. Stands(r, i)
    BY <1>5, <1>9, <2>2
  <2> QED BY <1>1, <1>8, <1>9, <2>3, PlaceInjective
<1>10. ObjectOf(r, i) = prog[p][SendOf(r, i)].obj
  BY <1>2 DEF ObjectOf
<1> QED BY <1>4, <1>5, <1>8, <1>9, <1>10 DEF R, S

(* The n-th send of a channel is what the n-th receive stands for. *)
LEMMA Matching ==
  ASSUME Scripts, NEW c \in Channels, NEW i \in RecvsOn(c), NEW j \in SendsOn(c),
         Place(SendsOn(c), j) = Place(RecvsOn(c), i)
  PROVE  Stands(c[2], i) /\ j = SendOf(c[2], i)
<1> DEFINE R == Postings(c[2], "Recv", c[1], c[3][1])
           S == Postings(c[1], "Send", c[2], c[3][1])
           Sm == SendsOn(c)
           Rm == RecvsOn(c)
           m == c[3][2]
<1>1. /\ c[1] \in Ranks /\ c[2] \in Ranks
      /\ Within(R, Len(prog[c[2]])) /\ Within(S, Len(prog[c[1]]))
      /\ Within(Sm, Len(prog[c[1]])) /\ Within(Rm, Len(prog[c[2]]))
  BY OnChannel, PostingsIs
<1>2. i \in R /\ j \in S
  BY DEF SendsOn, RecvsOn
<1>3. CASE m = 1
  <2>1. Sm = S /\ Rm = R
    BY <1>3 DEF SendsOn, RecvsOn, HasPart
  <2> QED BY <1>1, <1>2, <2>1, SendOfIs
<1>4. CASE m # 1
  <2>1. Sm \in SUBSET S /\ Rm \in SUBSET R
    BY DEF SendsOn, RecvsOn
  <2>2. \A a \in R : a \in Rm <=> Stands(c[2], a) /\ MessagesOf(ObjectOf(c[2], a)) >= m
    BY <1>4 DEF RecvsOn, HasPart
  <2>3. \A b \in S : b \in Sm <=> MessagesOf(prog[c[1]][b].obj) >= m
    <3>1. \A b \in S : prog[c[1]][b].op = "Send"
      BY <1>1, PostingsIs
    <3>2. \A b \in S : Stands(c[1], b) /\ ObjectOf(c[1], b) = prog[c[1]][b].obj
      BY <3>1 DEF Stands, ObjectOf
    <3> QED BY <1>4, <3>2 DEF SendsOn, HasPart
  <2> DEFINE f == [a \in Rm |-> SendOf(c[2], a)]
  <2>4. ASSUME NEW a \in R
        PROVE  /\ Stands(c[2], a) => SendOf(c[2], a) \in S /\ Place(S, SendOf(c[2], a)) = Place(R, a)
               /\ \A b \in S : Place(S, b) = Place(R, a) => Stands(c[2], a) /\ b = SendOf(c[2], a)
               /\ ObjectOf(c[2], a) = prog[c[1]][SendOf(c[2], a)].obj
    BY <1>1, SendOfIs
  <2> HIDE DEF R, S, Sm, Rm, m
  <2>5. ASSUME NEW a \in Rm
        PROVE  f[a] = SendOf(c[2], a) /\ f[a] \in Sm /\ Place(S, f[a]) = Place(R, a)
    <3>1. a \in R /\ Stands(c[2], a) /\ MessagesOf(ObjectOf(c[2], a)) >= m
      BY <2>1, <2>2
    <3> QED BY <2>3, <2>4, <3>1
  <2>6. ASSUME NEW b \in Sm, NEW a \in R, Place(S, b) = Place(R, a) PROVE a \in Rm
    <3>1. b \in S /\ MessagesOf(prog[c[1]][b].obj) >= m
      BY <2>1, <2>3
    <3>2. Stands(c[2], a) /\ b = SendOf(c[2], a)
      BY <2>4, <2>6, <3>1
    <3> QED BY <2>2, <2>4, <3>1, <3>2
  <2>7. i \in Rm /\ j \in Sm /\ Place(Sm, j) = Place(Rm, i)
    BY DEF Rm, Sm
  <2> HIDE DEF f
  <2>8. Place(Rm, i) = Place(Sm, f[i])
    <3>1. PICK A : A = S
      OBVIOUS
    <3>2. PICK B : B = R
      OBVIOUS
    <3>3. PICK Am : Am = Sm
      OBVIOUS
    <3>4. PICK Bm : Bm = Rm
      OBVIOUS
    <3>5. PICK g : g = f
      OBVIOUS
    <3>6. PICK N : Within(A, N)
      BY <1>1, <3>1
    <3>7. PICK M : Within(B, M)
      BY <1>1, <3>2
    <3>8. Am \in SUBSET A /\ Bm \in SUBSET B /\ i \in Bm
      BY <2>1, <2>7, <3>1, <3>2, <3>3, <3>4
    <3>9. \A a \in Bm : g[a] \in Am /\ Place(A, g[a]) = Place(B, a)
      BY <2>5, <3>1, <3>2, <3>3, <3>4, <3>5
    <3>10. \A b \in Am : \A a \in B : Place(A, b) = Place(B, a) => a \in Bm
      BY <2>6, <3>1, <3>2, <3>3, <3>4
    <3>12. Keeps(A, B, Am, Bm, g)
      BY <3>8, <3>9, <3>10 DEF Keeps
    <3>11. Place(Bm, i) = Place(Am, g[i])
      BY <3>6, <3>7, <3>8, <3>12, PlacePreserved
    <3> QED BY <3>3, <3>4, <3>5, <3>11
  <2>9. j = f[i]
    <3>1. f[i] \in Sm
      BY <2>5, <2>7
    <3> QED BY <1>1, <2>7, <2>8, <3>1, PlaceInjective
  <2> QED BY <2>2, <2>5, <2>7, <2>9, <1>2 DEF R
<1> QED BY <1>3, <1>4

-----------------------------------------------------------------------------
(* The channels. *)

(* The messages instruction i of r has posted.                             *)
PostedBy(r, i) ==
  LET x == prog[r][i]
      e == todo[r][x.k]
      q == net.req[<<r, x.k, 1>>]
  IN  IF i >= pc[r] THEN 0
      ELSE IF x.op = "Recv" THEN Len(got[r][i]) + (IF q # Null /\ q.at = i THEN 1 ELSE 0)
      ELSE IF e # Null /\ e.at = i THEN e.state + 1 ELSE MessagesOf(x.obj)

(* What objects that arrive whole count on, since a message says nothing   *)
(* of the object it is part of: the parts of the objects of a kind between *)
(* two ranks are posted in the order of the objects.                       *)
PartsInOrder ==
  \A r \in Ranks : \A j \in 1 .. pc[r] - 1 : prog[r][j].op \in {"Send", "Recv"} =>
    \A i \in Alike(r, j) : i < j =>
      \/ PostedBy(r, i) >= PostedBy(r, j)
      \/ Stands(r, i) /\ PostedBy(r, i) = MessagesOf(ObjectOf(r, i))

(* Those of S that have posted part m, and that these are the first L.     *)
PostedOn(r, S, m) == {j \in S : PostedBy(r, j) >= m}
Filled(S, P, L)   == \A j \in S : j \in P <=> Place(S, j) <= L

(* The messages of a channel are those of its first sends, in their order, *)
(* and the receives posted are its first receives.                         *)
SentOK(c) ==
  /\ Filled(SendsOn(c), PostedOn(c[1], SendsOn(c), c[3][2]), Len(net.sent[c]))
  /\ \A n \in 1 .. Len(net.sent[c]) : \E j \in SendsOn(c) :
       /\ Place(SendsOn(c), j) = n
       /\ net.sent[c][n] = [obj |-> prog[c[1]][j].obj, part |-> c[3][2]]
AskedOK(c) == Filled(RecvsOn(c), PostedOn(c[2], RecvsOn(c), c[3][2]), net.posted[c])

(* The channel of part m of an instruction.                                *)
Chan(r, i, m) ==
  LET x == prog[r][i] IN
  IF x.op = "Send" THEN <<r, x.peer, Tag(WhatOf(x), m)>> ELSE <<x.peer, r, Tag(WhatOf(x), m)>>

(* What the scripts say does not change. *)
LEMMA Fixed ==
  ASSUME prog' = prog
  PROVE  /\ \A r, op, peer, what : Postings(r, op, peer, what)' = Postings(r, op, peer, what)
         /\ \A r, i : /\ Alike(r, i)' = Alike(r, i) /\ Sends(r, i)' = Sends(r, i)
                      /\ Stands(r, i)' <=> Stands(r, i)
                      /\ SendOf(r, i)' = SendOf(r, i)
                      /\ ObjectOf(r, i)' = ObjectOf(r, i)
         /\ \A r, i, m : HasPart(r, i, m)' <=> HasPart(r, i, m)
         /\ \A r, i, m : Chan(r, i, m)' = Chan(r, i, m)
         /\ \A c : SendsOn(c)' = SendsOn(c) /\ RecvsOn(c)' = RecvsOn(c)
<1>1. \A r, op, peer, what : Postings(r, op, peer, what)' = Postings(r, op, peer, what)
  BY DEF Postings, WhatOf
<1>2. \A r, i : Alike(r, i)' = Alike(r, i) /\ Sends(r, i)' = Sends(r, i)
  BY <1>1 DEF Alike, Sends, WhatOf
<1>3. \A r, i : Stands(r, i)' <=> Stands(r, i)
  BY <1>2 DEF Stands, Place
<1>4. \A r, i : SendOf(r, i)' = SendOf(r, i)
  BY <1>2 DEF SendOf, Place
<1>5. \A r, i : ObjectOf(r, i)' = ObjectOf(r, i)
  BY <1>4 DEF ObjectOf
<1>6. \A r, i, m : HasPart(r, i, m)' <=> HasPart(r, i, m)
  BY <1>3, <1>5 DEF HasPart, MessagesOf
<1>7. \A r, i, m : Chan(r, i, m)' = Chan(r, i, m)
  BY DEF Chan, WhatOf, Tag
<1>8. ASSUME NEW c PROVE SendsOn(c)' = SendsOn(c) /\ RecvsOn(c)' = RecvsOn(c)
  BY <1>1, <1>6 DEF SendsOn, RecvsOn
<1> QED BY <1>1, <1>2, <1>3, <1>4, <1>5, <1>6, <1>7, <1>8

(* A part is a number. *)
LEMMA ChannelIs ==
  ASSUME NEW c \in Channels
  PROVE  /\ c[3] = Tag(c[3][1], c[3][2]) /\ c = <<c[1], c[2], c[3]>>
         /\ c[3][2] \in 1 .. 4
<1>1. c \in Ranks \X Ranks \X Tags
  BY DEF Channels
<1>2. c[3] \in Tags /\ c = <<c[1], c[2], c[3]>>
  BY <1>1
<1>3. c[3] \in {<<"array", 1>>} \/ c[3] \in {"mesh"} \X (1 .. 2) \/ c[3] \in {"matrix"} \X (1 .. 4)
  BY <1>2 DEF Tags
<1>4. c[3] = <<c[3][1], c[3][2]>> /\ c[3][2] \in 1 .. 4
  <2>1. CASE c[3] \in {<<"array", 1>>}
    BY <2>1
  <2>2. CASE c[3] \in {"mesh"} \X (1 .. 2)
    BY <2>2
  <2>3. CASE c[3] \in {"matrix"} \X (1 .. 4)
    BY <2>3
  <2> QED BY <1>3, <2>1, <2>2, <2>3
<1> QED BY <1>2, <1>4 DEF Tag

(* The channel of what is on it. *)
LEMMA OnItsChannel ==
  ASSUME Scripts, NEW c \in Channels
  PROVE  /\ \A j \in SendsOn(c) :
              /\ j \in 1 .. Len(prog[c[1]]) /\ prog[c[1]][j].op = "Send"
              /\ Chan(c[1], j, c[3][2]) = c /\ HasPart(c[1], j, c[3][2])
              /\ Alike(c[1], j) = Postings(c[1], "Send", c[2], c[3][1])
         /\ \A i \in RecvsOn(c) :
              /\ i \in 1 .. Len(prog[c[2]]) /\ prog[c[2]][i].op = "Recv"
              /\ Chan(c[2], i, c[3][2]) = c /\ HasPart(c[2], i, c[3][2])
              /\ Alike(c[2], i) = Postings(c[2], "Recv", c[1], c[3][1])
<1>1. c[1] \in Ranks /\ c[2] \in Ranks
  BY OnChannel
<1>2. ASSUME NEW j \in SendsOn(c)
      PROVE  /\ j \in 1 .. Len(prog[c[1]]) /\ prog[c[1]][j].op = "Send"
             /\ Chan(c[1], j, c[3][2]) = c /\ HasPart(c[1], j, c[3][2])
             /\ Alike(c[1], j) = Postings(c[1], "Send", c[2], c[3][1])
  <2>1. j \in Postings(c[1], "Send", c[2], c[3][1]) /\ HasPart(c[1], j, c[3][2])
    BY DEF SendsOn
  <2>2. /\ j \in 1 .. Len(prog[c[1]]) /\ prog[c[1]][j].op = "Send"
        /\ prog[c[1]][j].peer = c[2] /\ WhatOf(prog[c[1]][j]) = c[3][1]
    BY <1>1, <2>1, PostingsIs
  <2> QED BY <2>1, <2>2, ChannelIs DEF Chan, Alike
<1>3. ASSUME NEW i \in RecvsOn(c)
      PROVE  /\ i \in 1 .. Len(prog[c[2]]) /\ prog[c[2]][i].op = "Recv"
             /\ Chan(c[2], i, c[3][2]) = c /\ HasPart(c[2], i, c[3][2])
             /\ Alike(c[2], i) = Postings(c[2], "Recv", c[1], c[3][1])
  <2>1. i \in Postings(c[2], "Recv", c[1], c[3][1]) /\ HasPart(c[2], i, c[3][2])
    BY DEF RecvsOn
  <2>2. /\ i \in 1 .. Len(prog[c[2]]) /\ prog[c[2]][i].op = "Recv"
        /\ prog[c[2]][i].peer = c[1] /\ WhatOf(prog[c[2]][i]) = c[3][1]
    BY <1>1, <2>1, PostingsIs
  <2> QED BY <2>1, <2>2, ChannelIs DEF Chan, Alike
<1> QED BY <1>2, <1>3

(* Conversely, an instruction is on the channels of its parts. *)
LEMMA ItsChannel ==
  ASSUME Scripts, NEW c \in Channels, NEW r \in Ranks, NEW i \in 1 .. Len(prog[r]),
         NEW m, c = Chan(r, i, m), HasPart(r, i, m)
  PROVE  /\ c[3][2] = m
         /\ prog[r][i].op = "Send" => c[1] = r /\ i \in SendsOn(c)
         /\ prog[r][i].op = "Recv" => c[2] = r /\ i \in RecvsOn(c)
<1>1. CASE prog[r][i].op = "Send"
  <2>1. c = <<r, prog[r][i].peer, <<WhatOf(prog[r][i]), m>>>>
    BY <1>1 DEF Chan, Tag
  <2> QED BY <1>1, <2>1 DEF SendsOn, Postings
<1>2. CASE prog[r][i].op = "Recv"
  <2>1. c = <<prog[r][i].peer, r, <<WhatOf(prog[r][i]), m>>>>
    BY <1>2 DEF Chan, Tag
  <2> QED BY <1>2, <2>1 DEF RecvsOn, Postings
<1>3. CASE prog[r][i].op # "Send"
  BY <1>2, <1>3 DEF Chan, Tag
<1> QED BY <1>1, <1>2, <1>3

(* One more instruction in its order. *)
LEMMA FilledStep ==
  ASSUME NEW N, NEW S, Within(S, N), NEW L \in Nat, NEW P, Filled(S, P, L),
         NEW i \in S, i \notin P, \A j \in S : j < i => j \in P
  PROVE  Place(S, i) = L + 1 /\ Filled(S, P \cup {i}, L + 1)
<1>1. \A j \in S : j \in Int /\ Place(S, j) \in Nat
  BY PlaceType, WithinIs
<1>2. Place(S, i) > L /\ \A j \in S : j < i => Place(S, j) <= L
  BY <1>1 DEF Filled
<1>3. Place(S, i) = L + 1
  BY <1>2, NextPlace
<1>4. ASSUME NEW j \in S PROVE j \in P \cup {i} <=> Place(S, j) <= L + 1
  <2>1. CASE j = i
    BY <1>3, <2>1
  <2>2. CASE j # i
    <3>1. Place(S, j) # L + 1
      BY <1>3, <2>2, PlaceInjective
    <3>2. j \in P <=> Place(S, j) <= L
      BY DEF Filled
    <3> QED BY <1>1, <2>2, <3>1, <3>2
  <2> QED BY <2>1, <2>2
<1> QED BY <1>3, <1>4 DEF Filled

(* What posting in order says of the objects before. *)
LEMMA BeforeHave ==
  ASSUME Scripts, prog' = prog, PartsInOrder', NEW r \in Ranks, NEW i \in 1 .. Len(prog[r]),
         prog[r][i].op \in {"Send", "Recv"}, pc'[r] \in Nat,
         NEW m \in Nat, m >= 1, PostedBy(r, i)' \in Nat, PostedBy(r, i)' >= m,
         NEW j \in Alike(r, i), j < i, HasPart(r, j, m), PostedBy(r, j)' \in Nat
  PROVE  PostedBy(r, j)' >= m
<1>1. i \in 1 .. pc'[r] - 1
  <2>1. Len(prog[r]) \in Nat
    BY DEF Scripts, IsScript
  <2>2. ~ (i >= pc'[r])
    <3> SUFFICES ASSUME i >= pc'[r] PROVE FALSE
      OBVIOUS
    <3>1. PostedBy(r, i)' = 0
      BY DEF PostedBy
    <3> QED BY <3>1
  <2> QED BY <2>1, <2>2
<1>2. \/ PostedBy(r, j)' >= PostedBy(r, i)'
      \/ Stands(r, j) /\ PostedBy(r, j)' = MessagesOf(ObjectOf(r, j))
  <2>1. j \in Alike(r, i)'
    BY Fixed
  <2>2. prog'[r][i].op \in {"Send", "Recv"}
    OBVIOUS
  <2>3. \/ PostedBy(r, j)' >= PostedBy(r, i)'
        \/ Stands(r, j)' /\ PostedBy(r, j)' = MessagesOf(ObjectOf(r, j)')
    BY <1>1, <2>1, <2>2 DEF PartsInOrder, MessagesOf
  <2>4. (Stands(r, j)' <=> Stands(r, j)) /\ ObjectOf(r, j)' = ObjectOf(r, j)
    BY Fixed
  <2> QED BY <2>3, <2>4
<1>3. CASE PostedBy(r, j)' >= PostedBy(r, i)'
  BY <1>3
<1>4. CASE Stands(r, j) /\ PostedBy(r, j)' = MessagesOf(ObjectOf(r, j))
  <2>1. CASE m = 1
    <3>1. MessagesOf(ObjectOf(r, j)) # 0
      BY DEF MessagesOf
    <3> QED BY <1>4, <2>1, <3>1
  <2>2. CASE m # 1
    BY <1>4, <2>2 DEF HasPart
  <2> QED BY <2>1, <2>2
<1> QED BY <1>2, <1>3, <1>4

-----------------------------------------------------------------------------
(* A step that posts. *)

PostsOf(r) == {i \in 1 .. Len(prog[r]) : prog[r][i].op \in {"Send", "Recv"}}

(* Part m of instruction i of r is among those the step has posted.        *)
New(r, i, m) == PostedBy(r, i) < m /\ m <= PostedBy(r, i)'

(* A step posts parts of instruction i of r only, and each is sent, or     *)
(* asked for, on its channel.                                              *)
Advances(r, i) ==
  /\ \A a \in Ranks : \A j \in PostsOf(a) :
       /\ PostedBy(a, j) \in Nat /\ PostedBy(a, j)' \in Nat
       /\ a # r \/ j # i => PostedBy(a, j)' = PostedBy(a, j)
  /\ PostedBy(r, i) <= PostedBy(r, i)' /\ HasPart(r, i, PostedBy(r, i)')
  /\ \A c \in Channels :
       LET new == New(r, i, c[3][2]) /\ c = Chan(r, i, c[3][2]) IN
       /\ net'.sent[c] = IF new /\ prog[r][i].op = "Send"
                         THEN Append(net.sent[c], [obj |-> prog[r][i].obj, part |-> c[3][2]])
                         ELSE net.sent[c]
       /\ net'.posted[c] = IF new /\ prog[r][i].op = "Recv" THEN net.posted[c] + 1
                           ELSE net.posted[c]

(* Those on a channel that have posted after it. *)
LEMMA PostedOnStep ==
  ASSUME Scripts, prog' = prog, PartsInOrder', NEW r \in Ranks, NEW i \in PostsOf(r),
         Advances(r, i), NEW a \in Ranks, pc'[a] \in Nat, NEW m \in 1 .. 4, NEW S,
         \A j \in S : j \in PostsOf(a) /\ HasPart(a, j, m),
         \A j, l \in S : l \in Alike(a, j)
  PROVE  LET new == a = r /\ i \in S /\ New(r, i, m)
         IN  /\ PostedOn(a, S, m)' = IF new THEN PostedOn(a, S, m) \cup {i} ELSE PostedOn(a, S, m)
             /\ new => /\ i \notin PostedOn(a, S, m)
                       /\ \A j \in S : j < i => j \in PostedOn(a, S, m)
<1> DEFINE new == a = r /\ i \in S /\ New(r, i, m)
<1>1. \A j \in S : /\ PostedBy(a, j) \in Nat /\ PostedBy(a, j)' \in Nat
                   /\ a # r \/ j # i => PostedBy(a, j)' = PostedBy(a, j)
  BY DEF Advances
<1>2. PostedOn(a, S, m)' = {j \in S : PostedBy(a, j)' >= m}
  BY DEF PostedOn
<1>3. CASE new
  <2>1. a = r /\ i \in S /\ PostedBy(r, i) < m /\ m <= PostedBy(r, i)'
    BY <1>3 DEF New
  <2>2. i \notin PostedOn(a, S, m)
    BY <1>1, <2>1 DEF PostedOn
  <2>3. ASSUME NEW j \in S PROVE PostedBy(a, j)' >= m <=> PostedBy(a, j) >= m \/ j = i
    BY <1>1, <2>1
  <2>4. PostedOn(a, S, m)' = PostedOn(a, S, m) \cup {i}
    BY <1>2, <2>1, <2>3 DEF PostedOn
  <2>5. ASSUME NEW j \in S, j < i PROVE j \in PostedOn(a, S, m)
    <3>1. j # i /\ PostedBy(a, j)' = PostedBy(a, j)
      <4>1. i \in Int
        BY DEF PostsOf
      <4>2. j # i
        BY <2>5, <4>1
      <4> QED BY <1>1, <4>2
    <3>2. PostedBy(r, j)' >= m
      <4>1. /\ i \in 1 .. Len(prog[r]) /\ prog[r][i].op \in {"Send", "Recv"}
            /\ m \in Nat /\ m >= 1 /\ pc'[r] \in Nat
            /\ PostedBy(r, i)' \in Nat /\ PostedBy(r, i)' >= m
            /\ j \in Alike(r, i) /\ HasPart(r, j, m) /\ PostedBy(r, j)' \in Nat
        BY <1>1, <2>1 DEF PostsOf
      <4> QED BY <2>5, <4>1, BeforeHave
    <3> QED BY <2>1, <3>1, <3>2 DEF PostedOn
  <2> QED BY <1>3, <2>2, <2>4, <2>5
<1>4. CASE ~new
  <2>1. ASSUME NEW j \in S PROVE PostedBy(a, j)' >= m <=> PostedBy(a, j) >= m
    <3>1. CASE a = r /\ j = i
      <4>1. ~ New(r, i, m)
        BY <1>4, <3>1
      <4>2. PostedBy(r, i) <= PostedBy(r, i)'
        BY DEF Advances
      <4> QED BY <1>1, <3>1, <4>1, <4>2 DEF New
    <3>2. CASE a # r \/ j # i
      BY <1>1, <3>2
    <3> QED BY <3>1, <3>2
  <2>2. PostedOn(a, S, m)' = PostedOn(a, S, m)
    BY <1>2, <2>1 DEF PostedOn
  <2> QED BY <1>4, <2>2
<1> QED BY <1>3, <1>4

(* The object of an instruction is of its kind, and has as many parts as   *)
(* objects of this kind have.                                              *)
LEMMA ObjectIs ==
  ASSUME Scripts, NEW r \in Ranks, NEW i \in PostsOf(r), Stands(r, i)
  PROVE  LET obj == ObjectOf(r, i) IN
         /\ obj.what = WhatOf(prog[r][i]) /\ obj.what \in Kinds
         /\ obj.parts \in Parts[obj.what]
         /\ MessagesOf(obj) \in 1 .. 4
         /\ obj.what = "array" => MessagesOf(obj) = 1
         /\ obj.what = "mesh" => MessagesOf(obj) = IF obj.parts = 2 THEN 2 ELSE 1
         /\ obj.what = "matrix" => MessagesOf(obj) = 4
<1> DEFINE obj == ObjectOf(r, i)
<1>1. obj.what = WhatOf(prog[r][i]) /\ obj.what \in Kinds /\ obj.parts \in Parts[obj.what]
  <2>1. CASE prog[r][i].op = "Send"
    <3>1. obj = prog[r][i].obj
      BY <2>1 DEF ObjectOf
    <3>2. obj.what \in Kinds /\ obj.parts \in Parts[obj.what]
      BY <2>1, <3>1 DEF PostsOf, Scripts, IsScript
    <3> QED BY <2>1, <3>1, <3>2 DEF WhatOf
  <2>2. CASE prog[r][i].op = "Recv"
    <3>1. PICK p \in Ranks : p = prog[r][i].peer
      BY <2>2, Posting DEF PostsOf
    <3>2. PICK what : what = WhatOf(prog[r][i])
      OBVIOUS
    <3>3. i \in Postings(r, "Recv", p, what)
      BY <2>2, <3>1, <3>2 DEF Postings, PostsOf
    <3>4. /\ SendOf(r, i) \in Postings(p, "Send", r, what)
          /\ obj = prog[p][SendOf(r, i)].obj
      BY <3>3, SendOfIs
    <3>5. PICK j \in 1 .. Len(prog[p]) :
            /\ obj = prog[p][j].obj /\ prog[p][j].op = "Send"
            /\ WhatOf(prog[p][j]) = what
      BY <3>4, PostingsIs
    <3>6. obj.what \in Kinds /\ obj.parts \in Parts[obj.what]
      BY <3>5 DEF Scripts, IsScript
    <3> QED BY <3>2, <3>5, <3>6 DEF WhatOf
  <2> QED BY <2>1, <2>2 DEF PostsOf
<1> HIDE DEF obj
<1>2. /\ obj.what = "array" => obj.parts = 1
      /\ obj.what = "mesh" => obj.parts \in 0 .. 2
      /\ obj.what = "matrix" => obj.parts = 4
  BY <1>1 DEF Parts
<1>3. obj.what = "array" \/ obj.what = "mesh" \/ obj.what = "matrix"
  BY <1>1 DEF Kinds
<1> QED BY <1>1, <1>2, <1>3 DEF MessagesOf, obj

(* Which step posts on a channel. *)
LEMMA NewOn ==
  ASSUME Scripts, NEW r \in Ranks, NEW i \in PostsOf(r), Advances(r, i), NEW c \in Channels
  PROVE  /\ (c[1] = r /\ i \in SendsOn(c) /\ New(r, i, c[3][2]))
              <=> (New(r, i, c[3][2]) /\ c = Chan(r, i, c[3][2]) /\ prog[r][i].op = "Send")
         /\ (c[2] = r /\ i \in RecvsOn(c) /\ New(r, i, c[3][2]))
              <=> (New(r, i, c[3][2]) /\ c = Chan(r, i, c[3][2]) /\ prog[r][i].op = "Recv")
<1> DEFINE m == c[3][2]
<1>1. m \in 1 .. 4
  BY ChannelIs
<1>2. New(r, i, m) => HasPart(r, i, m)
  <2>1. PostedBy(r, i)' \in Nat
    BY DEF Advances
  <2>2. HasPart(r, i, PostedBy(r, i)')
    BY DEF Advances
  <2>3. ASSUME New(r, i, m) PROVE HasPart(r, i, m)
    <3>1. m <= PostedBy(r, i)'
      BY <2>3 DEF New
    <3>2. CASE m = 1
      BY <3>2 DEF HasPart
    <3>3. CASE m # 1
      <4>1. PostedBy(r, i)' # 1
        BY <1>1, <2>1, <3>1, <3>3
      <4>2. Stands(r, i) /\ MessagesOf(ObjectOf(r, i)) >= PostedBy(r, i)'
        BY <2>2, <4>1 DEF HasPart
      <4>3. MessagesOf(ObjectOf(r, i)) >= m
        <5>1. PICK v : v = MessagesOf(ObjectOf(r, i))
          OBVIOUS
        <5>2. v >= PostedBy(r, i)' /\ m <= PostedBy(r, i)'
          BY <3>1, <4>2, <5>1
        <5>3. v \in Int
          <6>1. MessagesOf(ObjectOf(r, i)) \in 1 .. 4
            BY <4>2, ObjectIs
          <6> QED BY <5>1, <6>1
        <5> QED BY <1>1, <2>1, <5>1, <5>2, <5>3
      <4> QED BY <4>2, <4>3 DEF HasPart
    <3> QED BY <3>2, <3>3
  <2> QED BY <2>3
<1>3. i \in 1 .. Len(prog[r])
  BY DEF PostsOf
<1> HIDE DEF m
<1>4. New(r, i, m) /\ c = Chan(r, i, m) =>
        /\ prog[r][i].op = "Send" => c[1] = r /\ i \in SendsOn(c)
        /\ prog[r][i].op = "Recv" => c[2] = r /\ i \in RecvsOn(c)
  BY <1>2, <1>3, ItsChannel
<1>5. /\ c[1] = r /\ i \in SendsOn(c) => c = Chan(r, i, m) /\ prog[r][i].op = "Send"
      /\ c[2] = r /\ i \in RecvsOn(c) => c = Chan(r, i, m) /\ prog[r][i].op = "Recv"
  BY OnItsChannel DEF m
<1> QED BY <1>4, <1>5 DEF m

LEMMA SentStep ==
  ASSUME Scripts, net \in Nets, net' \in Nets, pc' \in [Ranks -> Nat \ {0}], prog' = prog,
         PartsInOrder', NEW r \in Ranks, NEW i \in PostsOf(r), Advances(r, i),
         NEW c \in Channels, SentOK(c)
  PROVE  SentOK(c)'
<1>1. PICK S : S = SendsOn(c)
  OBVIOUS
<1>2. PICK m \in 1 .. 4 : m = c[3][2]
  BY ChannelIs
<1>3. PICK p \in Ranks : p = c[1]
  BY OnChannel
<1>4. PICK P : P = PostedOn(p, S, m)
  OBVIOUS
<1>5. PICK L : L = net.sent[c]
  OBVIOUS
<1>6. PICK L2 : L2 = net'.sent[c]
  OBVIOUS
<1>7. L \in Seq(Messages) /\ Len(L) \in Nat
  BY <1>5, LenProperties DEF Nets
<1>8. PICK N : Within(S, N)
  BY <1>1, OnChannel
<1>9. /\ Filled(S, P, Len(L))
      /\ \A n \in 1 .. Len(L) : \E j \in S :
           Place(S, j) = n /\ L[n] = [obj |-> prog[p][j].obj, part |-> m]
  BY <1>1, <1>2, <1>3, <1>4, <1>5 DEF SentOK
<1>10. PICK new \in BOOLEAN : new <=> p = r /\ i \in S /\ New(r, i, m)
  OBVIOUS
<1>11. L2 = IF new THEN Append(L, [obj |-> prog[r][i].obj, part |-> m]) ELSE L
  BY <1>1, <1>2, <1>3, <1>5, <1>6, <1>10, NewOn DEF Advances
<1>12. PICK P2 : P2 = PostedOn(p, S, m)'
  OBVIOUS
<1>13. /\ P2 = IF new THEN P \cup {i} ELSE P
       /\ new => i \notin P /\ \A j \in S : j < i => j \in P
  <2>1. \A j \in S : /\ j \in PostsOf(p) /\ HasPart(p, j, m)
                     /\ Alike(p, j) = Postings(p, "Send", c[2], c[3][1])
    BY <1>1, <1>2, <1>3, OnItsChannel DEF PostsOf
  <2>2. \A j, l \in S : l \in Alike(p, j)
    BY <1>1, <1>3, <2>1 DEF SendsOn
  <2>3. pc'[p] \in Nat
    OBVIOUS
  <2> QED BY <1>4, <1>10, <1>12, <2>1, <2>2, <2>3, PostedOnStep
<1>14. SentOK(c)' <=>
         /\ Filled(S, P2, Len(L2))
         /\ \A n \in 1 .. Len(L2) : \E j \in S :
              Place(S, j) = n /\ L2[n] = [obj |-> prog[p][j].obj, part |-> m]
  <2>1. SendsOn(c)' = S
    BY <1>1, Fixed
  <2>2. \A A, B, n : (Filled(A, B, n))' <=> Filled(A, B, n)
    BY DEF Filled, Place
  <2> QED BY <1>2, <1>3, <1>6, <1>12, <2>1, <2>2 DEF SentOK, Place
<1>15. CASE ~ new
  BY <1>9, <1>11, <1>13, <1>14, <1>15
<1>16. CASE new
  <2>1. i \in S /\ p = r
    BY <1>10, <1>16
  <2>2. Place(S, i) = Len(L) + 1 /\ Filled(S, P \cup {i}, Len(L) + 1)
    BY <1>7, <1>8, <1>9, <1>13, <1>16, <2>1, FilledStep
  <2>3. PICK x : x = [obj |-> prog[r][i].obj, part |-> m]
    OBVIOUS
  <2>4. /\ Len(L2) = Len(L) + 1 /\ L2[Len(L) + 1] = x
        /\ \A n \in 1 .. Len(L) : L2[n] = L[n]
    <3>1. L2 = Append(L, x)
      BY <1>11, <1>16, <2>3
    <3>2. L \in Seq(Messages \cup {x}) /\ x \in Messages \cup {x}
      BY <1>7
    <3> QED BY <3>1, <3>2, AppendProperties
  <2>5. ASSUME NEW n \in 1 .. Len(L2)
        PROVE  \E j \in S : Place(S, j) = n /\ L2[n] = [obj |-> prog[p][j].obj, part |-> m]
    <3>1. CASE n = Len(L) + 1
      BY <2>1, <2>2, <2>3, <2>4, <3>1
    <3>2. CASE n # Len(L) + 1
      <4>1. n \in 1 .. Len(L)
        BY <1>7, <2>4, <3>2
      <4> QED BY <1>9, <2>4, <4>1
    <3> QED BY <3>1, <3>2
  <2> QED BY <1>13, <1>14, <1>16, <2>2, <2>4, <2>5
<1> QED BY <1>15, <1>16

LEMMA AskedStep ==
  ASSUME Scripts, net \in Nets, pc' \in [Ranks -> Nat \ {0}], prog' = prog,
         PartsInOrder', NEW r \in Ranks, NEW i \in PostsOf(r), Advances(r, i),
         NEW c \in Channels, AskedOK(c)
  PROVE  /\ AskedOK(c)'
         /\ c[2] = r /\ i \in RecvsOn(c) /\ New(r, i, c[3][2]) =>
              Place(RecvsOn(c), i) = net.posted[c] + 1
<1>1. PICK S : S = RecvsOn(c)
  OBVIOUS
<1>2. PICK m \in 1 .. 4 : m = c[3][2]
  BY ChannelIs
<1>3. PICK p \in Ranks : p = c[2]
  BY OnChannel
<1>4. PICK P : P = PostedOn(p, S, m)
  OBVIOUS
<1>5. PICK L \in Nat : L = net.posted[c]
  BY DEF Nets
<1>6. PICK L2 : L2 = net'.posted[c]
  OBVIOUS
<1>8. PICK N : Within(S, N)
  BY <1>1, OnChannel
<1>9. Filled(S, P, L)
  BY <1>1, <1>2, <1>3, <1>4, <1>5 DEF AskedOK
<1>10. PICK new \in BOOLEAN : new <=> p = r /\ i \in S /\ New(r, i, m)
  OBVIOUS
<1>11. L2 = IF new THEN L + 1 ELSE L
  BY <1>1, <1>2, <1>3, <1>5, <1>6, <1>10, NewOn DEF Advances
<1>12. PICK P2 : P2 = PostedOn(p, S, m)'
  OBVIOUS
<1>13. /\ P2 = IF new THEN P \cup {i} ELSE P
       /\ new => i \notin P /\ \A j \in S : j < i => j \in P
  <2>1. \A j \in S : /\ j \in PostsOf(p) /\ HasPart(p, j, m)
                     /\ Alike(p, j) = Postings(p, "Recv", c[1], c[3][1])
    BY <1>1, <1>2, <1>3, OnItsChannel DEF PostsOf
  <2>2. \A j, l \in S : l \in Alike(p, j)
    BY <1>1, <1>3, <2>1 DEF RecvsOn
  <2>3. pc'[p] \in Nat
    OBVIOUS
  <2> QED BY <1>4, <1>10, <1>12, <2>1, <2>2, <2>3, PostedOnStep
<1>14. AskedOK(c)' <=> Filled(S, P2, L2)
  <2>1. RecvsOn(c)' = S
    BY <1>1, Fixed
  <2>2. \A A, B, n : (Filled(A, B, n))' <=> Filled(A, B, n)
    BY DEF Filled, Place
  <2> QED BY <1>2, <1>3, <1>6, <1>12, <2>1, <2>2 DEF AskedOK
<1>15. CASE ~ new
  BY <1>1, <1>2, <1>3, <1>9, <1>10, <1>11, <1>13, <1>14, <1>15
<1>16. CASE new
  <2>1. i \in S /\ p = r
    BY <1>10, <1>16
  <2>2. Place(S, i) = L + 1 /\ Filled(S, P \cup {i}, L + 1)
    BY <1>8, <1>9, <1>13, <1>16, <2>1, FilledStep
  <2> QED BY <1>1, <1>5, <1>11, <1>13, <1>14, <1>16, <2>2
<1> QED BY <1>15, <1>16

-----------------------------------------------------------------------------
(* What an instruction has posted and received. *)

EntryAt(r, i) == todo[r][prog[r][i].k] # Null /\ todo[r][prog[r][i].k].at = i
RequestAt(r, i) ==
  net.req[<<r, prog[r][i].k, 1>>] # Null /\ net.req[<<r, prog[r][i].k, 1>>].at = i

(* The second part of a large mesh is posted by the call that sends it,    *)
(* or, when it blocks, in its wait.                                        *)
SendState(r, i) ==
  LET e == todo[r][prog[r][i].k]
      obj == prog[r][i].obj
  IN  EntryAt(r, i) /\ obj.what = "mesh" =>
        \/ e.state = 0 /\ (obj.parts = 2 => prog[r][i].blocking)
        \/ e.state = 1 /\ obj.parts = 2

(* What has come is the beginning of the object the receive stands for,    *)
(* the state in the table counts what was asked for, and when there is     *)
(* nothing left to do, that was all.                                       *)
RecvOK(r, i) ==
  /\ \A n \in 1 .. Len(got[r][i]) :
       Stands(r, i) /\ got[r][i][n] = [obj |-> ObjectOf(r, i), part |-> n]
  /\ PostedBy(r, i) >= 1 /\ HasPart(r, i, PostedBy(r, i))
  /\ EntryAt(r, i) => todo[r][prog[r][i].k].state + 1 = PostedBy(r, i)
  /\ ~EntryAt(r, i) /\ ~RequestAt(r, i) =>
       Stands(r, i) /\ PostedBy(r, i) = MessagesOf(ObjectOf(r, i))

(* The request of a receive is for its last part, in its place.            *)
RequestOK(r, i) ==
  LET q == net.req[<<r, prog[r][i].k, 1>>] IN
  RequestAt(r, i) =>
    /\ q.dir = "Recv" /\ q.ch = Chan(r, i, PostedBy(r, i)) /\ q.n = Place(RecvsOn(q.ch), i)
    /\ q.done => q.n <= Len(net.sent[q.ch])

LocalOK(r, i) ==
  /\ i >= pc[r] /\ prog[r][i].op = "Recv" => got[r][i] = <<>>
  /\ i < pc[r] /\ prog[r][i].op = "Send" => SendState(r, i)
  /\ i < pc[r] /\ prog[r][i].op = "Recv" => RecvOK(r, i)

GotTypes ==
  /\ DOMAIN got = Ranks
  /\ \A r \in Ranks : DOMAIN got[r] = 1 .. Len(prog[r])
  /\ \A r \in Ranks : \A i \in 1 .. Len(prog[r]) :
       prog[r][i].op = "Recv" => got[r][i] \in Seq(Messages)

FlowInv ==
  /\ GotTypes
  /\ \A r \in Ranks : \A i \in PostsOf(r) :
       LocalOK(r, i) /\ (i < pc[r] /\ prog[r][i].op = "Recv" => RequestOK(r, i))
  /\ \A c \in Channels : SentOK(c) /\ AskedOK(c)

(* The number of messages posted is one. *)
LEMMA PostedByType ==
  ASSUME Types, GotTypes, NEW r \in Ranks, NEW i \in PostsOf(r)
  PROVE  /\ PostedBy(r, i) \in Nat
         /\ i >= pc[r] => PostedBy(r, i) = 0
         /\ prog[r][i].k \in Keys /\ i \in Nat
<1>1. /\ prog[r][i].k \in Keys /\ i \in 1 .. Len(prog[r]) /\ Scripts
  BY Posting DEF PostsOf, Types
<1>2. prog[r][i].op = "Recv" => got[r][i] \in Seq(Messages)
  BY <1>1 DEF GotTypes
<1>3. prog[r][i].op = "Recv" => Len(got[r][i]) \in Nat
  BY <1>2, LenProperties
<1>4. EntryAt(r, i) => todo[r][prog[r][i].k].state \in 0 .. 3
  BY <1>1 DEF Types, Entries, EntryAt
<1>5. prog[r][i].op = "Send" => MessagesOf(prog[r][i].obj) \in Nat
  <2>1. prog[r][i].op = "Send" => Stands(r, i) /\ ObjectOf(r, i) = prog[r][i].obj
    BY DEF Stands, ObjectOf
  <2>2. \A n \in 1 .. 4 : n \in Nat
    OBVIOUS
  <2> QED BY <1>1, <2>1, <2>2, ObjectIs
<1>6. PostedBy(r, i) = IF i >= pc[r] THEN 0
        ELSE IF prog[r][i].op = "Recv" THEN Len(got[r][i]) + (IF RequestAt(r, i) THEN 1 ELSE 0)
        ELSE IF EntryAt(r, i) THEN todo[r][prog[r][i].k].state + 1 ELSE MessagesOf(prog[r][i].obj)
  BY DEF PostedBy, EntryAt, RequestAt
<1>7. prog[r][i].op \in {"Send", "Recv"}
  BY DEF PostsOf
<1>8. PICK p : p = PostedBy(r, i)
  OBVIOUS
<1>0. PICK m : m = MessagesOf(prog[r][i].obj)
  OBVIOUS
<1>9. PICK n \in Nat, s \in Int : /\ prog[r][i].op = "Recv" => n = Len(got[r][i])
                                  /\ EntryAt(r, i) => s = todo[r][prog[r][i].k].state
  <2>1. PICK n \in Nat : prog[r][i].op = "Recv" => n = Len(got[r][i])
    BY <1>3
  <2>2. PICK s \in Int : EntryAt(r, i) => s = todo[r][prog[r][i].k].state
    BY <1>4
  <2> QED BY <2>1, <2>2
<1>10. p = IF i >= pc[r] THEN 0
        ELSE IF prog[r][i].op = "Recv" THEN n + (IF RequestAt(r, i) THEN 1 ELSE 0)
        ELSE IF EntryAt(r, i) THEN s + 1 ELSE m
  BY <1>0, <1>6, <1>8, <1>9
<1>11. p \in Nat
  <2>1. CASE i >= pc[r]
    BY <1>10, <2>1
  <2>2. CASE ~ (i >= pc[r]) /\ prog[r][i].op = "Recv" /\ RequestAt(r, i)
    BY <1>10, <2>2
  <2>3. CASE ~ (i >= pc[r]) /\ prog[r][i].op = "Recv" /\ ~RequestAt(r, i)
    BY <1>10, <2>3
  <2>4. CASE ~ (i >= pc[r]) /\ prog[r][i].op = "Send" /\ EntryAt(r, i)
    BY <1>4, <1>9, <1>10, <2>4
  <2>5. CASE ~ (i >= pc[r]) /\ prog[r][i].op = "Send" /\ ~EntryAt(r, i)
    BY <1>0, <1>5, <1>9, <1>10, <2>5
  <2> QED BY <1>7, <2>1, <2>2, <2>3, <2>4, <2>5
<1> QED BY <1>1, <1>3, <1>8, <1>10, <1>11

(* The step leaves an instruction as it is. *)
Same(r, i) ==
  /\ i >= pc'[r] <=> i >= pc[r]
  /\ i < pc'[r] <=> i < pc[r]
  /\ prog[r][i].op = "Recv" => got'[r][i] = got[r][i]
  /\ EntryAt(r, i)' <=> EntryAt(r, i)
  /\ EntryAt(r, i) => todo'[r][prog[r][i].k].state = todo[r][prog[r][i].k].state
  /\ prog[r][i].op = "Recv" => (RequestAt(r, i)' <=> RequestAt(r, i))

LEMMA SameStays ==
  ASSUME prog' = prog, NEW r \in Ranks, NEW i \in PostsOf(r), Same(r, i)
  PROVE  /\ PostedBy(r, i)' = PostedBy(r, i)
         /\ LocalOK(r, i) => LocalOK(r, i)'
<1>1. PostedBy(r, i) = IF i >= pc[r] THEN 0
        ELSE IF prog[r][i].op = "Recv" THEN Len(got[r][i]) + (IF RequestAt(r, i) THEN 1 ELSE 0)
        ELSE IF EntryAt(r, i) THEN todo[r][prog[r][i].k].state + 1 ELSE MessagesOf(prog[r][i].obj)
  BY DEF PostedBy, EntryAt, RequestAt
<1>2. PostedBy(r, i)' = IF i >= pc'[r] THEN 0
        ELSE IF prog[r][i].op = "Recv" THEN Len(got'[r][i]) + (IF RequestAt(r, i)' THEN 1 ELSE 0)
        ELSE IF EntryAt(r, i)' THEN todo'[r][prog[r][i].k].state + 1 ELSE MessagesOf(prog[r][i].obj)
  BY DEF PostedBy, EntryAt, RequestAt, MessagesOf
<1>3. PostedBy(r, i)' = PostedBy(r, i)
  <2>1. PICK p : p = PostedBy(r, i)
    OBVIOUS
  <2>2. PICK q : q = PostedBy(r, i)'
    OBVIOUS
  <2>3. PICK n : n = Len(got[r][i])
    OBVIOUS
  <2>4. PICK m : m = MessagesOf(prog[r][i].obj)
    OBVIOUS
  <2>5. /\ i >= pc'[r] <=> i >= pc[r]
        /\ prog[r][i].op = "Recv" => got'[r][i] = got[r][i]
        /\ EntryAt(r, i)' <=> EntryAt(r, i)
        /\ EntryAt(r, i) => todo'[r][prog[r][i].k].state = todo[r][prog[r][i].k].state
        /\ prog[r][i].op = "Recv" => (RequestAt(r, i)' <=> RequestAt(r, i))
    BY DEF Same
  <2>6. CASE i >= pc[r]
    BY <1>1, <1>2, <2>5, <2>6
  <2>7. CASE ~ (i >= pc[r]) /\ prog[r][i].op = "Recv"
    <3>1. n = Len(got'[r][i])
      BY <2>3, <2>5, <2>7
    <3>2. CASE RequestAt(r, i)
      BY <1>1, <1>2, <2>3, <2>5, <2>7, <3>1, <3>2
    <3>3. CASE ~RequestAt(r, i)
      BY <1>1, <1>2, <2>3, <2>5, <2>7, <3>1, <3>3
    <3> QED BY <3>2, <3>3
  <2>8. CASE ~ (i >= pc[r]) /\ prog[r][i].op # "Recv"
    BY <1>1, <1>2, <2>5, <2>8
  <2> QED BY <2>6, <2>7, <2>8
<1>4. SendState(r, i) => SendState(r, i)'
  BY DEF Same, SendState
<1>5. prog[r][i].op = "Recv" /\ RecvOK(r, i) => RecvOK(r, i)'
  <2>1. /\ Stands(r, i)' <=> Stands(r, i)
        /\ ObjectOf(r, i)' = ObjectOf(r, i)
        /\ \A m : HasPart(r, i, m)' <=> HasPart(r, i, m)
    BY Fixed
  <2>2. HasPart(r, i, PostedBy(r, i))' <=> HasPart(r, i, PostedBy(r, i))
    BY <1>3, <2>1 DEF HasPart, MessagesOf
  <2> QED BY <1>3, <2>1, <2>2 DEF Same, RecvOK, MessagesOf
<1> QED BY <1>3, <1>4, <1>5 DEF Same, LocalOK

(* d is g with one more message on c, or one more receive.                 *)
PutsOne(g, d, c, x) ==
  /\ c \in Channels
  /\ \A a \in Channels : d.sent[a] = IF a = c THEN Append(g.sent[a], x) ELSE g.sent[a]
  /\ d.posted = g.posted
AsksOne(g, d, c, h, i) ==
  /\ c \in Channels
  /\ \A a \in Channels : d.posted[a] = IF a = c THEN g.posted[a] + 1 ELSE g.posted[a]
  /\ d.sent = g.sent
  /\ d.req[h] = [dir |-> "Recv", at |-> i, ch |-> c, n |-> g.posted[c] + 1, done |-> FALSE]

(* MPI_Isend and MPI_Irecv, on the channels. *)
LEMMA PostSendIs ==
  ASSUME Scripts, NEW g \in Nets, NEW r \in Ranks, NEW k \in Keys, NEW s \in {1, 2},
         NEW i \in 1 .. Len(prog[r]), NEW o, o = prog[r][i].obj, prog[r][i].op = "Send",
         NEW part \in 1 .. 4, Tag(o.what, part) \in Tags
  PROVE  PutsOne(g, PostSend(g, <<r, k, s>>, i, o, part), Chan(r, i, part),
                 [obj |-> o, part |-> part])
<1> DEFINE h == <<r, k, s>>
           c == <<r, prog[r][i].peer, Tag(o.what, part)>>
           q == [dir |-> "Send", at |-> i, ch |-> c, n |-> Len(g.sent[c]) + 1, done |-> FALSE]
           x == [obj |-> o, part |-> part]
           R == [g.req EXCEPT ![h] = q]
           S == [g.sent EXCEPT ![c] = Append(g.sent[c], x)]
<1>1. c \in Channels /\ c = Chan(r, i, part)
  BY Posting DEF Channels, Chan, WhatOf
<1>2. PostSend(g, h, i, o, part) = [g EXCEPT !.req = R, !.sent = S]
  BY DEF PostSend
<1> HIDE DEF c, h, q, x
<1>3. [g EXCEPT !.req = R, !.sent = S].sent = S /\ [g EXCEPT !.req = R, !.sent = S].posted = g.posted
  <2> HIDE DEF R, S
  <2> QED BY DEF Nets
<1>4. \A a \in Channels : S[a] = IF a = c THEN Append(g.sent[a], x) ELSE g.sent[a]
  BY <1>1 DEF Nets
<1>5. PICK d : d = PostSend(g, h, i, o, part)
  OBVIOUS
<1>6. d.sent = S /\ d.posted = g.posted
  <2> HIDE DEF R, S
  <2> QED BY <1>2, <1>3, <1>5
<1> HIDE DEF S
<1>7. PutsOne(g, d, c, x)
  BY <1>1, <1>4, <1>6 DEF PutsOne
<1> QED BY <1>1, <1>5, <1>7 DEF h, x

LEMMA PostRecvIs ==
  ASSUME Scripts, NEW g \in Nets, NEW r \in Ranks, NEW k \in Keys,
         NEW i \in 1 .. Len(prog[r]), prog[r][i].op = "Recv", NEW part \in 1 .. 4,
         NEW what, what = prog[r][i].what, Tag(what, part) \in Tags
  PROVE  AsksOne(g, PostRecv(g, <<r, k, 1>>, i, what, part), Chan(r, i, part), <<r, k, 1>>, i)
<1> DEFINE h == <<r, k, 1>>
           c == <<prog[r][i].peer, r, Tag(what, part)>>
           q == [dir |-> "Recv", at |-> i, ch |-> c, n |-> g.posted[c] + 1, done |-> FALSE]
           R == [g.req EXCEPT ![h] = q]
           S == [g.posted EXCEPT ![c] = g.posted[c] + 1]
<1>1. c \in Channels /\ c = Chan(r, i, part)
  BY Posting DEF Channels, Chan, WhatOf
<1>2. PostRecv(g, h, i, what, part) = [g EXCEPT !.req = R, !.posted = S]
  BY DEF PostRecv
<1>h. h \in Handles
  BY IsHandle
<1> HIDE DEF c, h
<1>3. /\ [g EXCEPT !.req = R, !.posted = S].posted = S
      /\ [g EXCEPT !.req = R, !.posted = S].sent = g.sent
      /\ [g EXCEPT !.req = R, !.posted = S].req = R
  <2> HIDE DEF R, S, q
  <2> QED BY DEF Nets
<1>4. \A a \in Channels : S[a] = IF a = c THEN g.posted[a] + 1 ELSE g.posted[a]
  BY <1>1 DEF Nets
<1>5. R[h] = q
  BY <1>h DEF Nets
<1>6. PICK d : d = PostRecv(g, h, i, what, part)
  OBVIOUS
<1>7. d.posted = S /\ d.sent = g.sent /\ d.req[h] = q
  <2>1. d.posted = S /\ d.sent = g.sent /\ d.req = R
    <3> HIDE DEF R, S
    <3> QED BY <1>2, <1>3, <1>6
  <2> HIDE DEF R, S, q
  <2> QED BY <1>5, <2>1
<1> HIDE DEF S
<1>8. AsksOne(g, d, c, h, i)
  BY <1>1, <1>4, <1>7 DEF AsksOne
<1> QED BY <1>1, <1>6, <1>8 DEF h

-----------------------------------------------------------------------------
(* The two kinds of steps, for the channels. *)

(* The request of a receive, if it is still for it, is the one it was.     *)
RequestStays(r, i) ==
  prog[r][i].op = "Recv" /\ RequestAt(r, i)' =>
    /\ RequestAt(r, i)
    /\ net'.req[<<r, prog[r][i].k, 1>>] = net.req[<<r, prog[r][i].k, 1>>]

(* The request of a receive is new, and asks for the part just posted.     *)
AskedFor(r, i) ==
  LET q  == net'.req[<<r, prog[r][i].k, 1>>]
      ch == Chan(r, i, PostedBy(r, i)')
  IN  /\ New(r, i, PostedBy(r, i)')
      /\ ch \in Channels
      /\ q.dir = "Recv" /\ q.ch = ch /\ q.n = net.posted[ch] + 1 /\ q.done = FALSE

(* A step that posts for instruction i of r.                               *)
Moved(r, i) ==
  /\ Advances(r, i)
  /\ \A a \in Ranks : \A j \in PostsOf(a) : a # r \/ j # i => Same(a, j) /\ RequestStays(a, j)
  /\ prog[r][i].op = "Recv" /\ RequestAt(r, i)' => AskedFor(r, i)

(* A step that posts nothing.                                              *)
Quiet ==
  /\ \A a \in Ranks : \A j \in PostsOf(a) : PostedBy(a, j)' = PostedBy(a, j)
  /\ \A c \in Channels : net'.sent[c] = net.sent[c] /\ net'.posted[c] = net.posted[c]
  /\ \A a \in Ranks : \A j \in PostsOf(a) :
       j < pc'[a] /\ prog[a][j].op = "Recv" => RequestOK(a, j)'

Locals == \A r \in Ranks : \A i \in PostsOf(r) : LocalOK(r, i)

(* A request stays for its part, and more has been sent.                   *)
LEMMA RequestHolds ==
  ASSUME Scripts, prog' = prog, NEW r \in Ranks, NEW i \in PostsOf(r), prog[r][i].op = "Recv",
         PostedBy(r, i)' = PostedBy(r, i), RequestStays(r, i),
         RequestAt(r, i) => net.req[<<r, prog[r][i].k, 1>>].n \in Int
           /\ net.req[<<r, prog[r][i].k, 1>>].ch \in Channels,
         \A c \in Channels : /\ Len(net.sent[c]) \in Int /\ Len(net'.sent[c]) \in Int
                             /\ Len(net.sent[c]) <= Len(net'.sent[c]),
         RequestOK(r, i)
  PROVE  RequestOK(r, i)'
<1> SUFFICES ASSUME RequestAt(r, i)' PROVE RequestOK(r, i)'
  BY DEF RequestOK
<1>1. PICK q : q = net.req[<<r, prog[r][i].k, 1>>]
  OBVIOUS
<1>2. RequestAt(r, i) /\ net'.req[<<r, prog[r][i].k, 1>>] = q
  BY <1>1 DEF RequestStays
<1>3. /\ q.dir = "Recv" /\ q.ch = Chan(r, i, PostedBy(r, i)) /\ q.n = Place(RecvsOn(q.ch), i)
      /\ q.done => q.n <= Len(net.sent[q.ch])
  BY <1>1, <1>2 DEF RequestOK
<1>4. PICK p : p = PostedBy(r, i)
  OBVIOUS
<1>5. Chan(r, i, p)' = Chan(r, i, p) /\ RecvsOn(q.ch)' = RecvsOn(q.ch)
  BY Fixed
<1>6. q.done => q.n <= Len(net'.sent[q.ch])
  <2>1. q.ch \in Channels /\ q.n \in Int
    BY <1>1, <1>2
  <2> QED BY <1>3, <2>1
<1>7. PICK ch : ch = q.ch
  OBVIOUS
<1>8. PICK T : T = RecvsOn(ch)
  OBVIOUS
<1>9. T = RecvsOn(ch)' /\ q.n = Place(T, i)
  BY <1>3, <1>5, <1>7, <1>8
<1>10. PostedBy(r, i)' = p /\ q.ch = Chan(r, i, p)'
  BY <1>3, <1>4, <1>5
<1>11. RequestOK(r, i)' <=>
         (RequestAt(r, i)' =>
           /\ q.dir = "Recv" /\ q.ch = Chan(r, i, p)' /\ q.n = Place(RecvsOn(ch)', i)
           /\ q.done => q.n <= Len(net'.sent[q.ch]))
  <2> HIDE DEF PostedBy, Chan, RecvsOn, RequestAt
  <2> QED BY <1>2, <1>7, <1>10 DEF RequestOK, Place
<1> QED BY <1>3, <1>6, <1>9, <1>10, <1>11

(* What a request is, and that what is sent stays.                         *)
LEMMA RequestIs ==
  ASSUME Types, NEW r \in Ranks, NEW i \in PostsOf(r), RequestAt(r, i)
  PROVE  /\ net.req[<<r, prog[r][i].k, 1>>] \in Requests
         /\ net.req[<<r, prog[r][i].k, 1>>].n \in Int
         /\ net.req[<<r, prog[r][i].k, 1>>].ch \in Channels
<1>1. prog[r][i].k \in Keys
  BY Posting DEF PostsOf, Types
<1>2. net.req[<<r, prog[r][i].k, 1>>] \in Requests
  BY <1>1, IsHandle DEF Types, Nets, RequestAt
<1> QED BY <1>2 DEF Requests

LEMMA SentGrows ==
  ASSUME net \in Nets, net' \in Nets, NEW r, NEW i, Advances(r, i)
  PROVE  \A c \in Channels : /\ Len(net.sent[c]) \in Int /\ Len(net'.sent[c]) \in Int
                             /\ Len(net.sent[c]) <= Len(net'.sent[c])
<1> SUFFICES ASSUME NEW c \in Channels
             PROVE  /\ Len(net.sent[c]) \in Int /\ Len(net'.sent[c]) \in Int
                    /\ Len(net.sent[c]) <= Len(net'.sent[c])
  OBVIOUS
<1>1. PICK L \in Seq(Messages) : L = net.sent[c]
  BY DEF Nets
<1>2. PICK x : net'.sent[c] = L \/ net'.sent[c] = Append(L, x)
  BY <1>1 DEF Advances
<1>3. Len(L) \in Nat
  BY LenProperties
<1>4. Len(Append(L, x)) = Len(L) + 1
  <2>1. L \in Seq(Messages \cup {x}) /\ x \in Messages \cup {x}
    OBVIOUS
  <2> QED BY <2>1, AppendProperties
<1> QED BY <1>1, <1>2, <1>3, <1>4

(* The channels after a step that posts.                                   *)
LEMMA MovedFlow ==
  ASSUME Types, Types', FlowInv, GotTypes', prog' = prog, NEW r \in Ranks, NEW i \in PostsOf(r),
         Moved(r, i), Locals', PartsInOrder'
  PROVE  FlowInv'
<1>1. /\ Scripts /\ net \in Nets /\ net' \in Nets /\ pc' \in [Ranks -> Nat \ {0}]
      /\ Advances(r, i)
  <2>1. Nets' = Nets
    BY DEF Nets, Messages, Sendable
  <2>2. net' \in Nets'
    BY DEF Types
  <2>3. pc' \in [Ranks -> Nat \ {0}]
    BY DEF Types
  <2> QED BY <2>1, <2>2, <2>3 DEF Types, Moved
<1>2. \A c \in Channels : SentOK(c)'
  BY <1>1, SentStep DEF FlowInv
<1>3. \A c \in Channels :
        /\ AskedOK(c)'
        /\ c[2] = r /\ i \in RecvsOn(c) /\ New(r, i, c[3][2]) =>
             Place(RecvsOn(c), i) = net.posted[c] + 1
  BY <1>1, AskedStep DEF FlowInv
<1>4. ASSUME NEW a \in Ranks, NEW j \in PostsOf(a), a # r \/ j # i, j < pc'[a],
             prog[a][j].op = "Recv"
      PROVE  RequestOK(a, j)'
  <2>1. Same(a, j) /\ RequestStays(a, j)
    BY <1>4 DEF Moved
  <2>2. PostedBy(a, j)' = PostedBy(a, j)
    BY <2>1, SameStays
  <2>3. RequestOK(a, j)
    BY <1>4, <2>1 DEF FlowInv, Same
  <2>4. RequestAt(a, j) => net.req[<<a, prog[a][j].k, 1>>].n \in Int
           /\ net.req[<<a, prog[a][j].k, 1>>].ch \in Channels
    BY RequestIs
  <2>5. \A c \in Channels : /\ Len(net.sent[c]) \in Int /\ Len(net'.sent[c]) \in Int
                            /\ Len(net.sent[c]) <= Len(net'.sent[c])
    BY <1>1, SentGrows
  <2> QED BY <1>1, <1>4, <2>1, <2>2, <2>3, <2>4, <2>5, RequestHolds
<1>5. ASSUME prog[r][i].op = "Recv", RequestAt(r, i)' PROVE RequestOK(r, i)'
  <2>1. PICK q : q = net'.req[<<r, prog[r][i].k, 1>>]
    OBVIOUS
  <2>2. PICK m : m = PostedBy(r, i)'
    OBVIOUS
  <2>3. PICK ch : ch = Chan(r, i, m)
    OBVIOUS
  <2>4. /\ New(r, i, m) /\ ch \in Channels
        /\ q.dir = "Recv" /\ q.ch = ch /\ q.n = net.posted[ch] + 1 /\ q.done = FALSE
    BY <1>5, <2>1, <2>2, <2>3 DEF Moved, AskedFor
  <2>5. i \in 1 .. Len(prog[r]) /\ HasPart(r, i, m)
    BY <1>1, <2>2 DEF PostsOf, Advances
  <2>6. ch[3][2] = m /\ ch[2] = r /\ i \in RecvsOn(ch)
    BY <1>1, <1>5, <2>3, <2>4, <2>5, ItsChannel
  <2>7. q.n = Place(RecvsOn(ch), i)
    BY <1>3, <2>4, <2>6
  <2>8. Chan(r, i, m)' = ch /\ RecvsOn(ch)' = RecvsOn(ch)
    BY <2>3, Fixed
  <2>9. PICK T : T = RecvsOn(ch)
    OBVIOUS
  <2>10. RequestOK(r, i)' <=>
           (RequestAt(r, i)' =>
             /\ q.dir = "Recv" /\ q.ch = Chan(r, i, m)' /\ q.n = Place(RecvsOn(ch)', i)
             /\ q.done => q.n <= Len(net'.sent[q.ch]))
    <3> HIDE DEF PostedBy, Chan, RecvsOn, RequestAt
    <3> QED BY <2>1, <2>2, <2>4 DEF RequestOK, Place
  <2> QED BY <2>4, <2>7, <2>8, <2>10
<1>6. ASSUME NEW a \in Ranks, NEW j \in PostsOf(a), j < pc'[a], prog[a][j].op = "Recv"
      PROVE  RequestOK(a, j)'
  <2>1. CASE a = r /\ j = i
    <3>1. ~RequestAt(r, i)' => RequestOK(r, i)'
      BY DEF RequestOK
    <3> QED BY <1>5, <1>6, <2>1, <3>1
  <2>2. CASE a # r \/ j # i
    BY <1>4, <1>6, <2>2
  <2> QED BY <2>1, <2>2
<1>7. \A a \in Ranks : PostsOf(a)' = PostsOf(a)
  BY DEF PostsOf
<1> QED BY <1>2, <1>3, <1>6, <1>7 DEF FlowInv, Locals

(* And after one that does not.                                            *)
LEMMA QuietFlow ==
  ASSUME FlowInv, GotTypes', prog' = prog, Quiet, Locals'
  PROVE  FlowInv'
<1>1. ASSUME NEW c \in Channels PROVE SentOK(c)' /\ AskedOK(c)'
  <2>1. SentOK(c) /\ AskedOK(c) /\ net'.sent[c] = net.sent[c] /\ net'.posted[c] = net.posted[c]
    BY DEF FlowInv, Quiet
  <2>2. SendsOn(c)' = SendsOn(c) /\ RecvsOn(c)' = RecvsOn(c)
    BY Fixed
  <2>3. /\ PostedOn(c[1], SendsOn(c), c[3][2])' = PostedOn(c[1], SendsOn(c), c[3][2])
        /\ PostedOn(c[2], RecvsOn(c), c[3][2])' = PostedOn(c[2], RecvsOn(c), c[3][2])
    <3>1. c[1] \in Ranks /\ c[2] \in Ranks
      BY DEF Channels
    <3>2. \A j \in SendsOn(c) : PostedBy(c[1], j)' = PostedBy(c[1], j)
      <4>1. \A j \in SendsOn(c) : j \in PostsOf(c[1])
        BY DEF SendsOn, Postings, PostsOf
      <4> QED BY <3>1, <4>1 DEF Quiet
    <3>3. \A j \in RecvsOn(c) : PostedBy(c[2], j)' = PostedBy(c[2], j)
      <4>1. \A j \in RecvsOn(c) : j \in PostsOf(c[2])
        BY DEF RecvsOn, Postings, PostsOf
      <4> QED BY <3>1, <4>1 DEF Quiet
    <3> QED BY <2>2, <3>2, <3>3 DEF PostedOn
  <2>4. PICK S : S = SendsOn(c)
    OBVIOUS
  <2>5. PICK R : R = RecvsOn(c)
    OBVIOUS
  <2>6. PICK P : P = PostedOn(c[1], SendsOn(c), c[3][2])
    OBVIOUS
  <2>7. PICK Q : Q = PostedOn(c[2], RecvsOn(c), c[3][2])
    OBVIOUS
  <2>8. SentOK(c)'
    <3>1. /\ SendsOn(c)' = S /\ PostedOn(c[1], SendsOn(c), c[3][2])' = P
      BY <2>2, <2>3, <2>4, <2>6
    <3>2. /\ Filled(S, P, Len(net.sent[c]))
          /\ \A n \in 1 .. Len(net.sent[c]) : \E j \in S :
               /\ Place(S, j) = n
               /\ net.sent[c][n] = [obj |-> prog[c[1]][j].obj, part |-> c[3][2]]
      BY <2>1, <2>4, <2>6 DEF SentOK
    <3> QED BY <2>1, <3>1, <3>2 DEF SentOK, Filled, Place
  <2>9. AskedOK(c)'
    <3>1. /\ RecvsOn(c)' = R /\ PostedOn(c[2], RecvsOn(c), c[3][2])' = Q
      BY <2>2, <2>3, <2>5, <2>7
    <3>2. Filled(R, Q, net.posted[c])
      BY <2>1, <2>5, <2>7 DEF AskedOK
    <3> QED BY <2>1, <3>1, <3>2 DEF AskedOK, Filled, Place
  <2> QED BY <2>8, <2>9
<1>2. \A a \in Ranks : PostsOf(a)' = PostsOf(a)
  BY DEF PostsOf
<1>3. \A r \in Ranks : \A i \in PostsOf(r) :
         LocalOK(r, i)' /\ (i < pc'[r] /\ prog[r][i].op = "Recv" => RequestOK(r, i)')
  BY <1>2 DEF Locals, Quiet
<1> QED BY <1>1, <1>2, <1>3 DEF FlowInv

-----------------------------------------------------------------------------
(* From the channels of a step to what it posts. *)

LEMMA ChanPart ==
  ASSUME NEW r, NEW i, NEW m
  PROVE  Chan(r, i, m)[3][2] = m
BY DEF Chan, Tag

(* Parts p + 1 to q of instruction i, on their channels.                   *)
PutsOn(r, i, p, q, c) ==
  LET new == \E m \in p + 1 .. q : c = Chan(r, i, m) IN
  /\ net'.sent[c] = IF new /\ prog[r][i].op = "Send"
                    THEN Append(net.sent[c], [obj |-> prog[r][i].obj, part |-> c[3][2]])
                    ELSE net.sent[c]
  /\ net'.posted[c] = IF new /\ prog[r][i].op = "Recv" THEN net.posted[c] + 1 ELSE net.posted[c]

OthersSame(r, i) ==
  \A a \in Ranks : \A j \in PostsOf(a) : a # r \/ j # i => Same(a, j) /\ RequestStays(a, j)

LEMMA ToAdvances ==
  ASSUME Types, GotTypes, prog' = prog, NEW r \in Ranks, NEW i \in PostsOf(r),
         OthersSame(r, i), NEW p \in Nat, NEW q \in Nat, p = PostedBy(r, i),
         q = PostedBy(r, i)', p <= q, HasPart(r, i, q),
         \A c \in Channels : PutsOn(r, i, p, q, c)
  PROVE  Advances(r, i)
<1>1. ASSUME NEW a \in Ranks, NEW j \in PostsOf(a)
      PROVE  /\ PostedBy(a, j) \in Nat /\ PostedBy(a, j)' \in Nat
             /\ a # r \/ j # i => PostedBy(a, j)' = PostedBy(a, j)
  <2>1. PostedBy(a, j) \in Nat
    BY PostedByType
  <2>2. CASE a = r /\ j = i
    BY <2>1, <2>2
  <2>3. CASE a # r \/ j # i
    <3>1. PostedBy(a, j)' = PostedBy(a, j)
      BY <2>3, SameStays DEF OthersSame
    <3> QED BY <2>1, <3>1
  <2> QED BY <2>2, <2>3
<1>2. ASSUME NEW c \in Channels
      PROVE  LET new == New(r, i, c[3][2]) /\ c = Chan(r, i, c[3][2]) IN
             /\ net'.sent[c] = IF new /\ prog[r][i].op = "Send"
                               THEN Append(net.sent[c], [obj |-> prog[r][i].obj, part |-> c[3][2]])
                               ELSE net.sent[c]
             /\ net'.posted[c] = IF new /\ prog[r][i].op = "Recv" THEN net.posted[c] + 1
                                 ELSE net.posted[c]
  <2>1. c[3][2] \in 1 .. 4
    BY ChannelIs
  <2>2. (\E m \in p + 1 .. q : c = Chan(r, i, m)) <=> New(r, i, c[3][2]) /\ c = Chan(r, i, c[3][2])
    <3>1. ASSUME NEW m \in p + 1 .. q, c = Chan(r, i, m)
          PROVE  New(r, i, c[3][2]) /\ c = Chan(r, i, c[3][2])
      <4>1. c[3][2] = m
        BY <3>1, ChanPart
      <4> QED BY <3>1, <4>1 DEF New
    <3>2. ASSUME New(r, i, c[3][2]), c = Chan(r, i, c[3][2])
          PROVE  \E m \in p + 1 .. q : c = Chan(r, i, m)
      <4>1. PICK m \in 1 .. 4 : m = c[3][2]
        BY <2>1
      <4>2. p < m /\ m <= q /\ c = Chan(r, i, m)
        BY <3>2, <4>1 DEF New
      <4>3. m \in p + 1 .. q
        BY <4>2
      <4> QED BY <4>2, <4>3
    <3> QED BY <3>1, <3>2
  <2> QED BY <2>2 DEF PutsOn
<1> QED BY <1>1, <1>2 DEF Advances

(* The messages that came are of the same kind.                            *)
LEMMA GotKept ==
  ASSUME GotTypes, prog' = prog, got' = got
  PROVE  GotTypes'
<1>1. Messages' = Messages
  BY DEF Messages, Sendable
<1> QED BY <1>1 DEF GotTypes

-----------------------------------------------------------------------------
(* Posting, on the channels. *)

(* Where everything but instruction i of r is, after a step on its request. *)
LEMMA OthersAre ==
  ASSUME Inv, \A a \in Ranks : RankInv(a), prog' = prog, got' = got, NEW r \in Ranks,
         NEW i \in PostsOf(r), NEW k \in Keys, k = prog[r][i].k,
         \A a \in Ranks : \A j \in PostsOf(a) : a # r \/ j # i =>
           (j >= pc'[a] <=> j >= pc[a]) /\ (j < pc'[a] <=> j < pc[a]),
         \A a \in Ranks, b \in Keys : a # r \/ b # k =>
           /\ todo'[a][b] = todo[a][b]
           /\ net'.req[<<a, b, 1>>] = net.req[<<a, b, 1>>],
         todo[r][k] = Null \/ todo[r][k].at = i, todo'[r][k] = Null \/ todo'[r][k].at = i,
         net.req[<<r, k, 1>>] = Null,
         net'.req[<<r, k, 1>>] = Null \/ net'.req[<<r, k, 1>>].at = i
  PROVE  OthersSame(r, i)
<1> SUFFICES ASSUME NEW a \in Ranks, NEW j \in PostsOf(a), a # r \/ j # i
             PROVE  Same(a, j) /\ RequestStays(a, j)
  BY DEF OthersSame
<1>1. PICK b \in Keys : b = prog[a][j].k
  BY Posting DEF PostsOf, Inv, Types
<1>2. CASE a # r \/ b # k
  <2>1. /\ todo'[a][b] = todo[a][b]
        /\ net'.req[<<a, b, 1>>] = net.req[<<a, b, 1>>]
    BY <1>2
  <2> QED BY <1>1, <2>1 DEF Same, RequestStays, EntryAt, RequestAt
<1>3. CASE a = r /\ b = k
  <2>1. /\ ~EntryAt(a, j) /\ ~EntryAt(a, j)' /\ ~RequestAt(a, j) /\ ~RequestAt(a, j)'
    BY <1>1, <1>3 DEF EntryAt, RequestAt
  <2> QED BY <1>1, <1>3, <2>1 DEF Same, RequestStays
<1> QED BY <1>2, <1>3

(* Send: one part, or the two of a large mesh that does not block.         *)
LEMMA SendIs ==
  ASSUME Types, GotTypes, NEW r \in Ranks, NEW i \in PostsOf(r), i = pc[r],
         prog' = prog, pc'[r] = i + 1,
         prog[r][i].op = "Send", Send(r)
  PROVE  \E q \in {1, 2} :
           /\ PostedBy(r, i)' = q /\ HasPart(r, i, q) /\ SendState(r, i)'
           /\ \A c \in Channels : PutsOn(r, i, 0, q, c)
<1>1. PICK x : x = prog[r][i]
  OBVIOUS
<1>2. PICK k \in Keys : k = x.k
  BY <1>1, Posting DEF PostsOf, Types
<1> DEFINE first == PostSend(net, <<r, k, 1>>, i, x.obj, 1)
           second == PostSend(first, <<r, k, 2>>, i, x.obj, 2)
           none == x.obj.what = "array" \/ x.obj.parts = 0
           both == x.obj.what = "mesh" /\ x.obj.parts = 2 /\ ~x.blocking
           e == IF none THEN Null ELSE [dir |-> "Send", at |-> i, state |-> IF both THEN 1 ELSE 0]
<1>3. /\ net' = IF both THEN second ELSE first
      /\ todo' = [todo EXCEPT ![r][k] = e]
  BY <1>1, <1>2 DEF Send
<1>4. /\ Scripts /\ net \in Nets /\ i \in 1 .. Len(prog[r]) /\ i \in Nat
      /\ x.obj.what \in Kinds /\ x.op = "Send"
  <2>1. Len(prog[r]) \in Nat
    BY DEF Types, Scripts, IsScript
  <2> QED BY <1>1, <2>1, Posting DEF PostsOf, Types
<1>5. /\ Chan(r, i, 1) \in Channels
      /\ \A c \in Channels : first.sent[c] =
           IF c = Chan(r, i, 1) THEN Append(net.sent[c], [obj |-> x.obj, part |-> 1]) ELSE net.sent[c]
      /\ first.posted = net.posted
      /\ first \in Nets
  <2>1. Tag(x.obj.what, 1) \in Tags /\ 1 \in 1 .. 4 /\ 1 \in {1, 2}
    BY <1>4, PartTags
  <2>2. first \in Nets
    BY <1>1, <1>4, <2>1, PostSendNet DEF Puts
  <2>3. /\ Chan(r, i, 1) \in Channels
        /\ \A c \in Channels : first.sent[c] =
             IF c = Chan(r, i, 1) THEN Append(net.sent[c], [obj |-> x.obj, part |-> 1]) ELSE net.sent[c]
        /\ first.posted = net.posted
    <3>1. PutsOne(net, first, Chan(r, i, 1), [obj |-> x.obj, part |-> 1])
      BY <1>1, <1>4, <2>1, PostSendIs
    <3> HIDE DEF first
    <3> QED BY <3>1 DEF PutsOne
  <2> QED BY <2>2, <2>3
<1> HIDE DEF first
<1>6. both => /\ Chan(r, i, 2) \in Channels
              /\ \A c \in Channels : second.sent[c] =
                   IF c = Chan(r, i, 2) THEN Append(first.sent[c], [obj |-> x.obj, part |-> 2])
                   ELSE first.sent[c]
              /\ second.posted = first.posted
  <2> SUFFICES ASSUME both
               PROVE  /\ Chan(r, i, 2) \in Channels
                      /\ \A c \in Channels : second.sent[c] =
                           IF c = Chan(r, i, 2) THEN Append(first.sent[c], [obj |-> x.obj, part |-> 2])
                           ELSE first.sent[c]
                      /\ second.posted = first.posted
    OBVIOUS
  <2>1. Tag(x.obj.what, 2) \in Tags /\ 2 \in 1 .. 4 /\ 2 \in {1, 2}
    BY PartTags
  <2>2. PutsOne(first, second, Chan(r, i, 2), [obj |-> x.obj, part |-> 2])
    BY <1>1, <1>4, <1>5, <2>1, PostSendIs
  <2> HIDE DEF second
  <2> QED BY <2>2 DEF PutsOne
<1> HIDE DEF second
<1>7. e = IF none THEN Null ELSE [dir |-> "Send", at |-> i, state |-> IF both THEN 1 ELSE 0]
  OBVIOUS
<1>8. e \in Entries \cup {Null} /\ (~none => e # Null)
  <2>1. [dir |-> "Send", at |-> i, state |-> IF both THEN 1 ELSE 0] \in Entries
    BY <1>4 DEF Entries
  <2>2. Null \notin Entries
    BY NullAssumption DEF Entries
  <2> QED BY <2>1, <2>2
<1>9. todo'[r][k] = e
  <2> HIDE DEF e
  <2> QED BY <1>3, <1>8 DEF Types
<1>10. /\ x.obj.parts \in Parts[x.obj.what] /\ x.blocking \in BOOLEAN
  BY <1>1, <1>4 DEF Scripts, IsScript
<1>11. /\ none => MessagesOf(x.obj) = 1
       /\ ~none => x.obj.what = "mesh" \/ x.obj.what = "matrix"
       /\ both => MessagesOf(x.obj) = 2
  BY <1>4, <1>10 DEF MessagesOf, Kinds, Parts
<1>12. EntryAt(r, i)' <=> ~none
  <2>1. ~none => e.at = i
    OBVIOUS
  <2> HIDE DEF e
  <2>2. none => e = Null
    BY <1>7
  <2> QED BY <1>1, <1>2, <1>8, <1>9, <2>1, <2>2 DEF EntryAt
<1>13. ~none => todo'[r][k].state = IF both THEN 1 ELSE 0
  <2>1. ~none => e.state = IF both THEN 1 ELSE 0
    OBVIOUS
  <2> HIDE DEF e, none, both
  <2> QED BY <1>9, <2>1
<1>14. PostedBy(r, i)' = IF both THEN 2 ELSE 1
  <2>1. ~ (i >= pc'[r])
    BY <1>4
  <2>2. PostedBy(r, i)' = IF EntryAt(r, i)' THEN todo'[r][k].state + 1 ELSE MessagesOf(x.obj)
    BY <1>1, <1>2, <1>4, <2>1 DEF PostedBy, EntryAt, MessagesOf
  <2>3. both => ~none
    OBVIOUS
  <2> HIDE DEF e, none, both
  <2>4. CASE none
    BY <1>11, <1>12, <2>2, <2>3, <2>4
  <2>5. CASE ~none /\ both
    BY <1>12, <1>13, <2>2, <2>5
  <2>6. CASE ~none /\ ~both
    BY <1>12, <1>13, <2>2, <2>6
  <2> QED BY <2>4, <2>5, <2>6
<1>15. SendState(r, i)'
  <2>1. none \/ both \/ (~none /\ ~both /\ (x.obj.what = "mesh" /\ x.obj.parts = 2 => x.blocking))
    BY <1>10
  <2>2. both => x.obj.parts = 2
    OBVIOUS
  <2> HIDE DEF e, none, both
  <2> QED BY <1>1, <1>2, <1>12, <1>13, <2>1, <2>2 DEF SendState
<1>16. HasPart(r, i, 1) /\ (both => HasPart(r, i, 2))
  <2>1. Stands(r, i) /\ ObjectOf(r, i) = x.obj
    BY <1>1, <1>4 DEF Stands, ObjectOf
  <2> QED BY <1>11, <2>1 DEF HasPart
<1>17. Chan(r, i, 1)[3][2] = 1 /\ Chan(r, i, 2)[3][2] = 2
  BY ChanPart
<1> HIDE DEF e, none, both
<1>18. CASE both
  <2>1. ASSUME NEW c \in Channels PROVE PutsOn(r, i, 0, 2, c)
    <3>1. (\E m \in 0 + 1 .. 2 : c = Chan(r, i, m)) <=> c = Chan(r, i, 1) \/ c = Chan(r, i, 2)
      <4>1. \A m \in 0 + 1 .. 2 : m = 1 \/ m = 2
        OBVIOUS
      <4>2. 1 \in 0 + 1 .. 2 /\ 2 \in 0 + 1 .. 2
        OBVIOUS
      <4> QED BY <4>1, <4>2
    <3>2. Chan(r, i, 1) # Chan(r, i, 2)
      BY <1>17
    <3>3. net'.posted[c] = net.posted[c]
      BY <1>3, <1>5, <1>6, <1>18
    <3>4. CASE c = Chan(r, i, 1)
      <4>1. net'.sent[c] = Append(net.sent[c], [obj |-> x.obj, part |-> 1])
        BY <1>3, <1>5, <1>6, <1>18, <3>2, <3>4
      <4> QED BY <1>1, <1>4, <1>17, <3>1, <3>3, <3>4, <4>1 DEF PutsOn
    <3>5. CASE c = Chan(r, i, 2)
      <4>1. net'.sent[c] = Append(net.sent[c], [obj |-> x.obj, part |-> 2])
        BY <1>3, <1>5, <1>6, <1>18, <3>2, <3>5
      <4> QED BY <1>1, <1>4, <1>17, <3>1, <3>3, <3>5, <4>1 DEF PutsOn
    <3>6. CASE c # Chan(r, i, 1) /\ c # Chan(r, i, 2)
      <4>1. net'.sent[c] = net.sent[c]
        BY <1>3, <1>5, <1>6, <1>18, <3>6
      <4> QED BY <3>1, <3>3, <3>6, <4>1 DEF PutsOn
    <3> QED BY <3>4, <3>5, <3>6
  <2> QED BY <1>14, <1>15, <1>16, <1>18, <2>1
<1>19. CASE ~both
  <2>1. ASSUME NEW c \in Channels PROVE PutsOn(r, i, 0, 1, c)
    <3>1. (\E m \in 0 + 1 .. 1 : c = Chan(r, i, m)) <=> c = Chan(r, i, 1)
      <4>1. \A m \in 0 + 1 .. 1 : m = 1
        OBVIOUS
      <4>2. 1 \in 0 + 1 .. 1
        OBVIOUS
      <4> QED BY <4>1, <4>2
    <3>3. net'.posted[c] = net.posted[c]
      BY <1>3, <1>5, <1>19
    <3>4. net'.sent[c] = IF c = Chan(r, i, 1) THEN Append(net.sent[c], [obj |-> x.obj, part |-> 1])
                         ELSE net.sent[c]
      BY <1>3, <1>5, <1>19
    <3>5. c = Chan(r, i, 1) => c[3][2] = 1
      BY <1>17
    <3> QED BY <1>1, <1>4, <3>1, <3>3, <3>4, <3>5 DEF PutsOn
  <2> QED BY <1>14, <1>15, <1>16, <1>19, <2>1
<1> QED BY <1>18, <1>19

(* Recv: the first part. *)
LEMMA RecvIs ==
  ASSUME Types, GotTypes, NEW r \in Ranks, NEW i \in PostsOf(r), i = pc[r], LocalOK(r, i),
         prog' = prog, got' = got, pc'[r] = i + 1,
         prog[r][i].op = "Recv", Recv(r)
  PROVE  /\ PostedBy(r, i)' = 1 /\ HasPart(r, i, 1) /\ RecvOK(r, i)' /\ AskedFor(r, i)
         /\ \A c \in Channels : PutsOn(r, i, 0, 1, c)
<1>1. PICK x : x = prog[r][i]
  OBVIOUS
<1>2. PICK k \in Keys : k = x.k
  BY <1>1, Posting DEF PostsOf, Types
<1> DEFINE e == IF x.what = "array" THEN Null ELSE [dir |-> "Recv", at |-> i, state |-> 0]
<1>3. /\ net' = PostRecv(net, <<r, k, 1>>, i, x.what, 1)
      /\ todo' = [todo EXCEPT ![r][k] = e]
  BY <1>1, <1>2 DEF Recv
<1>4. /\ Scripts /\ net \in Nets /\ i \in 1 .. Len(prog[r]) /\ i \in Nat
      /\ x.what \in Kinds /\ x.op = "Recv"
  <2>1. Len(prog[r]) \in Nat
    BY DEF Types, Scripts, IsScript
  <2> QED BY <1>1, <2>1, Posting DEF PostsOf, Types
<1>5. PICK ch : ch = Chan(r, i, 1)
  OBVIOUS
<1>6. AsksOne(net, net', ch, <<r, k, 1>>, i) /\ net'.req[<<r, k, 1>>] # Null
  <2>1. Tag(x.what, 1) \in Tags /\ 1 \in 1 .. 4 /\ 1 \in {1, 2}
    BY <1>4, PartTags
  <2>2. net'.req[<<r, k, 1>>] # Null
    <3>1. Puts(net, PostRecv(net, <<r, k, 1>>, i, x.what, 1), <<r, k, 1>>, i)
      BY <1>1, <1>4, <2>1, PostRecvNet
    <3> QED BY <1>3, <3>1 DEF Puts
  <2>3. AsksOne(net, net', ch, <<r, k, 1>>, i)
    BY <1>1, <1>3, <1>4, <1>5, <2>1, PostRecvIs
  <2> QED BY <2>2, <2>3
<1>7. e \in Entries \cup {Null} /\ (e # Null => e.state = 0)
  BY <1>4 DEF Entries
<1>8. todo'[r][k] = e
  <2> HIDE DEF e
  <2> QED BY <1>3, <1>7 DEF Types
<1> HIDE DEF e
<1>9. got'[r][i] = <<>>
  BY <1>4 DEF LocalOK
<1>10. net'.req[<<r, k, 1>>].at = i
  BY <1>6 DEF AsksOne
<1>11. RequestAt(r, i)'
  BY <1>1, <1>2, <1>6, <1>10 DEF RequestAt
<1>12. PostedBy(r, i)' = 1
  <2>1. ~ (i >= pc'[r])
    BY <1>4
  <2>2. PostedBy(r, i)' = Len(got'[r][i]) + 1
    BY <1>1, <1>4, <1>11, <2>1 DEF PostedBy, RequestAt
  <2>3. Len(<<>>) = 0
    BY EmptySeq
  <2> QED BY <1>9, <2>2, <2>3
<1>13. EntryAt(r, i)' => todo'[r][k].state = 0
  BY <1>1, <1>2, <1>7, <1>8 DEF EntryAt
<1>14. RecvOK(r, i)'
  <2>1. PICK p : p = PostedBy(r, i)'
    OBVIOUS
  <2>2. HasPart(r, i, p)'
    BY <1>12, <2>1 DEF HasPart
  <2>3. Len(got'[r][i]) = 0
    BY <1>9, EmptySeq
  <2>4. \A n \in 1 .. Len(got'[r][i]) : FALSE
    BY <2>3
  <2>5. EntryAt(r, i)' => todo'[r][prog'[r][i].k].state + 1 = p
    BY <1>1, <1>2, <1>12, <1>13, <2>1
  <2> HIDE DEF PostedBy, HasPart, EntryAt, RequestAt
  <2> QED BY <1>11, <1>12, <2>1, <2>2, <2>4, <2>5 DEF RecvOK
<1>15. HasPart(r, i, 1)
  BY DEF HasPart
<1>16. AskedFor(r, i)
  <2>1. PostedBy(r, i) = 0
    BY <1>4, PostedByType
  <2>2. New(r, i, 1)
    BY <1>12, <2>1 DEF New
  <2>3. /\ ch \in Channels
        /\ net'.req[<<r, k, 1>>] = [dir |-> "Recv", at |-> i, ch |-> ch, n |-> net.posted[ch] + 1,
                                    done |-> FALSE]
    BY <1>6 DEF AsksOne
  <2> QED BY <1>1, <1>2, <1>5, <1>12, <2>2, <2>3 DEF AskedFor
<1>17. ASSUME NEW c \in Channels PROVE PutsOn(r, i, 0, 1, c)
  <2>1. (\E m \in 0 + 1 .. 1 : c = Chan(r, i, m)) <=> c = ch
    <3>1. \A m \in 0 + 1 .. 1 : m = 1
      OBVIOUS
    <3>2. 1 \in 0 + 1 .. 1
      OBVIOUS
    <3> QED BY <1>5, <3>1, <3>2
  <2>2. /\ net'.posted[c] = IF c = ch THEN net.posted[c] + 1 ELSE net.posted[c]
        /\ net'.sent = net.sent
    BY <1>6 DEF AsksOne
  <2> QED BY <1>1, <1>4, <2>1, <2>2 DEF PutsOn
<1> QED BY <1>12, <1>14, <1>15, <1>16, <1>17

(* What a step does to each rank.                                          *)
Stepped ==
  /\ GotTypes' /\ Locals'
  /\ Quiet \/ \E r \in Ranks : \E i \in PostsOf(r) : Moved(r, i)

(* The instructions that the step leaves as they are.                      *)
LEMMA MovedLocals ==
  ASSUME prog' = prog, Locals, NEW r \in Ranks, NEW i \in PostsOf(r), OthersSame(r, i),
         LocalOK(r, i)'
  PROVE  Locals'
<1>1. ASSUME NEW a \in Ranks, NEW j \in PostsOf(a) PROVE LocalOK(a, j)'
  <2>1. CASE a = r /\ j = i
    BY <2>1
  <2>2. CASE a # r \/ j # i
    BY <2>2, SameStays DEF OthersSame, Locals
  <2> QED BY <2>1, <2>2
<1>2. \A a \in Ranks : PostsOf(a)' = PostsOf(a)
  BY DEF PostsOf
<1> QED BY <1>1, <1>2 DEF Locals

LEMMA PostStep ==
  ASSUME Inv, Reused, \A a \in Ranks : RankInv(a), GotTypes, Locals, NEW r \in Ranks, Post(r)
  PROVE  Stepped
<1>0. /\ Len(prog[r]) \in Nat /\ pc[r] \in 1 .. Len(prog[r]) /\ pc \in [Ranks -> Nat \ {0}]
      /\ prog[r][pc[r]].op \in {"Send", "Recv"}
  BY DEF Inv, Types, Scripts, IsScript, Post, At
<1>1. PICK i \in PostsOf(r) : i = pc[r]
  BY <1>0 DEF PostsOf
<1>2. PICK x : x = prog[r][i]
  OBVIOUS
<1>3. PICK k : k = x.k
  OBVIOUS
<1>4. /\ prog' = prog /\ got' = got /\ pc' = [pc EXCEPT ![r] = @ + 1]
      /\ (x.op = "Send" /\ Send(r)) \/ (x.op = "Recv" /\ Recv(r))
  BY <1>1, <1>2 DEF Post, At
<1>5. i \in 1 .. Len(prog[r]) /\ Types
  BY DEF PostsOf, Inv
<1>6. Leaves(r, i, x, k)
  BY <1>1, <1>2, <1>3, <1>4, <1>5, Posted
<1>7. todo[r][k] = Null /\ net.req[<<r, k, 1>>] = Null
  BY <1>1, <1>2, <1>3 DEF Reused
<1>8. pc'[r] = i + 1 /\ \A a \in Ranks : a # r => pc'[a] = pc[a]
  BY <1>0, <1>1, <1>4
<1>9. OthersSame(r, i)
  <2>1. /\ k \in Keys /\ k = prog[r][i].k
        /\ \A a \in Ranks, b \in Keys : a # r \/ b # k =>
             /\ todo'[a][b] = todo[a][b]
             /\ net'.req[<<a, b, 1>>] = net.req[<<a, b, 1>>]
        /\ todo'[r][k] = Null \/ todo'[r][k].at = i
        /\ net'.req[<<r, k, 1>>].at = i
    BY <1>2, <1>3, <1>6, IsHandle DEF Leaves
  <2>2. ASSUME NEW a \in Ranks, NEW j \in PostsOf(a), a # r \/ j # i
        PROVE  (j >= pc'[a] <=> j >= pc[a]) /\ (j < pc'[a] <=> j < pc[a])
    <3>1. j \in Int /\ i \in Int /\ (a = r => j # i)
      BY <2>2 DEF PostsOf
    <3>2. CASE a = r
      BY <1>1, <1>8, <3>1, <3>2
    <3>3. CASE a # r
      BY <1>8, <3>3
    <3> QED BY <3>2, <3>3
  <2> QED BY <1>4, <1>7, <2>1, <2>2, OthersAre
<1>10. LocalOK(r, i)
  BY DEF Locals
<1>11. PostedBy(r, i) = 0 /\ i \in Nat
  <2>1. i >= pc[r]
    BY <1>0, <1>1
  <2> QED BY <1>5, <2>1, PostedByType
<1>12. ~ (i >= pc'[r]) /\ i < pc'[r]
  BY <1>8, <1>11
<1>13. PICK q \in {1, 2} :
         /\ PostedBy(r, i)' = q /\ HasPart(r, i, q)
         /\ \A c \in Channels : PutsOn(r, i, 0, q, c)
         /\ LocalOK(r, i)'
         /\ prog[r][i].op = "Recv" => AskedFor(r, i)
  <2>1. CASE x.op = "Send" /\ Send(r)
    <3>1. PICK q \in {1, 2} :
            /\ PostedBy(r, i)' = q /\ HasPart(r, i, q) /\ SendState(r, i)'
            /\ \A c \in Channels : PutsOn(r, i, 0, q, c)
      BY <1>1, <1>2, <1>4, <1>5, <1>8, <2>1, SendIs
    <3>2. LocalOK(r, i)'
      BY <1>2, <1>4, <1>12, <2>1, <3>1 DEF LocalOK
    <3> QED BY <1>2, <2>1, <3>1, <3>2
  <2>2. CASE x.op = "Recv" /\ Recv(r)
    <3>1. /\ PostedBy(r, i)' = 1 /\ HasPart(r, i, 1) /\ RecvOK(r, i)' /\ AskedFor(r, i)
          /\ \A c \in Channels : PutsOn(r, i, 0, 1, c)
      BY <1>1, <1>2, <1>4, <1>5, <1>8, <1>10, <2>2, RecvIs
    <3>2. LocalOK(r, i)'
      BY <1>2, <1>4, <1>12, <2>2, <3>1 DEF LocalOK
    <3> QED BY <3>1, <3>2
  <2> QED BY <1>4, <2>1, <2>2
<1>14. Advances(r, i)
  <2>1. 0 \in Nat /\ q \in Nat /\ 0 <= q
    OBVIOUS
  <2> QED BY <1>4, <1>5, <1>9, <1>11, <1>13, <2>1, ToAdvances
<1>15. Moved(r, i)
  BY <1>9, <1>13, <1>14 DEF Moved, OthersSame
<1>16. Locals' /\ GotTypes'
  BY <1>4, <1>9, <1>13, MovedLocals, GotKept
<1> QED BY <1>15, <1>16 DEF Stepped

-----------------------------------------------------------------------------
(* What Do posts. *)

(* The step posts what instruction i of r has posted after it.             *)
Does(r, i) ==
  \E p, q \in Nat :
    /\ PostedBy(r, i) = p /\ PostedBy(r, i)' = q /\ p <= q /\ HasPart(r, i, q)
    /\ \A c \in Channels : PutsOn(r, i, p, q, c)
    /\ LocalOK(r, i)'
    /\ prog[r][i].op = "Recv" /\ RequestAt(r, i)' => AskedFor(r, i)

LEMMA ToStepped ==
  ASSUME Types, GotTypes, Locals, prog' = prog, got' = got,
         NEW r \in Ranks, NEW i \in PostsOf(r), OthersSame(r, i), Does(r, i)
  PROVE  Stepped
<1>1. PICK p \in Nat, q \in Nat :
        /\ PostedBy(r, i) = p /\ PostedBy(r, i)' = q /\ p <= q /\ HasPart(r, i, q)
        /\ \A c \in Channels : PutsOn(r, i, p, q, c)
        /\ LocalOK(r, i)'
        /\ prog[r][i].op = "Recv" /\ RequestAt(r, i)' => AskedFor(r, i)
  BY DEF Does
<1>2. Advances(r, i)
  BY <1>1, ToAdvances
<1>3. Moved(r, i)
  BY <1>1, <1>2 DEF Moved, OthersSame
<1>4. Locals' /\ GotTypes'
  BY <1>1, MovedLocals, GotKept
<1> QED BY <1>3, <1>4 DEF Stepped

(* The messages posted by an instruction that was reached.                 *)
LEMMA PostedByIs ==
  ASSUME NEW r, NEW i, prog' = prog, ~ (i >= pc[r]), ~ (i >= pc'[r])
  PROVE  /\ prog[r][i].op = "Recv" =>
              /\ PostedBy(r, i) = Len(got[r][i]) + (IF RequestAt(r, i) THEN 1 ELSE 0)
              /\ PostedBy(r, i)' = Len(got'[r][i]) + (IF RequestAt(r, i)' THEN 1 ELSE 0)
         /\ prog[r][i].op # "Recv" =>
              /\ PostedBy(r, i) = IF EntryAt(r, i) THEN todo[r][prog[r][i].k].state + 1
                                  ELSE MessagesOf(prog[r][i].obj)
              /\ PostedBy(r, i)' = IF EntryAt(r, i)' THEN todo'[r][prog[r][i].k].state + 1
                                   ELSE MessagesOf(prog[r][i].obj)
<1>1. PostedBy(r, i) = IF prog[r][i].op = "Recv" THEN Len(got[r][i]) + (IF RequestAt(r, i) THEN 1 ELSE 0)
        ELSE IF EntryAt(r, i) THEN todo[r][prog[r][i].k].state + 1 ELSE MessagesOf(prog[r][i].obj)
  BY DEF PostedBy, EntryAt, RequestAt
<1>2. PostedBy(r, i)' = IF prog[r][i].op = "Recv" THEN Len(got'[r][i]) + (IF RequestAt(r, i)' THEN 1 ELSE 0)
        ELSE IF EntryAt(r, i)' THEN todo'[r][prog[r][i].k].state + 1 ELSE MessagesOf(prog[r][i].obj)
  BY DEF PostedBy, EntryAt, RequestAt, MessagesOf
<1> HIDE DEF PostedBy, EntryAt, RequestAt
<1>3. ASSUME prog[r][i].op = "Recv"
      PROVE  /\ PostedBy(r, i) = Len(got[r][i]) + (IF RequestAt(r, i) THEN 1 ELSE 0)
             /\ PostedBy(r, i)' = Len(got'[r][i]) + (IF RequestAt(r, i)' THEN 1 ELSE 0)
  <2>1. CASE RequestAt(r, i)
    <3>1. PostedBy(r, i) = Len(got[r][i]) + 1
      BY <1>1, <1>3, <2>1
    <3>2. CASE RequestAt(r, i)'
      BY <1>2, <1>3, <2>1, <3>1, <3>2
    <3>3. CASE ~RequestAt(r, i)'
      BY <1>2, <1>3, <2>1, <3>1, <3>3
    <3> QED BY <3>2, <3>3
  <2>2. CASE ~RequestAt(r, i)
    <3>1. PostedBy(r, i) = Len(got[r][i]) + 0
      BY <1>1, <1>3, <2>2
    <3>2. CASE RequestAt(r, i)'
      BY <1>2, <1>3, <2>2, <3>1, <3>2
    <3>3. CASE ~RequestAt(r, i)'
      BY <1>2, <1>3, <2>2, <3>1, <3>3
    <3> QED BY <3>2, <3>3
  <2> QED BY <2>1, <2>2
<1>4. ASSUME prog[r][i].op # "Recv"
      PROVE  /\ PostedBy(r, i) = IF EntryAt(r, i) THEN todo[r][prog[r][i].k].state + 1
                                 ELSE MessagesOf(prog[r][i].obj)
             /\ PostedBy(r, i)' = IF EntryAt(r, i)' THEN todo'[r][prog[r][i].k].state + 1
                                  ELSE MessagesOf(prog[r][i].obj)
  <2>1. CASE EntryAt(r, i)
    <3>1. CASE EntryAt(r, i)'
      BY <1>1, <1>2, <1>4, <2>1, <3>1
    <3>2. CASE ~EntryAt(r, i)'
      BY <1>1, <1>2, <1>4, <2>1, <3>2
    <3> QED BY <3>1, <3>2
  <2>2. CASE ~EntryAt(r, i)
    <3>1. CASE EntryAt(r, i)'
      BY <1>1, <1>2, <1>4, <2>2, <3>1
    <3>2. CASE ~EntryAt(r, i)'
      BY <1>1, <1>2, <1>4, <2>2, <3>2
    <3> QED BY <3>1, <3>2
  <2> QED BY <2>1, <2>2
<1> QED BY <1>3, <1>4

(* One part is sent or asked for, or none.                                 *)
LEMMA OnePart ==
  ASSUME NEW r, NEW i, NEW p \in Nat
  PROVE  /\ prog[r][i].op = "Send" /\ PutsOne(net, net', Chan(r, i, p + 1), [obj |-> prog[r][i].obj, part |-> p + 1])
              => \A c \in Channels : PutsOn(r, i, p, p + 1, c)
         /\ prog[r][i].op = "Recv" /\ (\E h : AsksOne(net, net', Chan(r, i, p + 1), h, i))
              => \A c \in Channels : PutsOn(r, i, p, p + 1, c)
         /\ net'.sent = net.sent /\ net'.posted = net.posted
              => \A c \in Channels : PutsOn(r, i, p, p, c)
<1>1. ASSUME NEW c PROVE (\E m \in p + 1 .. p + 1 : c = Chan(r, i, m)) <=> c = Chan(r, i, p + 1)
  <2>1. \A m \in p + 1 .. p + 1 : m = p + 1
    OBVIOUS
  <2>2. p + 1 \in p + 1 .. p + 1
    OBVIOUS
  <2> QED BY <2>1, <2>2
<1>2. Chan(r, i, p + 1)[3][2] = p + 1
  BY ChanPart
<1>3. PICK ch : ch = Chan(r, i, p + 1)
  OBVIOUS
<1>4. \A c : c = ch => c[3][2] = p + 1
  BY <1>2, <1>3
<1>5. ASSUME prog[r][i].op = "Send", NEW c \in Channels,
             PutsOne(net, net', ch, [obj |-> prog[r][i].obj, part |-> p + 1])
      PROVE  PutsOn(r, i, p, p + 1, c)
  <2>1. /\ net'.sent[c] = IF c = ch THEN Append(net.sent[c], [obj |-> prog[r][i].obj, part |-> p + 1])
                          ELSE net.sent[c]
        /\ net'.posted = net.posted
    BY <1>5 DEF PutsOne
  <2> QED BY <1>1, <1>3, <1>4, <1>5, <2>1 DEF PutsOn
<1>6. ASSUME prog[r][i].op = "Recv", NEW c \in Channels, NEW h, AsksOne(net, net', ch, h, i)
      PROVE  PutsOn(r, i, p, p + 1, c)
  <2>1. /\ net'.posted[c] = IF c = ch THEN net.posted[c] + 1 ELSE net.posted[c]
        /\ net'.sent = net.sent
    BY <1>6 DEF AsksOne
  <2> QED BY <1>1, <1>3, <1>6, <2>1 DEF PutsOn
<1>7. ASSUME net'.sent = net.sent, net'.posted = net.posted, NEW c
      PROVE  PutsOn(r, i, p, p, c)
  <2>1. \A m \in p + 1 .. p : FALSE
    OBVIOUS
  <2>2. ~ \E m \in p + 1 .. p : c = Chan(r, i, m)
    BY <2>1
  <2> QED BY <1>7, <2>2 DEF PutsOn
<1> QED BY <1>3, <1>5, <1>6, <1>7

(* The part asked for is the next one.                                     *)
LEMMA IsAskedFor ==
  ASSUME NEW r, NEW i, NEW p \in Nat, PostedBy(r, i) = p, PostedBy(r, i)' = p + 1,
         AsksOne(net, net', Chan(r, i, p + 1), <<r, prog[r][i].k, 1>>, i)
  PROVE  AskedFor(r, i)
<1>1. PICK ch : ch = Chan(r, i, p + 1)
  OBVIOUS
<1>2. /\ ch \in Channels
      /\ net'.req[<<r, prog[r][i].k, 1>>] = [dir |-> "Recv", at |-> i, ch |-> ch,
                                             n |-> net.posted[ch] + 1, done |-> FALSE]
  BY <1>1 DEF AsksOne
<1>3. New(r, i, p + 1)
  BY DEF New
<1> QED BY <1>1, <1>2, <1>3 DEF AskedFor

(* A message of the object in entry k has gone or come.                    *)
Doing(r, k, i) ==
  /\ k \in Keys /\ todo[r][k] # Null /\ i = todo[r][k].at
  /\ i \in PostsOf(r) /\ prog[r][i].k = k /\ prog[r][i].op = todo[r][k].dir
  /\ WhatOf(prog[r][i]) \in {"mesh", "matrix"}
  /\ net.req[<<r, k, 1>>] = Null /\ i < pc[r] /\ ~ (i >= pc[r])
  /\ prog' = prog /\ pc' = pc /\ got' = got

LEMMA DoingIs ==
  ASSUME Types, GotTypes, Locals, NEW r \in Ranks, NEW k, NEW i, Doing(r, k, i)
  PROVE  /\ EntryAt(r, i) /\ ~RequestAt(r, i) /\ todo[r][k].state \in 0 .. 3
         /\ PostedBy(r, i) = todo[r][k].state + 1
         /\ i \in 1 .. Len(prog[r]) /\ Scripts
         /\ Stands(r, i) /\ WhatOf(prog[r][i]) = ObjectOf(r, i).what
         /\ prog[r][i].op = "Recv" =>
              /\ RecvOK(r, i) /\ Len(got[r][i]) = todo[r][k].state + 1
              /\ Head(got[r][i]).obj = ObjectOf(r, i)
         /\ prog[r][i].op = "Send" => SendState(r, i) /\ ObjectOf(r, i) = prog[r][i].obj
<1>1. EntryAt(r, i) /\ ~RequestAt(r, i)
  BY DEF Doing, EntryAt, RequestAt
<1>2. todo[r][k].state \in 0 .. 3
  BY DEF Doing, Types, Entries
<1>3. PICK s \in 0 .. 3 : s = todo[r][k].state
  BY <1>2
<1>4. i \in 1 .. Len(prog[r]) /\ Scripts /\ prog[r][i].op \in {"Send", "Recv"} /\ i \in PostsOf(r)
  BY DEF Doing, PostsOf, Types
<1>5. LocalOK(r, i) /\ ~ (i >= pc[r]) /\ ~ (i >= pc'[r]) /\ i < pc[r] /\ prog' = prog
  BY DEF Doing, Locals
<1>6. ASSUME prog[r][i].op = "Recv"
      PROVE  /\ RecvOK(r, i) /\ Len(got[r][i]) = s + 1 /\ PostedBy(r, i) = s + 1
             /\ Stands(r, i) /\ Head(got[r][i]).obj = ObjectOf(r, i)
  <2>1. RecvOK(r, i)
    BY <1>5, <1>6 DEF LocalOK
  <2>2. PostedBy(r, i) = s + 1
    BY <1>1, <1>3, <2>1 DEF RecvOK, Doing
  <2>3. PostedBy(r, i) = Len(got[r][i]) + 0
    BY <1>1, <1>5, <1>6, PostedByIs
  <2>4. got[r][i] \in Seq(Messages) /\ Len(got[r][i]) \in Nat
    <3>1. got[r][i] \in Seq(Messages)
      BY <1>4, <1>6 DEF GotTypes
    <3> QED BY <3>1, LenProperties
  <2>5. Len(got[r][i]) = s + 1
    BY <2>2, <2>3, <2>4
  <2>6. 1 \in 1 .. Len(got[r][i])
    BY <2>5
  <2>7. Stands(r, i) /\ got[r][i][1] = [obj |-> ObjectOf(r, i), part |-> 1]
    BY <2>1, <2>6 DEF RecvOK
  <2>8. Head(got[r][i]) = got[r][i][1]
    <3>1. PICK g \in Seq(Messages) : g = got[r][i]
      BY <2>4
    <3>2. Len(g) = s + 1
      BY <2>5, <3>1
    <3>3. g # <<>>
      BY <3>2, EmptySeq
    <3> QED BY <3>1, <3>3, HeadTailProperties
  <2> QED BY <2>1, <2>2, <2>5, <2>7, <2>8
<1>7. ASSUME prog[r][i].op = "Send"
      PROVE  /\ PostedBy(r, i) = s + 1 /\ Stands(r, i) /\ SendState(r, i)
             /\ ObjectOf(r, i) = prog[r][i].obj
  <2>1. PostedBy(r, i) = s + 1
    <3>1. prog[r][i].op # "Recv" /\ prog[r][i].k = k
      BY <1>7 DEF Doing
    <3> QED BY <1>1, <1>3, <1>5, <3>1, PostedByIs
  <2> QED BY <1>5, <1>7, <2>1 DEF Stands, ObjectOf, LocalOK
<1>8. Stands(r, i)
  BY <1>4, <1>6, <1>7
<1>9. WhatOf(prog[r][i]) = ObjectOf(r, i).what
  BY <1>4, <1>8, ObjectIs
<1> QED BY <1>1, <1>2, <1>3, <1>4, <1>6, <1>7, <1>8, <1>9

(* It asks for one more part.                                              *)
LEMMA AsksMore ==
  ASSUME Types, GotTypes, Locals, NEW r \in Ranks, NEW k, NEW i, Doing(r, k, i),
         NEW s \in 0 .. 3, s = todo[r][k].state, prog[r][i].op = "Recv",
         todo'[r][k] # Null, todo'[r][k].at = i, todo'[r][k].state = s + 1,
         net'.req[<<r, k, 1>>] # Null, HasPart(r, i, s + 2),
         AsksOne(net, net', Chan(r, i, s + 2), <<r, k, 1>>, i)
  PROVE  Does(r, i)
<1>1. /\ prog[r][i].k = k /\ prog' = prog /\ pc' = pc /\ got' = got /\ i \in PostsOf(r)
      /\ ~ (i >= pc[r]) /\ ~ (i >= pc'[r])
  BY DEF Doing
<1>2. /\ EntryAt(r, i) /\ ~RequestAt(r, i) /\ PostedBy(r, i) = s + 1
      /\ RecvOK(r, i) /\ Len(got[r][i]) = s + 1
  BY DoingIs
<1>3. RequestAt(r, i)' /\ EntryAt(r, i)'
  <2>1. net'.req[<<r, k, 1>>].at = i
    BY DEF AsksOne
  <2> QED BY <1>1, <2>1 DEF RequestAt, EntryAt
<1>4. PostedBy(r, i)' = s + 2
  <2>1. PostedBy(r, i)' = Len(got[r][i]) + 1
    BY <1>1, <1>3, PostedByIs
  <2> QED BY <1>2, <2>1
<1>5. /\ Stands(r, i)' <=> Stands(r, i)
      /\ ObjectOf(r, i)' = ObjectOf(r, i)
      /\ HasPart(r, i, s + 2)' <=> HasPart(r, i, s + 2)
  <2>1. PICK m : m = s + 2
    OBVIOUS
  <2>2. HasPart(r, i, m)' <=> HasPart(r, i, m)
    BY <1>1, Fixed
  <2>3. HasPart(r, i, s + 2)' <=> HasPart(r, i, s + 2)
    BY <2>1, <2>2 DEF HasPart, MessagesOf
  <2> QED BY <1>1, <2>3, Fixed
<1>6. LocalOK(r, i)'
  <2>1. \A n \in 1 .. Len(got'[r][i]) :
          Stands(r, i)' /\ got'[r][i][n] = [obj |-> ObjectOf(r, i)', part |-> n]
    BY <1>1, <1>2, <1>5 DEF RecvOK
  <2>2. PICK p : p = PostedBy(r, i)'
    OBVIOUS
  <2>3. p = s + 2 /\ p >= 1 /\ HasPart(r, i, p)'
    <3>1. p = s + 2
      BY <1>4, <2>2
    <3> QED BY <1>5, <3>1 DEF HasPart, MessagesOf
  <2>4. todo'[r][prog'[r][i].k].state + 1 = p
    BY <1>1, <2>3
  <2>5. RecvOK(r, i)'
    <3> HIDE DEF PostedBy, HasPart, EntryAt, RequestAt, Stands, ObjectOf
    <3> QED BY <1>3, <2>1, <2>2, <2>3, <2>4 DEF RecvOK
  <2> QED BY <1>1, <2>5 DEF LocalOK
<1>7. \A c \in Channels : PutsOn(r, i, s + 1, s + 2, c)
  <2>1. PICK p \in Nat : p = s + 1 /\ p + 1 = s + 2
    OBVIOUS
  <2>2. \A c \in Channels : PutsOn(r, i, p, p + 1, c)
    BY <2>1, OnePart
  <2> QED BY <2>1, <2>2
<1>8. AskedFor(r, i)
  <2>1. PICK p \in Nat : p = s + 1 /\ p + 1 = s + 2
    OBVIOUS
  <2> QED BY <1>1, <1>2, <1>4, <2>1, IsAskedFor
<1>9. s + 1 \in Nat /\ s + 2 \in Nat /\ s + 1 <= s + 2
  OBVIOUS
<1> QED BY <1>2, <1>4, <1>6, <1>7, <1>8, <1>9 DEF Does

(* It sends one more part.                                                 *)
LEMMA SendsMore ==
  ASSUME Types, GotTypes, Locals, NEW r \in Ranks, NEW k, NEW i, Doing(r, k, i),
         NEW s \in 0 .. 3, s = todo[r][k].state, prog[r][i].op = "Send",
         todo'[r][k] # Null, todo'[r][k].at = i, todo'[r][k].state = s + 1,
         HasPart(r, i, s + 2),
         prog[r][i].obj.what = "mesh" => s = 0 /\ prog[r][i].obj.parts = 2,
         PutsOne(net, net', Chan(r, i, s + 2), [obj |-> prog[r][i].obj, part |-> s + 2])
  PROVE  Does(r, i)
<1>1. /\ prog[r][i].k = k /\ prog' = prog /\ pc' = pc /\ got' = got /\ i \in PostsOf(r)
      /\ ~ (i >= pc[r]) /\ ~ (i >= pc'[r])
  BY DEF Doing
<1>2. EntryAt(r, i) /\ PostedBy(r, i) = s + 1
  BY DoingIs
<1>3. EntryAt(r, i)'
  BY <1>1 DEF EntryAt
<1>4. PostedBy(r, i)' = s + 2
  <2>1. PostedBy(r, i)' = todo'[r][k].state + 1
    BY <1>1, <1>3, PostedByIs
  <2> QED BY <2>1
<1>5. LocalOK(r, i)'
  <2>1. SendState(r, i)'
    BY <1>1 DEF SendState
  <2> QED BY <1>1, <2>1 DEF LocalOK
<1>6. \A c \in Channels : PutsOn(r, i, s + 1, s + 2, c)
  <2>1. PICK p \in Nat : p = s + 1 /\ p + 1 = s + 2
    OBVIOUS
  <2>2. \A c \in Channels : PutsOn(r, i, p, p + 1, c)
    BY <2>1, OnePart
  <2> QED BY <2>1, <2>2
<1>7. s + 1 \in Nat /\ s + 2 \in Nat /\ s + 1 <= s + 2
  OBVIOUS
<1> QED BY <1>2, <1>4, <1>5, <1>6, <1>7 DEF Does

(* Or that was all.                                                        *)
LEMMA DoesLast ==
  ASSUME Types, GotTypes, Locals, NEW r \in Ranks, NEW k, NEW i, Doing(r, k, i),
         NEW s \in 0 .. 3, s = todo[r][k].state,
         todo'[r][k] = Null, net'.sent = net.sent, net'.posted = net.posted,
         net'.req[<<r, k, 1>>] = Null, MessagesOf(ObjectOf(r, i)) = s + 1
  PROVE  Does(r, i)
<1>1. /\ prog[r][i].k = k /\ prog' = prog /\ pc' = pc /\ got' = got /\ i \in PostsOf(r)
      /\ ~ (i >= pc[r]) /\ ~ (i >= pc'[r]) /\ prog[r][i].op \in {"Send", "Recv"}
  BY DEF Doing, PostsOf
<1>2. /\ EntryAt(r, i) /\ ~RequestAt(r, i) /\ PostedBy(r, i) = s + 1 /\ Stands(r, i)
      /\ prog[r][i].op = "Recv" => RecvOK(r, i) /\ Len(got[r][i]) = s + 1
      /\ prog[r][i].op = "Send" => ObjectOf(r, i) = prog[r][i].obj
  BY DoingIs
<1>3. ~RequestAt(r, i)' /\ ~EntryAt(r, i)'
  BY <1>1 DEF RequestAt, EntryAt
<1>4. PostedBy(r, i)' = s + 1
  <2>1. CASE prog[r][i].op = "Recv"
    <3>1. PostedBy(r, i)' = Len(got[r][i]) + 0
      BY <1>1, <1>3, <2>1, PostedByIs
    <3> QED BY <1>2, <2>1, <3>1
  <2>2. CASE prog[r][i].op = "Send"
    <3>1. PostedBy(r, i)' = MessagesOf(prog[r][i].obj)
      BY <1>1, <1>3, <2>2, PostedByIs
    <3> QED BY <1>2, <2>2, <3>1
  <2> QED BY <1>1, <2>1, <2>2
<1>5. PICK p \in Nat : p = s + 1 /\ p >= 1
  OBVIOUS
<1>6. HasPart(r, i, p)
  <2>1. MessagesOf(ObjectOf(r, i)) >= p
    BY <1>5
  <2> QED BY <1>2, <2>1 DEF HasPart
<1>7. LocalOK(r, i)'
  <2>1. CASE prog[r][i].op = "Recv"
    <3>1. /\ Stands(r, i)' <=> Stands(r, i)
          /\ ObjectOf(r, i)' = ObjectOf(r, i)
          /\ HasPart(r, i, p)' <=> HasPart(r, i, p)
      BY <1>1, Fixed
    <3>2. \A n \in 1 .. Len(got'[r][i]) :
            Stands(r, i)' /\ got'[r][i][n] = [obj |-> ObjectOf(r, i)', part |-> n]
      BY <1>1, <1>2, <2>1, <3>1 DEF RecvOK
    <3>3. Stands(r, i)' /\ p = MessagesOf(ObjectOf(r, i)')
      BY <1>2, <1>5, <3>1
    <3>4. PostedBy(r, i)' = p
      BY <1>4, <1>5
    <3>5. HasPart(r, i, PostedBy(r, i))'
      BY <1>6, <3>1, <3>4 DEF HasPart, MessagesOf
    <3>6. MessagesOf(ObjectOf(r, i))' = MessagesOf(ObjectOf(r, i)')
      BY DEF MessagesOf
    <3>7. RecvOK(r, i)'
      <4> HIDE DEF PostedBy, HasPart, EntryAt, RequestAt, Stands, ObjectOf, MessagesOf
      <4> QED BY <1>3, <1>5, <3>2, <3>3, <3>4, <3>5, <3>6 DEF RecvOK
    <3> QED BY <1>1, <2>1, <3>7 DEF LocalOK
  <2>2. CASE prog[r][i].op = "Send"
    BY <1>1, <1>3, <2>2 DEF LocalOK, SendState
  <2> QED BY <1>1, <2>1, <2>2
<1>8. \A c \in Channels : PutsOn(r, i, p, p, c)
  BY OnePart
<1> QED BY <1>2, <1>3, <1>4, <1>5, <1>6, <1>7, <1>8 DEF Does

(* SendWMatd::Do and RevcWMatd::Do: four parts. *)
LEMMA MatrixDoes ==
  ASSUME Inv, GotTypes, Locals, NEW r \in Ranks, NEW k, NEW i, Doing(r, k, i),
         WhatOf(prog[r][i]) = "matrix", Matrix(r, k)
  PROVE  Does(r, i)
<1>1. Types /\ net \in Nets /\ Scripts
  BY DEF Inv, Types
<1>2. /\ k \in Keys /\ todo[r][k] # Null /\ i = todo[r][k].at /\ i \in PostsOf(r)
      /\ prog[r][i].op = todo[r][k].dir /\ net.req[<<r, k, 1>>] = Null
      /\ prog[r][i].op \in {"Send", "Recv"}
  BY DEF Doing, PostsOf
<1>3. /\ todo[r][k].state \in 0 .. 3 /\ i \in 1 .. Len(prog[r]) /\ Stands(r, i)
      /\ WhatOf(prog[r][i]) = ObjectOf(r, i).what
      /\ prog[r][i].op = "Send" => ObjectOf(r, i) = prog[r][i].obj
  BY <1>1, DoingIs
<1>4. PICK s \in 0 .. 3 : s = todo[r][k].state
  BY <1>3
<1>5. MessagesOf(ObjectOf(r, i)) = 4
  BY <1>1, <1>2, <1>3, ObjectIs
<1>6. CASE s < 3
  <2>1. PICK m \in 1 .. 4 : m = s + 2
    BY <1>6
  <2>2. HasPart(r, i, s + 2)
    BY <1>3, <1>5, <2>1 DEF HasPart
  <2>3. Tag("matrix", m) \in Tags /\ 1 \in {1, 2}
    BY <2>1, PartTags
  <2>4. /\ net' = IF todo[r][k].dir = "Send"
                  THEN PostSend(net, <<r, k, 1>>, i, prog[r][i].obj, m)
                  ELSE PostRecv(net, <<r, k, 1>>, i, "matrix", m)
        /\ StateBecomes(r, k, s + 1)
    BY <1>2, <1>4, <1>6, <2>1 DEF Matrix, StateBecomes
  <2>5. s + 1 \in 0 .. 3
    BY <1>6
  <2>6. /\ todo'[r][k] # Null /\ todo'[r][k].at = i /\ todo'[r][k].state = s + 1
    BY <1>1, <1>2, <2>4, <2>5, StateIs
  <2>7. CASE prog[r][i].op = "Send"
    <3>1. prog[r][i].obj.what = "matrix"
      BY <2>7 DEF WhatOf
    <3>2. PutsOne(net, PostSend(net, <<r, k, 1>>, i, prog[r][i].obj, m), Chan(r, i, m),
                  [obj |-> prog[r][i].obj, part |-> m])
      BY <1>1, <1>2, <1>3, <2>3, <2>7, <3>1, PostSendIs
    <3>3. PutsOne(net, net', Chan(r, i, s + 2), [obj |-> prog[r][i].obj, part |-> s + 2])
      BY <1>2, <2>1, <2>4, <2>7, <3>2
    <3> QED BY <1>1, <1>4, <2>2, <2>6, <2>7, <3>1, <3>3, SendsMore
  <2>8. CASE prog[r][i].op = "Recv"
    <3>1. prog[r][i].what = "matrix"
      BY <2>8 DEF WhatOf
    <3>2. AsksOne(net, PostRecv(net, <<r, k, 1>>, i, "matrix", m), Chan(r, i, m), <<r, k, 1>>, i)
      BY <1>1, <1>2, <1>3, <2>3, <2>8, <3>1, PostRecvIs
    <3>3. Puts(net, PostRecv(net, <<r, k, 1>>, i, "matrix", m), <<r, k, 1>>, i)
      BY <1>1, <1>2, <1>3, <2>3, <2>8, PostRecvNet
    <3>4. net' = PostRecv(net, <<r, k, 1>>, i, "matrix", m)
      BY <1>2, <2>4, <2>8
    <3>5. /\ AsksOne(net, net', Chan(r, i, s + 2), <<r, k, 1>>, i)
          /\ net'.req[<<r, k, 1>>] # Null
      BY <2>1, <3>2, <3>3, <3>4 DEF Puts
    <3> QED BY <1>1, <1>4, <2>2, <2>6, <2>8, <3>5, AsksMore
  <2> QED BY <1>2, <2>7, <2>8
<1>7. CASE ~(s < 3)
  <2>1. net' = net /\ Becomes(r, k, Null)
    BY <1>4, <1>7 DEF Matrix, Finished, Becomes
  <2>2. todo'[r][k] = Null
    BY <1>1, <1>2, <2>1, TodoIs
  <2>3. MessagesOf(ObjectOf(r, i)) = s + 1
    BY <1>5, <1>7
  <2>4. net'.sent = net.sent /\ net'.posted = net.posted /\ net'.req[<<r, k, 1>>] = Null
    BY <1>2, <2>1
  <2> QED BY <1>1, <1>4, <2>2, <2>3, <2>4, DoesLast
<1> QED BY <1>6, <1>7

(* SendWMeshd::Do: the second part, if it was not posted with the first.   *)
LEMMA SendMeshDoes ==
  ASSUME Inv, GotTypes, Locals, NEW r \in Ranks, NEW k, NEW i, Doing(r, k, i),
         WhatOf(prog[r][i]) = "mesh", prog[r][i].op = "Send", SendMesh(r, k)
  PROVE  Does(r, i)
<1>1. Types /\ net \in Nets /\ Scripts
  BY DEF Inv, Types
<1>2. /\ k \in Keys /\ todo[r][k] # Null /\ i = todo[r][k].at /\ i \in PostsOf(r)
      /\ prog[r][i].k = k /\ net.req[<<r, k, 1>>] = Null
  BY DEF Doing
<1>3. /\ todo[r][k].state \in 0 .. 3 /\ i \in 1 .. Len(prog[r]) /\ Stands(r, i)
      /\ WhatOf(prog[r][i]) = ObjectOf(r, i).what
      /\ ObjectOf(r, i) = prog[r][i].obj /\ SendState(r, i) /\ EntryAt(r, i)
  BY <1>1, DoingIs
<1>4. PICK s \in 0 .. 3 : s = todo[r][k].state
  BY <1>3
<1>5. MessagesOf(ObjectOf(r, i)) = IF prog[r][i].obj.parts = 2 THEN 2 ELSE 1
  BY <1>1, <1>2, <1>3, ObjectIs
<1>6. prog[r][i].obj.what = "mesh"
  BY <1>3
<1>7. s = 0 \/ (s = 1 /\ prog[r][i].obj.parts = 2)
  BY <1>2, <1>3, <1>4, <1>6 DEF SendState
<1>8. CASE s = 0 /\ prog[r][i].obj.parts = 2
  <2>1. /\ net' = PostSend(net, <<r, k, 2>>, i, prog[r][i].obj, 2)
        /\ StateBecomes(r, k, 1)
    BY <1>2, <1>4, <1>8 DEF SendMesh, StateBecomes
  <2>2. Tag("mesh", 2) \in Tags /\ 2 \in 1 .. 4 /\ 2 \in {1, 2} /\ 1 \in 0 .. 3
    BY PartTags
  <2>3. PutsOne(net, net', Chan(r, i, 2), [obj |-> prog[r][i].obj, part |-> 2])
    BY <1>1, <1>2, <1>3, <1>6, <2>1, <2>2, PostSendIs
  <2>4. /\ todo'[r][k] # Null /\ todo'[r][k].at = i /\ todo'[r][k].state = 1
    BY <1>1, <1>2, <2>1, <2>2, StateIs
  <2>5. s + 1 = 1 /\ s + 2 = 2
    BY <1>8
  <2>6. HasPart(r, i, 2)
    BY <1>3, <1>5, <1>8 DEF HasPart
  <2> QED BY <1>1, <1>4, <1>8, <2>3, <2>4, <2>5, <2>6, SendsMore
<1>9. CASE ~(s = 0 /\ prog[r][i].obj.parts = 2)
  <2>1. /\ net' = [net EXCEPT !.req = [net.req EXCEPT ![<<r, k, 2>>] = Null]]
        /\ Becomes(r, k, Null)
    BY <1>2, <1>4, <1>9 DEF SendMesh, Finished, Becomes
  <2>2. todo'[r][k] = Null
    BY <1>1, <1>2, <2>1, TodoIs
  <2>3. /\ net'.sent = net.sent /\ net'.posted = net.posted
        /\ net'.req = [net.req EXCEPT ![<<r, k, 2>>] = Null]
    BY <1>1, <2>1 DEF Nets
  <2>4. net'.req[<<r, k, 1>>] = Null
    <3>1. PICK b \in Keys : b = k
      BY <1>2
    <3>2. 1 \in {1, 2}
      OBVIOUS
    <3>3. <<r, b, 1>> \in Handles
      BY <3>2, IsHandle
    <3>4. <<r, b, 1>> # <<r, b, 2>>
      OBVIOUS
    <3> QED BY <1>1, <1>2, <2>3, <3>1, <3>3, <3>4 DEF Nets
  <2>5. MessagesOf(ObjectOf(r, i)) = s + 1
    BY <1>5, <1>7, <1>9
  <2> QED BY <1>1, <1>4, <2>2, <2>3, <2>4, <2>5, DoesLast
<1> QED BY <1>8, <1>9

(* RevcWMeshd::Do: the second part, if the first says there is one.        *)
LEMMA RecvMeshDoes ==
  ASSUME Inv, GotTypes, Locals, NEW r \in Ranks, NEW k, NEW i, Doing(r, k, i),
         WhatOf(prog[r][i]) = "mesh", prog[r][i].op = "Recv", RecvMesh(r, k)
  PROVE  Does(r, i)
<1>1. Types /\ net \in Nets /\ Scripts
  BY DEF Inv, Types
<1>2. /\ k \in Keys /\ todo[r][k] # Null /\ i = todo[r][k].at /\ i \in PostsOf(r)
      /\ prog[r][i].k = k /\ net.req[<<r, k, 1>>] = Null
  BY DEF Doing
<1>3. /\ todo[r][k].state \in 0 .. 3 /\ i \in 1 .. Len(prog[r]) /\ Stands(r, i)
      /\ WhatOf(prog[r][i]) = ObjectOf(r, i).what
      /\ PostedBy(r, i) = todo[r][k].state + 1
      /\ RecvOK(r, i) /\ Head(got[r][i]).obj = ObjectOf(r, i)
  BY <1>1, DoingIs
<1>4. PICK s \in 0 .. 3 : s = todo[r][k].state
  BY <1>3
<1>5. PICK obj : obj = ObjectOf(r, i)
  OBVIOUS
<1>6. MessagesOf(obj) = IF obj.parts = 2 THEN 2 ELSE 1
  BY <1>1, <1>2, <1>3, <1>5, ObjectIs
<1>7. s = 0 \/ (s = 1 /\ obj.parts = 2)
  <2>1. HasPart(r, i, s + 1)
    BY <1>3, <1>4 DEF RecvOK
  <2>2. CASE s = 0
    BY <2>2
  <2>3. CASE s # 0
    <3>1. MessagesOf(obj) >= s + 1
      BY <1>5, <2>1, <2>3 DEF HasPart
    <3>2. CASE obj.parts = 2
      BY <1>6, <2>3, <3>1, <3>2
    <3>3. CASE obj.parts # 2
      BY <1>6, <2>3, <3>1, <3>3
    <3> QED BY <3>2, <3>3
  <2> QED BY <2>2, <2>3
<1>8. CASE s = 0 /\ obj.parts = 2
  <2>1. /\ net' = PostRecv(net, <<r, k, 1>>, i, "mesh", 2)
        /\ StateBecomes(r, k, 1)
    BY <1>2, <1>3, <1>4, <1>5, <1>8 DEF RecvMesh, StateBecomes
  <2>2. Tag("mesh", 2) \in Tags /\ 2 \in 1 .. 4 /\ 1 \in {1, 2} /\ 1 \in 0 .. 3
    BY PartTags
  <2>3. prog[r][i].what = "mesh"
    BY DEF WhatOf
  <2>4. AsksOne(net, net', Chan(r, i, 2), <<r, k, 1>>, i)
    BY <1>1, <1>2, <1>3, <2>1, <2>2, <2>3, PostRecvIs
  <2>5. net'.req[<<r, k, 1>>] # Null
    <3>1. Puts(net, PostRecv(net, <<r, k, 1>>, i, "mesh", 2), <<r, k, 1>>, i)
      BY <1>1, <1>2, <1>3, <2>2, PostRecvNet
    <3> QED BY <2>1, <3>1 DEF Puts
  <2>6. /\ todo'[r][k] # Null /\ todo'[r][k].at = i /\ todo'[r][k].state = 1
    BY <1>1, <1>2, <2>1, <2>2, StateIs
  <2>7. s + 1 = 1 /\ s + 2 = 2
    BY <1>8
  <2>8. HasPart(r, i, 2)
    BY <1>3, <1>5, <1>6, <1>8 DEF HasPart
  <2> QED BY <1>1, <1>4, <2>4, <2>5, <2>6, <2>7, <2>8, AsksMore
<1>9. CASE ~(s = 0 /\ obj.parts = 2)
  <2>1. net' = net /\ Becomes(r, k, Null)
    BY <1>2, <1>3, <1>4, <1>5, <1>9 DEF RecvMesh, Finished, Becomes
  <2>2. todo'[r][k] = Null
    BY <1>1, <1>2, <2>1, TodoIs
  <2>3. MessagesOf(ObjectOf(r, i)) = s + 1
    BY <1>5, <1>6, <1>7, <1>9
  <2>4. net'.sent = net.sent /\ net'.posted = net.posted /\ net'.req[<<r, k, 1>>] = Null
    BY <1>2, <2>1
  <2> QED BY <1>1, <1>4, <2>2, <2>3, <2>4, DoesLast
<1> QED BY <1>8, <1>9

(* DoOnWaitMPIRequest, on the channels.                                    *)

(* A step that leaves what has been posted and received as it is.          *)
Idle ==
  /\ prog' = prog /\ got' = got /\ todo' = todo
  /\ \A a \in Ranks : \A j \in PostsOf(a) :
       (j >= pc'[a] <=> j >= pc[a]) /\ (j < pc'[a] <=> j < pc[a])
  /\ net'.sent = net.sent /\ net'.posted = net.posted
  /\ \A h \in Handles : /\ net'.req[h] = Null <=> net.req[h] = Null
                        /\ net'.req[h].at = net.req[h].at

(* Nothing is posted, and the requests are as right as they were.          *)
LEMMA IdleStep ==
  ASSUME Types, FlowInv, Idle,
         \A a \in Ranks : \A j \in PostsOf(a) :
           prog[a][j].op = "Recv" /\ RequestOK(a, j) => RequestOK(a, j)'
  PROVE  Stepped
<1>0. GotTypes /\ Locals /\ prog' = prog /\ got' = got
  BY DEF FlowInv, Locals, Idle
<1>1. ASSUME NEW a \in Ranks, NEW j \in PostsOf(a)
      PROVE  Same(a, j)
  <2>1. PICK h \in Handles : h = <<a, prog[a][j].k, 1>>
    <3>1. prog[a][j].k \in Keys
      BY Posting DEF PostsOf, Types
    <3> QED BY <3>1, IsHandle
  <2>2. /\ net'.req[h] = Null <=> net.req[h] = Null
        /\ net'.req[h].at = net.req[h].at
    BY DEF Idle
  <2>3. RequestAt(a, j)' <=> RequestAt(a, j)
    BY <1>0, <2>1, <2>2 DEF RequestAt
  <2>4. EntryAt(a, j)' <=> EntryAt(a, j)
    BY <1>0 DEF EntryAt, Idle
  <2> QED BY <2>3, <2>4 DEF Same, Idle
<1>2. ASSUME NEW a \in Ranks, NEW j \in PostsOf(a)
      PROVE  PostedBy(a, j)' = PostedBy(a, j) /\ LocalOK(a, j)'
  <2>1. LocalOK(a, j)
    BY DEF FlowInv
  <2> QED BY <1>0, <1>1, <2>1, SameStays
<1>3. \A a \in Ranks : PostsOf(a)' = PostsOf(a)
  BY <1>0 DEF PostsOf
<1>4. Locals'
  BY <1>2, <1>3 DEF Locals
<1>5. ASSUME NEW a \in Ranks, NEW j \in PostsOf(a), j < pc'[a], prog[a][j].op = "Recv"
      PROVE  RequestOK(a, j)'
  <2>1. j < pc[a]
    BY <1>5 DEF Idle
  <2>2. RequestOK(a, j)
    BY <1>5, <2>1 DEF FlowInv
  <2> QED BY <1>5, <2>2
<1>6. Quiet
  BY <1>2, <1>5 DEF Quiet, Idle
<1> QED BY <1>0, <1>4, <1>6, GotKept DEF Stepped

(* When the requests of the step are those of before.                      *)
LEMMA SameRequests ==
  ASSUME Types, FlowInv, Idle, net'.req = net.req
  PROVE  Stepped
<1>1. ASSUME NEW a \in Ranks, NEW j \in PostsOf(a), prog[a][j].op = "Recv", RequestOK(a, j)
      PROVE  RequestOK(a, j)'
  <2>1. prog' = prog /\ got' = got /\ (j >= pc'[a] <=> j >= pc[a])
    BY DEF Idle
  <2>2. RequestAt(a, j)' <=> RequestAt(a, j)
    BY <2>1 DEF RequestAt
  <2>3. Same(a, j)
    BY <2>1, <2>2 DEF Same, EntryAt, Idle
  <2>4. PostedBy(a, j)' = PostedBy(a, j)
    BY <2>1, <2>3, SameStays
  <2>5. RequestStays(a, j)
    BY <2>1, <2>2 DEF RequestStays
  <2>6. RequestAt(a, j) => net.req[<<a, prog[a][j].k, 1>>].n \in Int
           /\ net.req[<<a, prog[a][j].k, 1>>].ch \in Channels
    BY RequestIs
  <2>7. \A c \in Channels : /\ Len(net.sent[c]) \in Int /\ Len(net'.sent[c]) \in Int
                            /\ Len(net.sent[c]) <= Len(net'.sent[c])
    <3> SUFFICES ASSUME NEW c \in Channels
                 PROVE  /\ Len(net.sent[c]) \in Int /\ net'.sent[c] = net.sent[c]
                        /\ Len(net.sent[c]) <= Len(net.sent[c])
      OBVIOUS
    <3>1. net.sent[c] \in Seq(Messages) /\ net'.sent[c] = net.sent[c]
      BY DEF Types, Nets, Idle
    <3>2. Len(net.sent[c]) \in Nat
      BY <3>1, LenProperties
    <3> QED BY <3>1, <3>2
  <2> QED BY <1>1, <2>1, <2>4, <2>5, <2>6, <2>7, RequestHolds DEF Types
<1> QED BY <1>1, IdleStep

LEMMA DoOnWaitStep ==
  ASSUME Inv, \A a \in Ranks : RankInv(a), FlowInv, NEW r \in Ranks, DoOnWait(r)
  PROVE  Stepped
<1>0. GotTypes /\ Locals /\ Types
  BY DEF FlowInv, Locals, Inv
<1>1. PICK k \in Keys : Treats(r, k)
  BY Treated
<1>2. /\ prog' = prog /\ pc' = pc /\ got' = got /\ k = Head(waits[r].queue)
      /\ net.req[<<r, k, 1>>] = Null
  BY <1>1 DEF Treats, DoOnWait
<1>3. CASE todo[r][k] = Null
  <2>1. net' = net /\ todo' = todo
    BY <1>1, <1>3 DEF Treats
  <2>2. Idle /\ net'.req = net.req
    BY <1>2, <2>1 DEF Idle
  <2> QED BY <1>0, <2>2, SameRequests
<1>4. CASE todo[r][k] # Null
  <2>1. PICK i : i = todo[r][k].at
    OBVIOUS
  <2>2. PICK x : x = prog[r][i]
    OBVIOUS
  <2>3. /\ todo[r][k] \in Entries /\ i \in 1 .. pc[r] - 1
        /\ x.op = todo[r][k].dir /\ WhatOf(x) \in {"mesh", "matrix"}
        /\ Moves(r, k, i)
    BY <1>1, <1>4, <2>1, <2>2 DEF Treats
  <2>4. pc[r] \in Nat /\ pc[r] <= Len(prog[r]) + 1 /\ Len(prog[r]) \in Nat
    BY <1>0 DEF Types, Scripts, IsScript
  <2>5. i \in PostsOf(r) /\ i < pc[r] /\ ~ (i >= pc[r]) /\ x.k = k
    <3>1. x.op \in {"Send", "Recv"}
      BY <2>3 DEF Entries
    <3>2. i \in 1 .. Len(prog[r]) /\ i < pc[r] /\ ~ (i >= pc[r])
      BY <2>3, <2>4
    <3>3. x.k = k
      BY <1>4, <2>1, <2>2 DEF RankInv, KeyOK
    <3> QED BY <2>2, <3>1, <3>2, <3>3 DEF PostsOf
  <2>6. Doing(r, k, i)
    BY <1>2, <1>4, <2>1, <2>2, <2>3, <2>5 DEF Doing
  <2>7. todo[r][k].dir \in {"Send", "Recv"}
    BY <2>3 DEF Entries
  <2>8. /\ CASE WhatOf(x) = "matrix" -> Matrix(r, k)
             [] WhatOf(x) = "mesh" /\ todo[r][k].dir = "Send" -> SendMesh(r, k)
             [] WhatOf(x) = "mesh" /\ todo[r][k].dir = "Recv" -> RecvMesh(r, k)
        /\ k = Head(waits[r].queue)
    BY <1>2, <1>4, <2>1, <2>2 DEF DoOnWait
  <2>9. Does(r, i)
    <3>1. CASE WhatOf(x) = "matrix"
      BY <1>0, <2>2, <2>6, <2>8, <3>1, MatrixDoes
    <3>2. CASE WhatOf(x) = "mesh" /\ todo[r][k].dir = "Send"
      BY <1>0, <2>2, <2>3, <2>6, <2>8, <3>2, SendMeshDoes
    <3>3. CASE WhatOf(x) = "mesh" /\ todo[r][k].dir = "Recv"
      BY <1>0, <2>2, <2>3, <2>6, <2>8, <3>3, RecvMeshDoes
    <3> QED BY <2>3, <2>7, <3>1, <3>2, <3>3
  <2>10. OthersSame(r, i)
    <3>1. \A a \in Ranks, b \in Keys : a # r \/ b # k =>
            /\ todo'[a][b] = todo[a][b]
            /\ net'.req[<<a, b, 1>>] = net.req[<<a, b, 1>>]
      <4> SUFFICES ASSUME NEW a \in Ranks, NEW b \in Keys, a # r \/ b # k
                   PROVE  /\ todo'[a][b] = todo[a][b]
                          /\ net'.req[<<a, b, 1>>] = net.req[<<a, b, 1>>]
        OBVIOUS
      <4>1. PICK h \in Handles : h = <<a, b, 1>>
        BY IsHandle
      <4>2. h # <<r, k, 1>> /\ h # <<r, k, 2>>
        BY <4>1
      <4> QED BY <2>3, <4>1, <4>2 DEF Moves
    <3>2. /\ todo[r][k].at = i
          /\ todo'[r][k] = Null \/ todo'[r][k].at = i
          /\ net'.req[<<r, k, 1>>] = Null \/ net'.req[<<r, k, 1>>].at = i
      BY <1>2, <2>1, <2>3 DEF Moves
    <3> QED BY <1>2, <2>2, <2>5, <3>1, <3>2, OthersAre
  <2> QED BY <1>0, <1>2, <2>5, <2>9, <2>10, ToStepped
<1> QED BY <1>3, <1>4

(* The steps in which nothing is posted or received.                       *)
LEMMA StutterStep ==
  ASSUME Inv, FlowInv, UNCHANGED vars
  PROVE  Stepped
<1>1. /\ prog' = prog /\ got' = got /\ todo' = todo /\ pc' = pc /\ net' = net
  BY DEF vars
<1>2. Idle /\ net'.req = net.req
  BY <1>1 DEF Idle
<1> QED BY <1>2, SameRequests DEF Inv

LEMMA EndWaitStep ==
  ASSUME Inv, FlowInv, NEW r \in Ranks, EndWait(r)
  PROVE  Stepped
<1>1. /\ At(r, {"Wait", "WaitAny", "WaitAll"}) /\ pc' = [pc EXCEPT ![r] = @ + 1]
      /\ prog' = prog /\ got' = got /\ todo' = todo /\ net' = net
  BY DEF EndWait
<1>2. pc \in [Ranks -> Nat \ {0}] /\ pc[r] \in Nat
  BY DEF Inv, Types
<1>3. /\ pc'[r] = pc[r] + 1
      /\ \A a \in Ranks : a # r => pc'[a] = pc[a]
  BY <1>1, <1>2
<1>4. ASSUME NEW a \in Ranks, NEW j \in PostsOf(a)
      PROVE  (j >= pc'[a] <=> j >= pc[a]) /\ (j < pc'[a] <=> j < pc[a])
  <2>1. j \in 1 .. Len(prog[a]) /\ prog[a][j].op \in {"Send", "Recv"} /\ j \in Int
    BY DEF PostsOf
  <2>2. CASE a = r
    <3>1. prog[r][pc[r]].op \in {"Wait", "WaitAny", "WaitAll"}
      BY <1>1 DEF At
    <3>2. j # pc[r]
      BY <2>1, <2>2, <3>1
    <3> QED BY <1>2, <1>3, <2>1, <2>2, <3>2
  <2>3. CASE a # r
    BY <1>3, <2>3
  <2> QED BY <2>2, <2>3
<1>5. Idle /\ net'.req = net.req
  BY <1>1, <1>4 DEF Idle
<1> QED BY <1>5, SameRequests DEF Inv

(* A request is completed: that of a receive when its message was sent.    *)
LEMMA CompleteStep ==
  ASSUME Inv, FlowInv, NEW h \in Handles, Complete(h) \/ Buffer(h)
  PROVE  Stepped
<1>1. /\ net.req[h] # Null /\ net' = [net EXCEPT !.req[h].done = TRUE]
      /\ prog' = prog /\ got' = got /\ todo' = todo /\ pc' = pc
      /\ net.req[h].dir = "Send" \/ Matched(net.req[h])
  BY DEF Complete, Buffer, Active
<1>2. net \in Nets /\ net.req \in [Handles -> Requests \cup {Null}] /\ net.req[h] \in Requests
  BY <1>1 DEF Inv, Types, Nets
<1> DEFINE p == [net.req[h] EXCEPT !.done = TRUE]
           R == [net.req EXCEPT ![h] = p]
<1>3. /\ p \in Requests /\ p.at = net.req[h].at /\ p.ch = net.req[h].ch /\ p.n = net.req[h].n
      /\ p.dir = net.req[h].dir /\ p.done
  BY <1>2 DEF Requests
<1>4. net' = [net EXCEPT !.req = R]
  BY <1>1
<1>5. p # Null
  BY <1>3, NullAssumption DEF Requests
<1> HIDE DEF p
<1>6. net'.req = R /\ net'.sent = net.sent /\ net'.posted = net.posted
  <2> HIDE DEF R
  <2> QED BY <1>2, <1>4 DEF Nets
<1>7. net'.req[h] = p /\ \A a \in Handles : a # h => net'.req[a] = net.req[a]
  BY <1>2, <1>6
<1>8. Idle
  <2>1. \A a \in Handles : /\ net'.req[a] = Null <=> net.req[a] = Null
                           /\ net'.req[a].at = net.req[a].at
    BY <1>1, <1>3, <1>5, <1>7
  <2> QED BY <1>1, <1>6, <2>1 DEF Idle
<1>9. ASSUME NEW a \in Ranks, NEW j \in PostsOf(a), prog[a][j].op = "Recv", RequestOK(a, j)
      PROVE  RequestOK(a, j)'
  <2>1. PICK b \in Handles : b = <<a, prog[a][j].k, 1>>
    <3>1. prog[a][j].k \in Keys
      BY Posting DEF PostsOf, Inv, Types
    <3> QED BY <3>1, IsHandle
  <2>2. /\ net'.req[b] = Null <=> net.req[b] = Null
        /\ net'.req[b].at = net.req[b].at
    BY <1>8 DEF Idle
  <2>3. RequestAt(a, j)' <=> RequestAt(a, j)
    BY <1>1, <2>1, <2>2 DEF RequestAt
  <2>4. Same(a, j)
    BY <1>1, <2>3 DEF Same, EntryAt
  <2>5. PostedBy(a, j)' = PostedBy(a, j)
    BY <1>1, <2>4, SameStays
  <2> SUFFICES ASSUME RequestAt(a, j)' PROVE RequestOK(a, j)'
    BY DEF RequestOK
  <2>6. PICK q : q = net.req[b]
    OBVIOUS
  <2>7. PICK d : d = net'.req[b]
    OBVIOUS
  <2>8. /\ q.dir = "Recv" /\ q.ch = Chan(a, j, PostedBy(a, j)) /\ q.n = Place(RecvsOn(q.ch), j)
        /\ q.done => q.n <= Len(net.sent[q.ch])
    BY <1>9, <2>1, <2>3, <2>6 DEF RequestOK
  <2>9. d.dir = q.dir /\ d.ch = q.ch /\ d.n = q.n
    BY <1>3, <1>7, <2>6, <2>7
  <2>10. d.done => d.n <= Len(net'.sent[d.ch])
    <3>1. CASE b = h
      <4>1. q.n <= Len(net.sent[q.ch])
        BY <1>1, <2>6, <2>8, <3>1 DEF Matched
      <4> QED BY <1>6, <2>9, <4>1
    <3>2. CASE b # h
      <4>1. d = q
        BY <1>7, <2>6, <2>7, <3>2
      <4> QED BY <1>6, <2>8, <4>1
    <3> QED BY <3>1, <3>2
  <2>11. PICK ch : ch = q.ch
    OBVIOUS
  <2>12. PICK T : T = RecvsOn(ch)
    OBVIOUS
  <2>13. PICK m : m = PostedBy(a, j)
    OBVIOUS
  <2>14. Chan(a, j, m)' = Chan(a, j, m) /\ T = RecvsOn(ch)'
    BY <1>1, <2>12, Fixed
  <2>15. RequestOK(a, j)' <=>
           (RequestAt(a, j)' =>
             /\ d.dir = "Recv" /\ d.ch = Chan(a, j, m)' /\ d.n = Place(RecvsOn(ch)', j)
             /\ d.done => d.n <= Len(net'.sent[d.ch]))
    <3>1. PostedBy(a, j)' = m /\ d.ch = ch
      BY <2>5, <2>9, <2>11, <2>13
    <3>2. net'.req[<<a, prog'[a][j].k, 1>>] = d
      BY <1>1, <2>1, <2>7
    <3> HIDE DEF PostedBy, Chan, RecvsOn, RequestAt
    <3> QED BY <3>1, <3>2 DEF RequestOK, Place
  <2> QED BY <2>8, <2>9, <2>10, <2>11, <2>12, <2>13, <2>14, <2>15
<1> QED BY <1>8, <1>9, IdleStep DEF Inv

-----------------------------------------------------------------------------
(* Receiving. *)

(* The receive i of r has its message among those of the requests K.       *)
Comes(r, K, i) ==
  LET q == net.req[<<r, prog[r][i].k, 1>>] IN
  prog[r][i].k \in K /\ RequestAt(r, i) /\ q.dir = "Recv"

(* What MPI_Wait, MPI_Waitany and MPI_Waitall do to messages.              *)
Receiving(r, K) ==
  /\ prog' = prog /\ pc' = pc /\ todo' = todo /\ K \subseteq Keys
  /\ \A k \in K : net.req[<<r, k, 1>>] # Null /\ net.req[<<r, k, 1>>].done
  /\ net'.sent = net.sent /\ net'.posted = net.posted
  /\ \A a \in Ranks, k \in Keys : net'.req[<<a, k, 1>>] =
       IF a = r /\ k \in K THEN Null ELSE net.req[<<a, k, 1>>]
  /\ DOMAIN got' = Ranks /\ \A a \in Ranks : DOMAIN got'[a] = 1 .. Len(prog[a])
  /\ \A a \in Ranks : a # r => got'[a] = got[a]
  /\ \A i \in 1 .. Len(prog[r]) : prog[r][i].op = "Recv" =>
       got'[r][i] = LET q == net.req[<<r, prog[r][i].k, 1>>] IN
                    IF Comes(r, K, i) THEN Append(got[r][i], net.sent[q.ch][q.n]) ELSE got[r][i]

(* One message is put at the end, or none.                                 *)
Longer(s, A, m) == s \o [n \in 1 .. Cardinality(A) |-> m]

LEMMA OneMore ==
  ASSUME NEW S, NEW s \in Seq(S), NEW A, NEW m
  PROVE  /\ A = {} => Longer(s, A, m) = s
         /\ (\E k : A = {k}) => Longer(s, A, m) = Append(s, m)
<1>1. ASSUME A = {} PROVE Longer(s, A, m) = s
  <2>1. Cardinality(A) = 0
    BY <1>1, FS_EmptySet
  <2>2. [n \in 1 .. 0 |-> m] = <<>>
    OBVIOUS
  <2>3. s \o <<>> = s
    BY ConcatEmptySeq
  <2> QED BY <2>1, <2>2, <2>3 DEF Longer
<1>2. ASSUME NEW k, A = {k} PROVE Longer(s, A, m) = Append(s, m)
  <2>1. Cardinality(A) = 1
    BY <1>2, FS_Singleton
  <2>2. [n \in 1 .. 1 |-> m] = <<m>>
    OBVIOUS
  <2>3. s \in Seq(S \cup {m}) /\ m \in S \cup {m}
    OBVIOUS
  <2>4. Append(s, m) = s \o <<m>>
    BY <2>3, AppendIsConcat
  <2> QED BY <2>1, <2>2, <2>4 DEF Longer
<1> QED BY <1>1, <1>2

LEMMA IsReceiving ==
  ASSUME Inv, GotTypes, NEW r \in Ranks, RankInv(r), MPIWait(r)
  PROVE  \E K : Receiving(r, K)
<1>1. /\ prog' = prog /\ pc' = pc /\ todo' = todo /\ At(r, {"Wait", "WaitAny", "WaitAll"})
  BY DEF MPIWait
<1>2. Open(r) \subseteq Keys /\ \A k \in Open(r) : net.req[<<r, k, 1>>] # Null
  BY <1>1, WaitedKeys DEF Open
<1>3. PICK K \in IF prog[r][pc[r]].op = "WaitAll" THEN {Open(r)} ELSE {{k} : k \in Open(r)} :
        (\A k \in K : Over(<<r, k, 1>>)) /\ Returned(r, K)
  BY DEF MPIWait
<1>4. K \subseteq Open(r)
  BY <1>3
<1>5. K \subseteq Keys /\ \A k \in K : net.req[<<r, k, 1>>] # Null /\ net.req[<<r, k, 1>>].done
  BY <1>2, <1>3, <1>4 DEF Over
<1> DEFINE R == [h \in Handles |-> IF h \in {r} \X K \X {1} THEN Null ELSE net.req[h]]
<1>6. net' = [net EXCEPT !.req = R] /\ net \in Nets
  BY <1>3 DEF Returned, Inv, Types
<1>7. net'.req = R /\ net'.sent = net.sent /\ net'.posted = net.posted
  <2> HIDE DEF R
  <2> QED BY <1>6 DEF Nets
<1>8. ASSUME NEW a \in Ranks, NEW k \in Keys
      PROVE  net'.req[<<a, k, 1>>] = IF a = r /\ k \in K THEN Null ELSE net.req[<<a, k, 1>>]
  <2>1. <<a, k, 1>> \in Handles
    BY IsHandle
  <2>2. <<a, k, 1>> \in {r} \X K \X {1} <=> a = r /\ k \in K
    OBVIOUS
  <2> QED BY <1>7, <2>1, <2>2
<1> DEFINE arrived(i) == {k \in K : net.req[<<r, k, 1>>].at = i /\ net.req[<<r, k, 1>>].dir = "Recv"}
           message(k) == net.sent[net.req[<<r, k, 1>>].ch][net.req[<<r, k, 1>>].n]
           G == [i \in DOMAIN got[r] |->
                  got[r][i] \o [n \in 1 .. Cardinality(arrived(i)) |->
                                 message(CHOOSE k \in arrived(i) : TRUE)]]
<1>9. got' = [got EXCEPT ![r] = G]
  BY <1>3 DEF Returned
<1>10. /\ got'[r] = G /\ DOMAIN got' = Ranks /\ DOMAIN G = 1 .. Len(prog[r])
       /\ \A a \in Ranks : a # r => got'[a] = got[a]
  <2>1. DOMAIN G = 1 .. Len(prog[r])
    BY DEF GotTypes
  <2> HIDE DEF G
  <2> QED BY <1>9, <2>1 DEF GotTypes
<1>11. ASSUME NEW i \in 1 .. Len(prog[r]), prog[r][i].op = "Recv"
       PROVE  got'[r][i] = LET q == net.req[<<r, prog[r][i].k, 1>>] IN
                IF Comes(r, K, i) THEN Append(got[r][i], net.sent[q.ch][q.n]) ELSE got[r][i]
  <2>1. got[r][i] \in Seq(Messages)
    BY <1>11 DEF GotTypes
  <2>2. PICK b : b = prog[r][i].k
    OBVIOUS
  <2>3. PICK m : m = message(CHOOSE k \in arrived(i) : TRUE)
    OBVIOUS
  <2>4. PICK A : A = arrived(i)
    OBVIOUS
  <2>5. got'[r][i] = Longer(got[r][i], A, m)
    <3>1. i \in DOMAIN got[r]
      BY DEF GotTypes
    <3>2. G[i] = got[r][i] \o [n \in 1 .. Cardinality(arrived(i)) |-> message(CHOOSE k \in arrived(i) : TRUE)]
      BY <3>1
    <3> HIDE DEF G, arrived, message
    <3> QED BY <1>10, <2>3, <2>4, <3>2 DEF Longer
  <2>6. \A k \in A : k = b
    <3> SUFFICES ASSUME NEW k \in A PROVE k = b
      OBVIOUS
    <3>1. k \in K /\ k \in Keys /\ net.req[<<r, k, 1>>] # Null /\ net.req[<<r, k, 1>>].at = i
      BY <1>5, <2>4
    <3>2. KeyOK(r, k)
      BY <3>1 DEF RankInv
    <3> QED BY <2>2, <3>1, <3>2 DEF KeyOK
  <2>7. b \in A <=> Comes(r, K, i)
    BY <1>5, <2>2, <2>4 DEF Comes, RequestAt
  <2>8. CASE Comes(r, K, i)
    <3>1. A = {b}
      BY <2>6, <2>7, <2>8
    <3>2. (CHOOSE k \in arrived(i) : TRUE) = b
      <4>1. arrived(i) = {b}
        BY <2>4, <3>1
      <4> HIDE DEF arrived
      <4> QED BY <4>1
    <3>3. m = message(b)
      <4> HIDE DEF arrived, message
      <4> QED BY <2>3, <3>2
    <3>4. got'[r][i] = Append(got[r][i], m)
      <4>1. \E k : A = {k}
        BY <3>1
      <4> QED BY <2>1, <2>5, <4>1, OneMore
    <3> QED BY <2>2, <2>8, <3>3, <3>4
  <2>9. CASE ~Comes(r, K, i)
    <3>1. A = {}
      BY <2>6, <2>7, <2>9
    <3>2. got'[r][i] = got[r][i]
      BY <2>1, <2>5, <3>1, OneMore
    <3> QED BY <2>9, <3>2
  <2> QED BY <2>8, <2>9
<1>12. \A a \in Ranks : DOMAIN got'[a] = 1 .. Len(prog[a])
  <2> SUFFICES ASSUME NEW a \in Ranks PROVE DOMAIN got'[a] = 1 .. Len(prog[a])
    OBVIOUS
  <2> HIDE DEF G
  <2>1. CASE a = r
    BY <1>10, <2>1
  <2>2. CASE a # r
    BY <1>10, <2>2 DEF GotTypes
  <2> QED BY <2>1, <2>2
<1> HIDE DEF G, R, arrived, message
<1> QED BY <1>1, <1>5, <1>7, <1>8, <1>10, <1>11, <1>12 DEF Receiving

(* A message that has come is the next part of the object its receive      *)
(* stands for.                                                             *)
LEMMA ItsMessage ==
  ASSUME Inv, FlowInv, NEW r \in Ranks, NEW i \in PostsOf(r), prog[r][i].op = "Recv", i < pc[r],
         RequestAt(r, i), NEW q, q = net.req[<<r, prog[r][i].k, 1>>], q.done
  PROVE  /\ Stands(r, i) /\ q.dir = "Recv"
         /\ net.sent[q.ch][q.n] = [obj |-> ObjectOf(r, i), part |-> PostedBy(r, i)]
         /\ net.sent[q.ch][q.n] \in Messages
<1>1. Types /\ Scripts /\ i \in 1 .. Len(prog[r])
  BY DEF Inv, Types, PostsOf
<1>2. q \in Requests /\ q.ch \in Channels /\ q.n \in Nat \ {0}
  <2>1. q \in Requests
    BY <1>1, RequestIs
  <2> QED BY <2>1 DEF Requests
<1>3. RecvOK(r, i) /\ RequestOK(r, i)
  BY DEF FlowInv, LocalOK
<1>4. PICK p : p = PostedBy(r, i)
  OBVIOUS
<1>5. /\ q.dir = "Recv" /\ q.ch = Chan(r, i, p) /\ q.n = Place(RecvsOn(q.ch), i)
      /\ q.n <= Len(net.sent[q.ch]) /\ HasPart(r, i, p)
  BY <1>3, <1>4 DEF RequestOK, RecvOK
<1>6. PICK c \in Channels : c = q.ch
  BY <1>2
<1>7. c[3][2] = p /\ c[2] = r /\ i \in RecvsOn(c)
  BY <1>1, <1>5, <1>6, ItsChannel
<1>8. c[1] = prog[r][i].peer
  BY <1>5, <1>6 DEF Chan
<1>9. q.n \in 1 .. Len(net.sent[c])
  <2>1. net.sent[c] \in Seq(Messages)
    BY <1>1 DEF Types, Nets
  <2>2. Len(net.sent[c]) \in Nat
    BY <2>1, LenProperties
  <2> QED BY <1>2, <1>5, <1>6, <2>2
<1>10. PICK j \in SendsOn(c) :
         /\ Place(SendsOn(c), j) = q.n
         /\ net.sent[c][q.n] = [obj |-> prog[c[1]][j].obj, part |-> c[3][2]]
  BY <1>9 DEF FlowInv, SentOK
<1>11. Stands(r, i) /\ j = SendOf(r, i)
  <2>1. Place(SendsOn(c), j) = Place(RecvsOn(c), i)
    BY <1>5, <1>6, <1>10
  <2> QED BY <1>1, <1>7, <2>1, Matching
<1>12. ObjectOf(r, i) = prog[c[1]][j].obj
  BY <1>8, <1>11 DEF ObjectOf
<1>13. net.sent[c][q.n] \in Messages
  <2>1. PICK L \in Seq(Messages) : L = net.sent[c]
    BY <1>1 DEF Types, Nets
  <2> QED BY <1>9, <2>1, ElementOfSeq
<1> QED BY <1>4, <1>5, <1>6, <1>7, <1>10, <1>11, <1>12, <1>13

(* A receive whose message has come.                                       *)
LEMMA ComesOK ==
  ASSUME Inv, FlowInv, NEW r \in Ranks, NEW K, Receiving(r, K),
         NEW i \in PostsOf(r), prog[r][i].op = "Recv", i < pc[r], prog[r][i].k \in K,
         RequestAt(r, i)
  PROVE  PostedBy(r, i)' = PostedBy(r, i) /\ RecvOK(r, i)' /\ ~RequestAt(r, i)'
<1>1. PICK k \in Keys : k = prog[r][i].k
  BY DEF Receiving
<1>2. PICK q : q = net.req[<<r, k, 1>>]
  OBVIOUS
<1>3. /\ prog' = prog /\ pc' = pc /\ todo' = todo /\ q.done /\ k \in K
      /\ i \in 1 .. Len(prog[r]) /\ Types /\ Scripts /\ i \in Nat /\ pc[r] \in Nat
      /\ net'.req[<<r, k, 1>>] = Null
  BY <1>1, <1>2 DEF Receiving, PostsOf, Inv, Types
<1>4. ~ (i >= pc[r]) /\ ~ (i >= pc'[r])
  BY <1>3
<1>5. RecvOK(r, i)
  BY DEF FlowInv, LocalOK
<1>6. PICK m : m = [obj |-> ObjectOf(r, i), part |-> PostedBy(r, i)]
  OBVIOUS
<1>7. /\ Stands(r, i) /\ q.dir = "Recv" /\ net.sent[q.ch][q.n] = m
  BY <1>1, <1>2, <1>3, <1>6, ItsMessage
<1>8. Comes(r, K, i)
  BY <1>1, <1>2, <1>3, <1>7 DEF Comes
<1>9. got'[r][i] = Append(got[r][i], m)
  BY <1>1, <1>2, <1>3, <1>7, <1>8 DEF Receiving
<1>10. PICK s \in Seq(Messages) : s = got[r][i]
  BY <1>3 DEF FlowInv, GotTypes
<1>11. /\ Len(s) \in Nat /\ Len(Append(s, m)) = Len(s) + 1
       /\ \A n \in 1 .. Len(s) : Append(s, m)[n] = s[n]
       /\ Append(s, m)[Len(s) + 1] = m
  <2>1. s \in Seq(Messages \cup {m}) /\ m \in Messages \cup {m}
    OBVIOUS
  <2> QED BY <2>1, AppendProperties, LenProperties
<1>12. ~RequestAt(r, i)'
  BY <1>1, <1>3 DEF RequestAt
<1>13. PostedBy(r, i) = Len(s) + 1 /\ PostedBy(r, i)' = Len(s) + 1
  <2>1. PostedBy(r, i) = Len(got[r][i]) + 1
    BY <1>3, <1>4, PostedByIs
  <2>2. PostedBy(r, i)' = Len(got'[r][i]) + 0
    BY <1>3, <1>4, <1>12, PostedByIs
  <2>3. PostedBy(r, i)' = Len(Append(s, m)) + 0
    BY <1>9, <1>10, <2>2
  <2>4. PICK L \in Nat : L = Len(s)
    BY <1>11
  <2>5. PICK M : M = Len(Append(s, m))
    OBVIOUS
  <2> QED BY <1>10, <1>11, <2>1, <2>3, <2>4, <2>5
<1>14. PICK p \in Nat : p = Len(s) + 1 /\ p >= 1
  BY <1>11
<1>15. EntryAt(r, i)' <=> EntryAt(r, i)
  BY <1>3 DEF EntryAt
<1>16. \A n \in 1 .. Len(got'[r][i]) : got'[r][i][n] = [obj |-> ObjectOf(r, i), part |-> n]
  <2> SUFFICES ASSUME NEW n \in 1 .. Len(s) + 1
               PROVE  Append(s, m)[n] = [obj |-> ObjectOf(r, i), part |-> n]
    BY <1>9, <1>10, <1>11
  <2>1. CASE n \in 1 .. Len(s)
    <3>1. got[r][i][n] = [obj |-> ObjectOf(r, i), part |-> n]
      BY <1>5, <1>10, <2>1 DEF RecvOK
    <3> QED BY <1>10, <1>11, <2>1, <3>1
  <2>2. CASE n \notin 1 .. Len(s)
    <3>1. n = Len(s) + 1
      BY <1>11, <2>2
    <3> QED BY <1>6, <1>11, <1>13, <3>1
  <2> QED BY <2>1, <2>2
<1>17. HasPart(r, i, p)
  BY <1>5, <1>13, <1>14 DEF RecvOK
<1>18. ~EntryAt(r, i) => p = MessagesOf(ObjectOf(r, i))
  <2> SUFFICES ASSUME ~EntryAt(r, i) PROVE p = MessagesOf(ObjectOf(r, i))
    OBVIOUS
  <2>1. Held(<<r, k, 1>>) /\ q # Null /\ q.at = i
    BY <1>1, <1>2 DEF Inv, FirstOK, RequestAt
  <2>2. WhatOf(prog[r][i]) = "array"
    BY <1>1, <1>2, <2>1 DEF Held, EntryAt
  <2>3. MessagesOf(ObjectOf(r, i)) = 1
    BY <1>3, <1>7, <2>2, ObjectIs
  <2>4. p = 1 \/ MessagesOf(ObjectOf(r, i)) >= p
    BY <1>17 DEF HasPart
  <2> QED BY <1>14, <2>3, <2>4
<1>19. /\ Stands(r, i)' <=> Stands(r, i)
       /\ ObjectOf(r, i)' = ObjectOf(r, i)
       /\ HasPart(r, i, p)' <=> HasPart(r, i, p)
  BY <1>3, Fixed
<1>20. PostedBy(r, i)' = p
  BY <1>13, <1>14
<1>21. HasPart(r, i, PostedBy(r, i))'
  BY <1>17, <1>19, <1>20 DEF HasPart, MessagesOf
<1>22. MessagesOf(ObjectOf(r, i))' = MessagesOf(ObjectOf(r, i))
  BY <1>19 DEF MessagesOf
<1>23. EntryAt(r, i)' => todo'[r][prog'[r][i].k].state + 1 = p
  BY <1>3, <1>5, <1>13, <1>14, <1>15 DEF RecvOK
<1>24. \A n \in 1 .. Len(got'[r][i]) :
         Stands(r, i)' /\ got'[r][i][n] = [obj |-> ObjectOf(r, i)', part |-> n]
  BY <1>7, <1>16, <1>19
<1>25. RecvOK(r, i)'
  <2> HIDE DEF PostedBy, HasPart, EntryAt, RequestAt, Stands, ObjectOf, MessagesOf
  <2> QED BY <1>7, <1>14, <1>15, <1>18, <1>19, <1>20, <1>21, <1>22, <1>23, <1>24 DEF RecvOK
<1> QED BY <1>12, <1>13, <1>25

LEMMA MPIWaitStep ==
  ASSUME Inv, FlowInv, NEW r \in Ranks, RankInv(r), MPIWait(r)
  PROVE  Stepped
<1>0. Types /\ GotTypes /\ Locals
  BY DEF Inv, FlowInv, Locals
<1>1. PICK K : Receiving(r, K)
  BY <1>0, IsReceiving
<1>2. /\ prog' = prog /\ pc' = pc /\ todo' = todo /\ K \subseteq Keys
      /\ net'.sent = net.sent /\ net'.posted = net.posted
      /\ \A a \in Ranks, k \in Keys : net'.req[<<a, k, 1>>] =
           IF a = r /\ k \in K THEN Null ELSE net.req[<<a, k, 1>>]
      /\ \A a \in Ranks : a # r => got'[a] = got[a]
  BY <1>1 DEF Receiving
<1>3. \A a \in Ranks : PostsOf(a)' = PostsOf(a)
  BY <1>2 DEF PostsOf
<1>4. ASSUME NEW a \in Ranks, NEW i \in PostsOf(a)
      PROVE  /\ PostedBy(a, i)' = PostedBy(a, i) /\ LocalOK(a, i)'
             /\ i < pc'[a] /\ prog[a][i].op = "Recv" => RequestOK(a, i)'
  <2>1. LocalOK(a, i)
    BY <1>0 DEF Locals
  <2>2. PICK k \in Keys : k = prog[a][i].k
    BY <1>0, Posting DEF PostsOf, Types
  <2>3. i \in 1 .. Len(prog[a]) /\ prog[a][i].op \in {"Send", "Recv"}
    BY DEF PostsOf
  <2>4. CASE a = r /\ k \in K /\ RequestAt(r, i)
    <3>1. i < pc[r] /\ ~ (i >= pc[r]) /\ ~ (i >= pc'[r])
      <4>1. i \in 1 .. pc[r] - 1 /\ pc[r] \in Nat
        BY <2>2, <2>4 DEF Inv, Types, FirstOK, RequestAt
      <4> QED BY <1>2, <4>1
    <3>2. CASE prog[r][i].op = "Recv"
      <4>1. PostedBy(r, i)' = PostedBy(r, i) /\ RecvOK(r, i)' /\ ~RequestAt(r, i)'
        BY <1>1, <2>2, <2>4, <3>1, <3>2, ComesOK
      <4>2. LocalOK(r, i)'
        BY <1>2, <3>1, <3>2, <4>1 DEF LocalOK
      <4>3. RequestOK(r, i)'
        BY <4>1 DEF RequestOK
      <4> QED BY <2>4, <4>1, <4>2, <4>3
    <3>3. CASE prog[r][i].op = "Send"
      <4>1. EntryAt(r, i)' <=> EntryAt(r, i)
        BY <1>2 DEF EntryAt
      <4>2. PostedBy(r, i)' = PostedBy(r, i)
        <5>1. /\ PostedBy(r, i) = IF EntryAt(r, i) THEN todo[r][prog[r][i].k].state + 1
                                  ELSE MessagesOf(prog[r][i].obj)
              /\ PostedBy(r, i)' = IF EntryAt(r, i)' THEN todo'[r][prog[r][i].k].state + 1
                                   ELSE MessagesOf(prog[r][i].obj)
          BY <1>2, <3>1, <3>3, PostedByIs
        <5>2. CASE EntryAt(r, i)
          BY <1>2, <4>1, <5>1, <5>2
        <5>3. CASE ~EntryAt(r, i)
          BY <1>2, <4>1, <5>1, <5>3
        <5> QED BY <5>2, <5>3
      <4>3. LocalOK(r, i)'
        <5>1. SendState(r, i)
          BY <2>1, <2>4, <3>1, <3>3 DEF LocalOK
        <5>2. SendState(r, i)'
          BY <1>2, <4>1, <5>1 DEF SendState
        <5> QED BY <1>2, <3>1, <3>3, <5>2 DEF LocalOK
      <4> QED BY <2>4, <3>3, <4>2, <4>3
    <3> QED BY <2>3, <2>4, <3>2, <3>3
  <2>5. CASE ~ (a = r /\ k \in K /\ RequestAt(r, i))
    <3>1. prog[a][i].op = "Recv" => got'[a][i] = got[a][i]
      <4>1. CASE a = r
        <5>1. ~Comes(r, K, i)
          BY <2>2, <2>5, <4>1 DEF Comes
        <5> QED BY <1>1, <2>3, <4>1, <5>1 DEF Receiving
      <4>2. CASE a # r
        BY <1>2, <4>2
      <4> QED BY <4>1, <4>2
    <3>2. RequestAt(a, i)' => net'.req[<<a, k, 1>>] = net.req[<<a, k, 1>>]
      BY <1>2, <2>2 DEF RequestAt
    <3>3. RequestAt(a, i)' <=> RequestAt(a, i)
      <4>1. RequestAt(a, i)' => RequestAt(a, i)
        BY <1>2, <2>2, <3>2 DEF RequestAt
      <4>2. RequestAt(a, i) => net'.req[<<a, k, 1>>] = net.req[<<a, k, 1>>]
        BY <1>2, <2>2, <2>5
      <4>3. RequestAt(a, i) => RequestAt(a, i)'
        BY <1>2, <2>2, <4>2 DEF RequestAt
      <4> QED BY <4>1, <4>3
    <3>4. Same(a, i)
      BY <1>2, <3>1, <3>3 DEF Same, EntryAt
    <3>5. PostedBy(a, i)' = PostedBy(a, i) /\ LocalOK(a, i)'
      BY <1>2, <2>1, <3>4, SameStays
    <3>6. RequestStays(a, i)
      BY <2>2, <3>2, <3>3 DEF RequestStays
    <3>7. ASSUME i < pc'[a], prog[a][i].op = "Recv" PROVE RequestOK(a, i)'
      <4>1. RequestOK(a, i)
        BY <1>2, <3>7 DEF FlowInv
      <4>2. RequestAt(a, i) => net.req[<<a, prog[a][i].k, 1>>].n \in Int
               /\ net.req[<<a, prog[a][i].k, 1>>].ch \in Channels
        BY <1>0, RequestIs
      <4>3. \A c \in Channels : /\ Len(net.sent[c]) \in Int /\ Len(net'.sent[c]) \in Int
                                /\ Len(net.sent[c]) <= Len(net'.sent[c])
        <5> SUFFICES ASSUME NEW c \in Channels
                     PROVE  /\ Len(net.sent[c]) \in Int /\ net'.sent[c] = net.sent[c]
                            /\ Len(net.sent[c]) <= Len(net.sent[c])
          OBVIOUS
        <5>1. net.sent[c] \in Seq(Messages) /\ net'.sent[c] = net.sent[c]
          BY <1>0, <1>2 DEF Types, Nets
        <5>2. Len(net.sent[c]) \in Nat
          BY <5>1, LenProperties
        <5> QED BY <5>1, <5>2
      <4> QED BY <1>0, <1>2, <3>5, <3>6, <3>7, <4>1, <4>2, <4>3, RequestHolds DEF Types
    <3> QED BY <3>5, <3>7
  <2> QED BY <2>4, <2>5
<1>5. Locals'
  BY <1>3, <1>4 DEF Locals
<1>6. Quiet
  BY <1>2, <1>4 DEF Quiet
<1>7. GotTypes'
  <2>1. Messages' = Messages
    BY <1>2 DEF Messages, Sendable
  <2>2. ASSUME NEW a \in Ranks, NEW i \in 1 .. Len(prog[a]), prog[a][i].op = "Recv"
        PROVE  got'[a][i] \in Seq(Messages)
    <3>1. got[a][i] \in Seq(Messages)
      BY <1>0, <2>2 DEF GotTypes
    <3>2. CASE a = r /\ Comes(r, K, i)
      <4>1. i \in PostsOf(r)
        BY <2>2, <3>2 DEF PostsOf
      <4>2. prog[r][i].k \in Keys /\ prog[r][i].k \in K /\ RequestAt(r, i)
        BY <1>2, <3>2 DEF Comes
      <4>3. PICK q : q = net.req[<<r, prog[r][i].k, 1>>]
        OBVIOUS
      <4>4. q.done
        BY <1>1, <4>2, <4>3 DEF Receiving
      <4>5. i < pc[r]
        <5>1. i \in 1 .. pc[r] - 1 /\ pc[r] \in Nat
          BY <4>2 DEF Inv, Types, FirstOK, RequestAt
        <5> QED BY <5>1
      <4>6. net.sent[q.ch][q.n] \in Messages
        BY <2>2, <3>2, <4>1, <4>2, <4>3, <4>4, <4>5, ItsMessage
      <4>7. got'[r][i] = Append(got[r][i], net.sent[q.ch][q.n])
        BY <1>1, <2>2, <3>2, <4>3 DEF Receiving
      <4> QED BY <3>1, <3>2, <4>6, <4>7, AppendProperties
    <3>3. CASE a = r /\ ~Comes(r, K, i)
      <4>1. got'[r][i] = got[r][i]
        BY <1>1, <2>2, <3>3 DEF Receiving
      <4> QED BY <3>1, <3>3, <4>1
    <3>4. CASE a # r
      BY <1>2, <3>1, <3>4
    <3> QED BY <3>2, <3>3, <3>4
  <2>3. DOMAIN got' = Ranks /\ \A a \in Ranks : DOMAIN got'[a] = 1 .. Len(prog[a])
    BY <1>1 DEF Receiving
  <2> QED BY <1>2, <2>1, <2>2, <2>3 DEF GotTypes
<1> QED BY <1>5, <1>6, <1>7 DEF Stepped

(* Every step.                                                             *)
LEMMA NextStep ==
  ASSUME Inv, \A a \in Ranks : RankInv(a), FlowInv, [Reused]_vars, [Next]_vars
  PROVE  Stepped
<1>1. CASE UNCHANGED vars
  BY <1>1, StutterStep
<1>2. ASSUME Reused, NEW r \in Ranks, Rank(r) PROVE Stepped
  <2>1. GotTypes /\ Locals
    BY DEF FlowInv, Locals
  <2> QED BY <1>2, <2>1, PostStep, MPIWaitStep, DoOnWaitStep, EndWaitStep DEF Rank
<1>3. ASSUME NEW h \in Handles, Complete(h) \/ Buffer(h) PROVE Stepped
  BY <1>3, CompleteStep
<1> QED BY <1>1, <1>2, <1>3 DEF Next, Done

LEMMA NextFlow ==
  ASSUME Inv, Inv', \A a \in Ranks : RankInv(a), FlowInv, [Reused]_vars, [Next]_vars, PartsInOrder'
  PROVE  FlowInv'
<1>1. Stepped /\ prog' = prog /\ Types /\ Types'
  BY NextStep, ProgKept DEF Inv
<1>2. CASE Quiet
  BY <1>1, <1>2, QuietFlow DEF Stepped
<1>3. CASE \E r \in Ranks : \E i \in PostsOf(r) : Moved(r, i)
  BY <1>1, <1>3, MovedFlow DEF Stepped
<1> QED BY <1>1, <1>2, <1>3 DEF Stepped

(* Nothing is posted or received at first.                                 *)
LEMMA InitFlow ==
  ASSUME Init
  PROVE  FlowInv
<1>1. Types
  BY InitInv DEF Inv
<1>2. /\ pc = [r \in Ranks |-> 1]
      /\ got = [r \in Ranks |-> [i \in 1 .. Len(prog[r]) |-> <<>>]]
      /\ \A c \in Channels : net.sent[c] = <<>> /\ net.posted[c] = 0
  BY DEF Init
<1>3. GotTypes
  BY <1>2, EmptySeq DEF GotTypes
<1>4. ASSUME NEW r \in Ranks, NEW i \in PostsOf(r)
      PROVE  /\ i >= pc[r] /\ ~ (i < pc[r]) /\ PostedBy(r, i) = 0 /\ got[r][i] = <<>>
  <2>1. i \in 1 .. Len(prog[r]) /\ pc[r] = 1
    BY <1>2 DEF PostsOf
  <2>2. i >= pc[r] /\ ~ (i < pc[r])
    BY <2>1
  <2> QED BY <1>1, <1>2, <1>3, <2>1, <2>2, PostedByType
<1>5. ASSUME NEW r \in Ranks, NEW i \in PostsOf(r)
      PROVE  LocalOK(r, i) /\ (i < pc[r] /\ prog[r][i].op = "Recv" => RequestOK(r, i))
  BY <1>4 DEF LocalOK
<1>6. ASSUME NEW r \in Ranks, NEW S, NEW N, Within(S, N), NEW m \in 1 .. 4, S \subseteq PostsOf(r)
      PROVE  Filled(S, PostedOn(r, S, m), 0)
  <2> SUFFICES ASSUME NEW j \in S PROVE j \in PostedOn(r, S, m) <=> Place(S, j) <= 0
    BY DEF Filled
  <2>1. Place(S, j) \in Nat /\ Place(S, j) >= 1
    BY <1>6, PlaceType, WithinIs
  <2>2. PostedBy(r, j) = 0
    BY <1>4, <1>6
  <2>3. ~ (0 >= m)
    OBVIOUS
  <2>4. j \notin PostedOn(r, S, m)
    BY <2>2, <2>3 DEF PostedOn
  <2> QED BY <2>1, <2>4
<1>7. ASSUME NEW c \in Channels PROVE SentOK(c) /\ AskedOK(c)
  <2>1. /\ c[1] \in Ranks /\ c[2] \in Ranks /\ c[3][2] \in 1 .. 4
        /\ Within(SendsOn(c), Len(prog[c[1]])) /\ Within(RecvsOn(c), Len(prog[c[2]]))
    BY <1>1, ChannelIs, OnChannel DEF Types
  <2>2. SendsOn(c) \subseteq PostsOf(c[1]) /\ RecvsOn(c) \subseteq PostsOf(c[2])
    BY DEF SendsOn, RecvsOn, Postings, PostsOf
  <2>3. Filled(SendsOn(c), PostedOn(c[1], SendsOn(c), c[3][2]), 0)
    BY <1>6, <2>1, <2>2
  <2>4. Filled(RecvsOn(c), PostedOn(c[2], RecvsOn(c), c[3][2]), 0)
    BY <1>6, <2>1, <2>2
  <2>5. Len(net.sent[c]) = 0 /\ net.posted[c] = 0
    BY <1>2, EmptySeq
  <2>6. \A n \in 1 .. Len(net.sent[c]) : FALSE
    BY <2>5
  <2> QED BY <2>3, <2>4, <2>5, <2>6 DEF SentOK, AskedOK
<1> QED BY <1>3, <1>5, <1>7 DEF FlowInv

(* What has ended has received all of its object.                          *)
LEMMA FlowImplies ==
  ASSUME Inv, FlowInv
  PROVE  RecvIsSent
<1> SUFFICES ASSUME NEW r \in Ranks, NEW i \in Receives(r), Ended(r, i)
             PROVE  got[r][i] = [n \in 1 .. MessagesOf(ObjectOf(r, i)) |->
                                  [obj |-> ObjectOf(r, i), part |-> n]]
  BY DEF RecvIsSent
<1>1. /\ i \in 1 .. Len(prog[r]) /\ prog[r][i].op = "Recv" /\ i \in PostsOf(r) /\ i < pc[r]
      /\ ~ (i >= pc[r])
  <2>1. pc[r] \in Nat /\ pc[r] <= Len(prog[r]) + 1 /\ Len(prog[r]) \in Nat
    BY DEF Inv, Types, Scripts, IsScript
  <2> QED BY <2>1 DEF Receives, PostsOf
<1>2. PICK k \in Keys : k = prog[r][i].k
  BY <1>1, Posting DEF Inv, Types
<1>3. ~EntryAt(r, i) /\ ~RequestAt(r, i)
  <2>1. 1 \in {1, 2}
    OBVIOUS
  <2>2. /\ todo[r][k] # Null => todo[r][k].at # i
        /\ net.req[<<r, k, 1>>] # Null => net.req[<<r, k, 1>>].at # i
    BY <2>1 DEF Ended
  <2> QED BY <1>2, <2>2 DEF EntryAt, RequestAt
<1>4. RecvOK(r, i)
  BY <1>1 DEF FlowInv, LocalOK
<1>5. PICK o : o = ObjectOf(r, i)
  OBVIOUS
<1>6. PICK s \in Seq(Messages) : s = got[r][i]
  BY <1>1 DEF FlowInv, GotTypes
<1>7. /\ PostedBy(r, i) = MessagesOf(o)
      /\ \A n \in 1 .. Len(s) : s[n] = [obj |-> o, part |-> n]
  BY <1>3, <1>4, <1>5, <1>6 DEF RecvOK
<1>8. Len(s) \in Nat /\ s \in [1 .. Len(s) -> Messages]
  BY LenProperties
<1>9. PostedBy(r, i) = Len(s)
  <2>1. PostedBy(r, i) = IF i >= pc[r] THEN 0
          ELSE IF prog[r][i].op = "Recv" THEN Len(got[r][i]) + (IF RequestAt(r, i) THEN 1 ELSE 0)
          ELSE IF EntryAt(r, i) THEN todo[r][prog[r][i].k].state + 1 ELSE MessagesOf(prog[r][i].obj)
    BY DEF PostedBy, EntryAt, RequestAt
  <2>2. PostedBy(r, i) = Len(got[r][i]) + 0
    BY <1>1, <1>3, <2>1
  <2> QED BY <1>6, <1>8, <2>2
<1>10. MessagesOf(o) = Len(s)
  BY <1>7, <1>9
<1>11. s = [n \in 1 .. Len(s) |-> [obj |-> o, part |-> n]]
  BY <1>7, <1>8
<1> QED BY <1>5, <1>6, <1>10, <1>11

(* The scripts in which an object of more than one message is waited for   *)
(* before the next of its kind for the same rank, and the same way, is     *)
(* posted, unless its messages are all posted at once, as those of a mesh  *)
(* sent by Isend are.                                                      *)
InTurn(f) ==
  \A j \in 1 .. Len(f) : \A i \in 1 .. j - 1 :
    f[i].op \in {"Send", "Recv"} /\ f[j].op = f[i].op /\ f[j].peer = f[i].peer
      /\ WhatOf(f[j]) = WhatOf(f[i])
      => \/ WhatOf(f[i]) = "array"
         \/ WhatOf(f[i]) = "mesh" /\ f[i].op = "Send" /\ ~f[i].blocking
         \/ \E w \in i + 1 .. j - 1 : WaitedFor(f, i, w)

(* The messages of an object that is sent are all posted when nothing is   *)
(* left to do for it.                                                      *)
LEMMA SentAll ==
  ASSUME Types, GotTypes, NEW r \in Ranks, NEW i \in PostsOf(r), prog[r][i].op = "Send",
         i < pc[r], ~ (i >= pc[r])
  PROVE  /\ Stands(r, i)
         /\ ~EntryAt(r, i) => PostedBy(r, i) = MessagesOf(ObjectOf(r, i))
         /\ EntryAt(r, i) => PostedBy(r, i) = todo[r][prog[r][i].k].state + 1
<1>1. Stands(r, i) /\ ObjectOf(r, i) = prog[r][i].obj
  BY DEF Stands, ObjectOf
<1>2. PostedBy(r, i) = IF i >= pc[r] THEN 0
        ELSE IF prog[r][i].op = "Recv" THEN Len(got[r][i]) + (IF RequestAt(r, i) THEN 1 ELSE 0)
        ELSE IF EntryAt(r, i) THEN todo[r][prog[r][i].k].state + 1 ELSE MessagesOf(prog[r][i].obj)
  BY DEF PostedBy, EntryAt, RequestAt
<1>3. PostedBy(r, i) = IF EntryAt(r, i) THEN todo[r][prog[r][i].k].state + 1
                       ELSE MessagesOf(prog[r][i].obj)
  <2> HIDE DEF PostedBy, EntryAt, RequestAt
  <2> QED BY <1>2
<1>4. CASE EntryAt(r, i)
  BY <1>1, <1>3, <1>4
<1>5. CASE ~EntryAt(r, i)
  BY <1>1, <1>3, <1>5
<1> QED BY <1>4, <1>5

LEMMA TurnsTaken ==
  ASSUME Inv, \A r \in Ranks : RankInv(r) /\ InTurn(prog[r]), GotTypes, Locals
  PROVE  PartsInOrder
<1> SUFFICES ASSUME NEW r \in Ranks, NEW j \in 1 .. pc[r] - 1, prog[r][j].op \in {"Send", "Recv"},
                    NEW i \in Alike(r, j), i < j
             PROVE  \/ PostedBy(r, i) >= PostedBy(r, j)
                    \/ Stands(r, i) /\ PostedBy(r, i) = MessagesOf(ObjectOf(r, i))
  BY DEF PartsInOrder
<1>0. Types /\ Scripts /\ pc[r] \in Nat /\ pc[r] <= Len(prog[r]) + 1 /\ Len(prog[r]) \in Nat
  BY DEF Inv, Types, Scripts, IsScript
<1>1. /\ i \in 1 .. Len(prog[r]) /\ j \in 1 .. Len(prog[r]) /\ i \in 1 .. j - 1
      /\ i < pc[r] /\ j < pc[r] /\ ~ (i >= pc[r]) /\ ~ (j >= pc[r])
  BY <1>0 DEF Alike, Postings
<1>2. /\ prog[r][i].op \in {"Send", "Recv"} /\ prog[r][j].op = prog[r][i].op
      /\ prog[r][j].peer = prog[r][i].peer /\ WhatOf(prog[r][j]) = WhatOf(prog[r][i])
  BY DEF Alike, Postings
<1>3. /\ i \in PostsOf(r) /\ j \in PostsOf(r)
  BY <1>1, <1>2 DEF PostsOf
<1>4. PICK k \in Keys : k = prog[r][i].k
  BY <1>0, <1>1, <1>2, Posting
<1>5. LocalOK(r, i) /\ LocalOK(r, j)
  BY <1>3 DEF Locals
<1>6. PostedBy(r, i) \in Nat /\ PostedBy(r, j) \in Nat
  BY <1>0, <1>3, PostedByType
<1>7. CASE WhatOf(prog[r][i]) = "array"
  <2>1. CASE prog[r][i].op = "Send"
    <3>1. ~EntryAt(r, i)
      BY <1>4, <1>7 DEF Inv, EntryOK, EntryAt
    <3> QED BY <1>0, <1>1, <1>3, <2>1, <3>1, SentAll
  <2>2. CASE prog[r][i].op = "Recv"
    <3>1. RecvOK(r, i) /\ RecvOK(r, j)
      BY <1>1, <1>2, <1>5, <2>2 DEF LocalOK
    <3>2. PostedBy(r, i) >= 1
      BY <3>1 DEF RecvOK
    <3>3. PICK p \in Nat : p = PostedBy(r, j)
      BY <1>6
    <3>4. p = 1 \/ (Stands(r, j) /\ MessagesOf(ObjectOf(r, j)) >= p)
      BY <3>1, <3>3 DEF RecvOK, HasPart
    <3>5. p <= 1
      <4>1. CASE p = 1
        BY <4>1
      <4>2. CASE Stands(r, j) /\ MessagesOf(ObjectOf(r, j)) >= p
        <5>1. MessagesOf(ObjectOf(r, j)) = 1
          BY <1>0, <1>2, <1>3, <1>7, <4>2, ObjectIs
        <5> QED BY <4>2, <5>1
      <4> QED BY <3>4, <4>1, <4>2
    <3>6. PICK q \in Nat : q = PostedBy(r, i)
      BY <1>6
    <3> QED BY <3>2, <3>3, <3>5, <3>6
  <2> QED BY <1>2, <2>1, <2>2
<1>8. CASE WhatOf(prog[r][i]) = "mesh" /\ prog[r][i].op = "Send" /\ ~prog[r][i].blocking
  <2>1. Stands(r, i) /\ ObjectOf(r, i) = prog[r][i].obj /\ prog[r][i].obj.what = "mesh"
    BY <1>8 DEF Stands, ObjectOf, WhatOf
  <2>2. MessagesOf(ObjectOf(r, i)) = IF prog[r][i].obj.parts = 2 THEN 2 ELSE 1
    BY <1>0, <1>3, <2>1, ObjectIs
  <2>3. CASE EntryAt(r, i)
    <3>1. PICK s : s = todo[r][k].state
      OBVIOUS
    <3>2. (s = 0 /\ prog[r][i].obj.parts # 2) \/ (s = 1 /\ prog[r][i].obj.parts = 2)
      <4>1. SendState(r, i)
        BY <1>1, <1>5, <1>8 DEF LocalOK
      <4> QED BY <1>4, <1>8, <2>1, <2>3, <3>1, <4>1 DEF SendState
    <3>3. PostedBy(r, i) = s + 1
      BY <1>0, <1>1, <1>3, <1>4, <1>8, <2>3, <3>1, SentAll
    <3> QED BY <2>1, <2>2, <3>2, <3>3
  <2>4. CASE ~EntryAt(r, i)
    BY <1>0, <1>1, <1>3, <1>8, <2>4, SentAll
  <2> QED BY <2>3, <2>4
<1>9. CASE \E w \in i + 1 .. j - 1 : WaitedFor(prog[r], i, w)
  <2>1. PICK w \in i + 1 .. j - 1 : WaitedFor(prog[r], i, w)
    BY <1>9
  <2>2. w \in 1 .. pc[r] - 1 /\ i \in 1 .. w - 1
    BY <1>0, <1>1, <2>1
  <2>3. Ended(r, i)
    BY <2>1, <2>2 DEF RankInv, EndedOK
  <2>4. ~EntryAt(r, i) /\ ~RequestAt(r, i)
    <3>1. 1 \in {1, 2}
      OBVIOUS
    <3>2. /\ todo[r][k] # Null => todo[r][k].at # i
          /\ net.req[<<r, k, 1>>] # Null => net.req[<<r, k, 1>>].at # i
      BY <2>3, <3>1 DEF Ended
    <3> QED BY <1>4, <3>2 DEF EntryAt, RequestAt
  <2>5. CASE prog[r][i].op = "Send"
    BY <1>0, <1>1, <1>3, <2>4, <2>5, SentAll
  <2>6. CASE prog[r][i].op = "Recv"
    <3>1. RecvOK(r, i)
      BY <1>1, <1>5, <2>6 DEF LocalOK
    <3> QED BY <2>4, <3>1 DEF RecvOK
  <2> QED BY <1>2, <2>5, <2>6
<1>10. InTurn(prog[r])
  OBVIOUS
<1>11. \/ WhatOf(prog[r][i]) = "array"
       \/ WhatOf(prog[r][i]) = "mesh" /\ prog[r][i].op = "Send" /\ ~prog[r][i].blocking
       \/ \E w \in i + 1 .. j - 1 : WaitedFor(prog[r], i, w)
  BY <1>1, <1>2, <1>10 DEF InTurn
<1> QED BY <1>7, <1>8, <1>9, <1>11

-----------------------------------------------------------------------------
(* The theorems. *)

(* The types of the run, and the memory. *)
LEMMA InvImplies ==
  ASSUME Inv
  PROVE  BufferAlive
<1>1. ASSUME NEW h \in Handles, net.req[h] # Null
      PROVE  /\ net.req[h] \in Requests /\ net.req[h].at \in 1 .. pc[h[1]]
             /\ Held(h)
  <2>1. PICK r \in Ranks, k \in Keys, s \in {1, 2} : h = <<r, k, s>>
    BY HandleIs
  <2>2. net.req[h] \in Requests
    BY <1>1 DEF Inv, Types, Nets
  <2>3. EntryOK(r, k) /\ FirstOK(r, k) /\ SecondOK(r, k) /\ pc[r] \in Nat
    BY DEF Inv, Types
  <2>4. h[1] = r /\ h[2] = k
    BY <2>1
  <2>5. CASE s = 1
    BY <1>1, <2>1, <2>2, <2>3, <2>4, <2>5 DEF FirstOK
  <2>6. CASE s = 2
    BY <1>1, <2>1, <2>2, <2>3, <2>4, <2>6 DEF SecondOK, EntryOK, Held
  <2> QED BY <2>1, <2>2, <2>5, <2>6
<1>2. ASSUME NEW h \in Handles, net.req[h] # Null
      PROVE  net.req[h] \in [dir : {"Send", "Recv"}, at : 1 .. pc[h[1]], ch : Channels,
                             n : Nat \ {0}, done : BOOLEAN]
  BY <1>1, <1>2 DEF Requests
<1>3. ASSUME NEW r \in Ranks, NEW k \in Keys, todo[r][k] # Null
      PROVE  todo[r][k] \in [dir : {"Send", "Recv"}, at : 1 .. pc[r], state : 0 .. 3]
  <2>1. todo[r][k] \in Entries /\ todo[r][k].at \in 1 .. pc[r] - 1 /\ pc[r] \in Nat
    BY <1>3 DEF Inv, Types, EntryOK
  <2> QED BY <2>1 DEF Entries
<1>4. \A r \in Ranks : pc[r] \in 1 .. Len(prog[r]) + 1
  BY DEF Inv, Types, Scripts, IsScript
<1>5. \A r \in Ranks : waits[r].queue \in Seq(Keys) /\ waits[r].round \in Nat
  BY QueueKeys DEF Waits
<1>6. TypeOK
  BY <1>2, <1>3, <1>4, <1>5 DEF TypeOK
<1>7. \A h \in Handles : Active(h) => Held(h)
  BY <1>1 DEF Active
<1> QED BY <1>6, <1>7 DEF BufferAlive, Held

(* Whatever the scripts, as long as they use no request again before it is *)
(* over, and whatever MPI does: an object whose memory a message still     *)
(* uses is in the table, so that nobody has deleted it.  For a large mesh  *)
(* that is sent this is what the wait for rqSecond in Do is for.           *)
THEOREM BufferAliveCorrect == Spec /\ ReusedWhenFree => []BufferAlive
<1>1. Init => Inv
  BY InitInv
<1>2. Inv /\ [Next]_vars /\ [Reused]_vars => Inv'
  BY NextInv
<1>3. Inv => BufferAlive
  BY InvImplies
<1> QED BY <1>1, <1>2, <1>3, PTL DEF Spec, ReusedWhenFree, Reused

(* Whatever the scripts, as long as they use no request again before it is *)
(* over and post no matrix under a request that a later mpiWaitAll names:  *)
(* after the two rounds of mpiWaitAll nothing is left to do of an array or *)
(* a mesh posted under its requests, although a large mesh has a second    *)
(* part, which is asked for when the first has come.  With a matrix, which *)
(* has four messages, it is not so: two rounds do not see the last two.    *)
THEOREM WaitAllFinishesCorrect ==
  ASSUME \A f \in Programs, r \in Ranks : NoMatrixInAll(f[r])
  PROVE  Spec /\ ReusedWhenFree => []WaitAllFinishes
<1> DEFINE AllInv == Inv /\ \A r \in Ranks : RankInv(r) /\ NoMatrixInAll(prog[r])
<1>1. Init => AllInv
  BY InitInv, InitRank DEF Init
<1>2. AllInv /\ [Next]_vars /\ [Reused]_vars => AllInv'
  <2>1. [Next]_vars => prog' = prog
    BY ProgKept
  <2> QED BY <2>1, NextInv, NextRank
<1>3. AllInv => WaitAllFinishes
  BY AllFinished
<1> HIDE DEF AllInv
<1> QED BY <1>1, <1>2, <1>3, PTL DEF Spec, ReusedWhenFree, Reused

(* When a script waits for what it has posted under a request before it    *)
(* posts under it again, by mpiWait, by mpiWaitAny of this request alone,  *)
(* or by mpiWaitAll if it is no matrix, then the request is free again     *)
(* each time: null, with no entry in the table, however many messages the  *)
(* object was and whatever MPI does.                                       *)
THEOREM ReusedWhenFreeCorrect ==
  ASSUME \A f \in Programs, r \in Ranks : WaitedBetween(f[r])
  PROVE  Spec => ReusedWhenFree
<1> DEFINE AllInv == Inv /\ \A r \in Ranks : RankInv(r) /\ WaitedBetween(prog[r])
<1>1. Init => AllInv
  BY InitInv, InitRank DEF Init
<1>2. AllInv => Reused
  BY FreeAtPost
<1>3. AllInv /\ [Next]_vars => AllInv'
  <2>1. [Next]_vars => prog' = prog
    BY ProgKept
  <2> QED BY <1>2, <2>1, NextInv, NextRank
<1> HIDE DEF AllInv
<1> QED BY <1>1, <1>2, <1>3, PTL DEF Spec, ReusedWhenFree, Reused

(* The two together: for scripts that wait in this way the memory of every *)
(* message MPI may still use is in the table, with no other condition.     *)
THEOREM WaitedIsAlive ==
  ASSUME \A f \in Programs, r \in Ranks : WaitedBetween(f[r])
  PROVE  Spec => []BufferAlive
BY BufferAliveCorrect, ReusedWhenFreeCorrect, PTL

(* Whatever the scripts and whatever MPI does, as long as no request is    *)
(* used again before it is over, and no instruction is ahead, in the       *)
(* messages it has posted, of an earlier one of the same kind with the     *)
(* same rank: what a rank receives is what the other sent, the n-th object *)
(* of a kind the n-th one, with all its parts in order.  This is what the  *)
(* tags of the parts and the order in which MPI matches are for.           *)
THEOREM RecvIsSentCorrect == Spec /\ ReusedWhenFree /\ []PartsInOrder => []RecvIsSent
<1> DEFINE AllInv == Inv /\ FlowInv /\ \A r \in Ranks : RankInv(r)
<1>1. Init => AllInv
  BY InitInv, InitRank, InitFlow
<1>2. AllInv /\ [Next]_vars /\ [Reused]_vars /\ PartsInOrder' => AllInv'
  BY NextInv, NextRank, NextFlow
<1>3. AllInv => RecvIsSent
  BY FlowImplies
<1> HIDE DEF AllInv
<1> QED BY <1>1, <1>2, <1>3, PTL DEF Spec, ReusedWhenFree, Reused

(* The two conditions are met by the scripts that wait for what they have  *)
(* posted under a request before they post under it again, and for an      *)
(* object before the next of its kind for the same rank unless all its     *)
(* messages are posted at once: what these receive is what was sent, with  *)
(* no other condition.                                                     *)
THEOREM InTurnIsReceived ==
  ASSUME \A f \in Programs, r \in Ranks : WaitedBetween(f[r]) /\ InTurn(f[r])
  PROVE  Spec => []RecvIsSent
<1> DEFINE Turns == \A r \in Ranks : InTurn(prog[r])
           Static == Inv /\ (\A r \in Ranks : RankInv(r)) /\ Turns
           Ready == Static /\ GotTypes /\ Locals
           AllInv == Static /\ FlowInv
<1>1. Init => AllInv
  BY InitInv, InitRank, InitFlow DEF Init
<1>2. AllInv /\ [Next]_vars /\ [Reused]_vars => Ready'
  <2> SUFFICES ASSUME AllInv, [Next]_vars, [Reused]_vars PROVE Ready'
    OBVIOUS
  <2>1. prog' = prog
    BY ProgKept
  <2>2. Inv' /\ \A r \in Ranks : RankInv(r)'
    BY NextInv, NextRank
  <2>3. Turns'
    BY <2>1
  <2>4. GotTypes' /\ Locals'
    BY NextStep DEF Stepped
  <2> QED BY <2>2, <2>3, <2>4
<1>3. Ready => PartsInOrder
  BY TurnsTaken
<1>4. AllInv /\ [Next]_vars /\ [Reused]_vars /\ Ready' /\ PartsInOrder' => AllInv'
  BY NextFlow
<1>5. AllInv => RecvIsSent
  BY FlowImplies
<1>6. Spec => ReusedWhenFree
  BY ReusedWhenFreeCorrect
<1> HIDE DEF AllInv, Ready
<1> QED BY <1>1, <1>2, <1>3, <1>4, <1>5, <1>6, PTL DEF Spec, ReusedWhenFree, Reused
================================================================================
