------------------------------ MODULE MPIExchange ------------------------------
(***************************************************************************)
(* Isend, Irecv and mpiWait of meshes, matrices and arrays between the     *)
(* ranks of a script (mpi/parallelempi.cpp).                               *)
(*                                                                         *)
(* An array is one message.  A mesh is a first part of at most sizempibuf  *)
(* bytes and, when it is larger, a second part; a matrix is four messages, *)
(* one after the other.  What is left to do when a message has gone or     *)
(* come is kept in a table under the address of the request, and done by   *)
(* whichever of mpiWait, mpiWaitAny and mpiWaitAll sees it completed.      *)
(*                                                                         *)
(* Each rank runs a short script.  MPI itself is external, and modelled by *)
(* the two rules its users count on: the sends of a rank to another with   *)
(* one tag match the receives of the other in the order both were posted,  *)
(* and requests complete in any order.                                     *)
(***************************************************************************)
EXTENDS Integers, Sequences, FiniteSets

CONSTANTS
  Ranks,     (* the processes                                               *)
  Keys,      (* the requests of a process: the indices of an mpiRequest[int]*)
  Programs,  (* the scripts to run: functions from Ranks to sequences       *)
  Null       (* MPI_REQUEST_NULL, and no entry in a table                   *)

ASSUME KeysAssumption == Keys \subseteq Nat \ {0} /\ IsFiniteSet(Keys)

(* A script: blocking or not, a send and a receive name another rank, and   *)
(* keep their request under a key.  An array is one part, a mesh one or    *)
(* two, or none when it is null, and a matrix four.                        *)
Kinds == {"array", "mesh", "matrix"}
Parts == [array |-> {1}, mesh |-> 0 .. 2, matrix |-> {4}]
IsScript(s, r) ==
  /\ Len(s) \in Nat
  /\ DOMAIN s = 1 .. Len(s)
  /\ \A i \in DOMAIN s :
       \/ /\ s[i].op = "Send" /\ s[i].k \in Keys /\ s[i].peer \in Ranks \ {r}
          /\ s[i].obj.what \in Kinds /\ s[i].obj.parts \in Parts[s[i].obj.what]
          /\ s[i].blocking \in BOOLEAN
       \/ /\ s[i].op = "Recv" /\ s[i].k \in Keys /\ s[i].peer \in Ranks \ {r}
          /\ s[i].what \in Kinds
       \/ s[i].op \in {"Wait", "WaitAny", "WaitAll"} /\ s[i].ks \subseteq Keys

ASSUME ProgramsAssumption == \A f \in Programs, r \in Ranks : IsScript(f[r], r)

VARIABLES
  prog,    (* the script of each rank                                       *)
  pc,      (* the instruction each rank is at                               *)
  net,     (* net.req[<<r,k,h>>]: request k of rank r for h = 1, and        *)
           (* rqSecond of the mesh it sends under k for h = 2;              *)
           (* net.sent: the messages sent so far on each channel;           *)
           (* net.posted: the number of receives posted on each channel     *)
  todo,    (* ToDoOnWaitMPI_Request of each rank                            *)
  got,     (* got[r][i]: the messages instruction i of rank r has received  *)
  waits    (* where each rank is in its wait: the requests found completed  *)
           (* and not yet treated, the rounds of mpiWaitAll, and the index  *)
           (* mpiWaitAny found                                              *)

vars == <<prog, pc, net, todo, got, waits>>

Handles == Ranks \X Keys \X {1, 2}

(* Mutant of Tag: all the messages of an object have the same tag. *)
Tag_NoOffset(what, part) == <<what, 1>>

(* The tag of a message: MPI_TAG<T>::TAG plus its place in the object. *)
Tag(what, part) == <<what, part>>

Tags == {<<"array", 1>>} \cup ({"mesh"} \X (1 .. 2)) \cup ({"matrix"} \X (1 .. 4))

(* Rank, peer and tag. *)
Channels == {c \in Ranks \X Ranks \X Tags : c[1] # c[2]}

(* Null is no entry of the table and no request. *)
ASSUME NullAssumption ==
  /\ Null \notin [dir : {"Send", "Recv"}, at : Nat, state : 0 .. 3]
  /\ Null \notin [dir : {"Send", "Recv"}, at : Nat, ch : Channels, n : Nat, done : BOOLEAN]

NotWaiting == [queue |-> <<>>, round |-> 0, index |-> Null]

Init ==
  /\ prog \in Programs
  /\ pc = [r \in Ranks |-> 1]
  /\ net = [req |-> [h \in Handles |-> Null],
            sent |-> [c \in Channels |-> <<>>],
            posted |-> [c \in Channels |-> 0]]
  /\ todo = [r \in Ranks |-> [k \in Keys |-> Null]]
  /\ got = [r \in Ranks |-> [i \in 1 .. Len(prog[r]) |-> <<>>]]
  /\ waits = [r \in Ranks |-> NotWaiting]

-----------------------------------------------------------------------------
(* MPI. *)

(* MPI_Isend of a message of obj, for instruction at of the rank of h. *)
PostSend(g, h, at, obj, part) ==
  LET c == <<h[1], prog[h[1]][at].peer, Tag(obj.what, part)>> IN
  [g EXCEPT !.req[h] = [dir |-> "Send", at |-> at, ch |-> c,
                        n |-> Len(g.sent[c]) + 1, done |-> FALSE],
            !.sent[c] = Append(@, [obj |-> obj, part |-> part])]

(* MPI_Irecv *)
PostRecv(g, h, at, what, part) ==
  LET c == <<prog[h[1]][at].peer, h[1], Tag(what, part)>> IN
  [g EXCEPT !.req[h] = [dir |-> "Recv", at |-> at, ch |-> c,
                        n |-> g.posted[c] + 1, done |-> FALSE],
            !.posted[c] = @ + 1]

Active(h)  == net.req[h] # Null /\ ~net.req[h].done
Matched(q) == q.n <= Len(net.sent[q.ch]) /\ q.n <= net.posted[q.ch]
Over(h)    == net.req[h] # Null => net.req[h].done

Complete(h) ==
  /\ Active(h) /\ Matched(net.req[h])
  /\ net' = [net EXCEPT !.req[h].done = TRUE]
  /\ UNCHANGED <<prog, pc, todo, got, waits>>

(* MPI may keep a copy of a message that nobody receives yet. *)
Buffer(h) ==
  /\ Active(h) /\ net.req[h].dir = "Send" /\ ~Matched(net.req[h])
  /\ net' = [net EXCEPT !.req[h].done = TRUE]
  /\ UNCHANGED <<prog, pc, todo, got, waits>>

-----------------------------------------------------------------------------
(* Posting. *)

At(r, ops) == pc[r] <= Len(prog[r]) /\ prog[r][pc[r]].op \in ops

(* MPIrank::Send: WSend for an array or a null mesh, else SendWMeshd or    *)
(* SendWMatd.  The constructor of SendWMeshd posts both parts of a large   *)
(* mesh; in a blocking send it posts the second when the first has gone,   *)
(* which SendMesh does here.  A blocking send is followed by a wait.       *)
Send(r) ==
  LET x     == prog[r][pc[r]]
      first == PostSend(net, <<r, x.k, 1>>, pc[r], x.obj, 1)
      both  == x.obj.what = "mesh" /\ x.obj.parts = 2 /\ ~x.blocking
  IN  /\ net' = IF both THEN PostSend(first, <<r, x.k, 2>>, pc[r], x.obj, 2) ELSE first
      /\ todo' = [todo EXCEPT ![r][x.k] =
           IF x.obj.what = "array" \/ x.obj.parts = 0 THEN Null
           ELSE [dir |-> "Send", at |-> pc[r], state |-> IF both THEN 1 ELSE 0]]

(* MPIrank::Recv *)
Recv(r) ==
  LET x == prog[r][pc[r]] IN
  /\ net' = PostRecv(net, <<r, x.k, 1>>, pc[r], x.what, 1)
  /\ todo' = [todo EXCEPT ![r][x.k] =
       IF x.what = "array" THEN Null ELSE [dir |-> "Recv", at |-> pc[r], state |-> 0]]

Post(r) ==
  /\ \/ At(r, {"Send"}) /\ Send(r)
     \/ At(r, {"Recv"}) /\ Recv(r)
  /\ pc' = [pc EXCEPT ![r] = @ + 1]
  /\ UNCHANGED <<prog, got, waits>>

-----------------------------------------------------------------------------
(* What is done when a request is completed: DoOnWaitMPIRequest.           *)

(* Do returned false: the exchange object is deleted, its entry erased. *)
Finished(r, k) == [todo EXCEPT ![r][k] = Null]

(* Mutant of SendMesh: Do does not wait for rqSecond. *)
SendMesh_NoWait(r, k) ==
  /\ todo' = Finished(r, k)
  /\ UNCHANGED net

(* SendWMeshd::Do, which waits for rqSecond. *)
SendMesh(r, k) ==
  LET x == todo[r][k] IN
  IF x.state = 0 /\ prog[r][x.at].obj.parts = 2
  THEN /\ net' = PostSend(net, <<r, k, 2>>, x.at, prog[r][x.at].obj, 2)
       /\ todo' = [todo EXCEPT ![r][k].state = 1]
  ELSE /\ Over(<<r, k, 2>>)
       /\ net' = [net EXCEPT !.req[<<r, k, 2>>] = Null]
       /\ todo' = Finished(r, k)

(* Mutant of RecvMesh: the second part is asked for whatever the state. *)
RecvMesh_NoState(r, k) ==
  LET x == todo[r][k] IN
  IF Head(got[r][x.at]).obj.parts = 2
  THEN /\ net' = PostRecv(net, <<r, k, 1>>, x.at, "mesh", 2)
       /\ UNCHANGED todo
  ELSE /\ todo' = Finished(r, k)
       /\ UNCHANGED net

(* RevcWMeshd::Do: the size is at the start of the first part. *)
RecvMesh(r, k) ==
  LET x == todo[r][k] IN
  IF x.state = 0 /\ Head(got[r][x.at]).obj.parts = 2
  THEN /\ net' = PostRecv(net, <<r, k, 1>>, x.at, "mesh", 2)
       /\ todo' = [todo EXCEPT ![r][k].state = 1]
  ELSE /\ todo' = Finished(r, k)
       /\ UNCHANGED net

(* SendWMatd::Do and RevcWMatd::Do: the sizes, then i, j and aij. *)
Matrix(r, k) ==
  LET x == todo[r][k]
      h == <<r, k, 1>>
  IN  IF x.state < 3
      THEN /\ net' = IF x.dir = "Send" THEN PostSend(net, h, x.at, prog[r][x.at].obj, x.state + 2)
                                       ELSE PostRecv(net, h, x.at, "matrix", x.state + 2)
           /\ todo' = [todo EXCEPT ![r][k].state = @ + 1]
      ELSE /\ todo' = Finished(r, k)
           /\ UNCHANGED net

WhatOf(x) == IF x.op = "Send" THEN x.obj.what ELSE x.what

(* The Do of a blocking send is called again once it has posted. *)
DoOnWait(r) ==
  /\ waits[r].queue # <<>>
  /\ LET k == Head(waits[r].queue)
         x == todo[r][k]
     IN  /\ IF x = Null THEN UNCHANGED <<net, todo>>
            ELSE CASE WhatOf(prog[r][x.at]) = "matrix" -> Matrix(r, k)
                   [] WhatOf(prog[r][x.at]) = "mesh" /\ x.dir = "Send" -> SendMesh(r, k)
                   [] WhatOf(prog[r][x.at]) = "mesh" /\ x.dir = "Recv" -> RecvMesh(r, k)
         /\ LET again == x # Null /\ x.dir = "Send" /\ todo'[r][k] # Null
                         /\ WhatOf(prog[r][x.at]) = "mesh"
            IN  waits' = IF again THEN waits ELSE [waits EXCEPT ![r].queue = Tail(@)]
  /\ UNCHANGED <<prog, pc, got>>

-----------------------------------------------------------------------------
(* The waits. *)

(* The number of times mpiWaitAll calls MPI_Waitall. *)
Rounds_One == 1
Rounds == 2

Open(r) == {k \in prog[r][pc[r]].ks : net.req[<<r, k, 1>>] # Null}

(* Mutant of WaitOver: mpiWait and mpiWaitAny stop at the first message. *)
WaitOver_FirstMessage(r) ==
  LET op == prog[r][pc[r]].op IN
  IF op = "WaitAll" THEN waits[r].round = Rounds
  ELSE Open(r) = {} \/ waits[r].index # Null

(* The wait at pc is over: mpiWait when its request is null, mpiWaitAny    *)
(* when the request it found is, or all were, mpiWaitAll after its rounds. *)
WaitOver(r) ==
  LET op == prog[r][pc[r]].op IN
  IF op = "WaitAll" THEN waits[r].round = Rounds
  ELSE Open(r) = {} \/ (waits[r].index # Null /\ waits[r].index \notin Open(r))

(* MPI_Wait, MPI_Waitany and MPI_Waitall return: their completed requests  *)
(* are null and what was received is in memory.                            *)
Returned(r, K) ==
  LET arrived(i) == {k \in K : net.req[<<r, k, 1>>].at = i /\ net.req[<<r, k, 1>>].dir = "Recv"}
      message(k) == LET q == net.req[<<r, k, 1>>] IN net.sent[q.ch][q.n]
  IN  /\ net' = [net EXCEPT !.req = [h \in Handles |->
                   IF h \in {r} \X K \X {1} THEN Null ELSE @[h]]]
      /\ got' = [got EXCEPT ![r] = [i \in DOMAIN @ |->
                   @[i] \o [n \in 1 .. Cardinality(arrived(i)) |->
                             message(CHOOSE k \in arrived(i) : TRUE)]]]

(* Their keys, in increasing order. *)
Increasing(K) ==
  {q \in [1 .. Cardinality(K) -> K] : \A i, j \in DOMAIN q : i < j => q[i] < q[j]}

MPIWait(r) ==
  /\ At(r, {"Wait", "WaitAny", "WaitAll"}) /\ waits[r].queue = <<>> /\ ~WaitOver(r)
  /\ \E K \in IF prog[r][pc[r]].op = "WaitAll" THEN {Open(r)} ELSE {{k} : k \in Open(r)} :
       /\ \A k \in K : Over(<<r, k, 1>>)
       /\ Returned(r, K)
       /\ \E q \in Increasing(K) : waits' = [waits EXCEPT ![r] =
            [queue |-> q, round |-> @.round + 1,
             index |-> IF Cardinality(K) = 1 THEN CHOOSE k \in K : TRUE ELSE Null]]
  /\ UNCHANGED <<prog, pc, todo>>

EndWait(r) ==
  /\ At(r, {"Wait", "WaitAny", "WaitAll"}) /\ waits[r].queue = <<>> /\ WaitOver(r)
  /\ pc' = [pc EXCEPT ![r] = @ + 1]
  /\ waits' = [waits EXCEPT ![r] = NotWaiting]
  /\ UNCHANGED <<prog, net, todo, got>>

Rank(r) == Post(r) \/ MPIWait(r) \/ DoOnWait(r) \/ EndWait(r)

(* All the scripts have ended. *)
Done == (\A r \in Ranks : pc[r] > Len(prog[r])) /\ UNCHANGED vars

Next ==
  \/ \E r \in Ranks : Rank(r)
  \/ \E h \in Handles : Complete(h) \/ Buffer(h)
  \/ Done

(* The system runs every rank, and MPI completes what is matched; it need  *)
(* not buffer anything.                                                    *)
Fairness ==
  /\ \A r \in Ranks : WF_vars(Rank(r))
  /\ \A h \in Handles : WF_vars(Complete(h))

Spec == Init /\ [][Next]_vars /\ Fairness

-----------------------------------------------------------------------------
TypeOK ==
  /\ \A r \in Ranks : pc[r] \in 1 .. Len(prog[r]) + 1
  /\ \A h \in Handles : net.req[h] # Null =>
       net.req[h] \in [dir : {"Send", "Recv"}, at : 1 .. pc[h[1]], ch : Channels,
                       n : Nat \ {0}, done : BOOLEAN]
  /\ \A r \in Ranks, k \in Keys : todo[r][k] # Null =>
       todo[r][k] \in [dir : {"Send", "Recv"}, at : 1 .. pc[r], state : 0 .. 3]
  /\ \A r \in Ranks : waits[r].queue \in Seq(Keys) /\ waits[r].round \in Nat

(* Instruction i of r was reached, and nothing of it is left to do. *)
Ended(r, i) ==
  /\ i < pc[r]
  /\ \A k \in Keys :
       /\ todo[r][k] # Null => todo[r][k].at # i
       /\ \A h \in {1, 2} : net.req[<<r, k, h>>] # Null => net.req[<<r, k, h>>].at # i

(* The instructions of r that send objects of this kind to peer, or ask    *)
(* for them there, and those like i.                                       *)
Postings(r, op, peer, what) == {i \in 1 .. Len(prog[r]) :
  prog[r][i].op = op /\ prog[r][i].peer = peer /\ WhatOf(prog[r][i]) = what}
Alike(r, i) == Postings(r, prog[r][i].op, prog[r][i].peer, WhatOf(prog[r][i]))

(* The send that a receive stands for: the n-th receive of a kind from a   *)
(* rank stands for the n-th send of that kind, if there are as many.       *)
Place(S, i) == Cardinality({j \in S : j <= i})
Sends(r, i) == Postings(prog[r][i].peer, "Send", r, prog[r][i].what)
Stands(r, i) ==
  prog[r][i].op = "Recv" => Place(Alike(r, i), i) <= Cardinality(Sends(r, i))
SendOf(r, i) == CHOOSE j \in Sends(r, i) : Place(Sends(r, i), j) = Place(Alike(r, i), i)

(* The object of an instruction, and the number of its messages.           *)
ObjectOf(r, i) == IF prog[r][i].op = "Send" THEN prog[r][i].obj
                  ELSE prog[prog[r][i].peer][SendOf(r, i)].obj
MessagesOf(obj) == IF obj.parts = 0 THEN 1 ELSE obj.parts

Receives(r) == {i \in 1 .. pc[r] - 1 : prog[r][i].op = "Recv"}

(* The n-th object of a kind received from a rank is, with all its parts   *)
(* in order, the n-th the rank sent.                                       *)
RecvIsSent ==
  \A r \in Ranks : \A i \in Receives(r) : Ended(r, i) =>
    LET obj == ObjectOf(r, i) IN
    got[r][i] = [n \in 1 .. MessagesOf(obj) |-> [obj |-> obj, part |-> n]]

(* The memory MPI still reads or writes for a mesh or a matrix is that of  *)
(* the exchange object, which must not be deleted yet.                     *)
BufferAlive ==
  TypeOK /\ \A h \in Handles : Active(h) =>
    LET x == prog[h[1]][net.req[h].at] IN
    \/ WhatOf(x) = "array" \/ (x.op = "Send" /\ x.obj.parts = 0)
    \/ todo[h[1]][h[2]] # Null /\ todo[h[1]][h[2]].at = net.req[h].at

(* A request is not used for another object before the wait for it has     *)
(* brought it back to MPI_REQUEST_NULL and erased its entry: what a script *)
(* that posts under one mpiRequest again after mpiWait counts on, however   *)
(* many messages the object was.                                           *)
ReusedWhenFree ==
  [][\A r \in Ranks : Post(r) =>
       LET k == prog[r][pc[r]].k IN todo[r][k] = Null /\ net.req[<<r, k, 1>>] = Null]_vars

(* After mpiWaitAll nothing is left to do for its requests. *)
WaitAllFinishes ==
  \A r \in Ranks : \A i \in 1 .. pc[r] - 1 : prog[r][i].op = "WaitAll" =>
    \A j \in 1 .. i - 1 : prog[r][j].op \in {"Send", "Recv"} /\ prog[r][j].k \in prog[r][i].ks
      => Ended(r, j)

(* Every script ends. *)
Terminates == <>(\A r \in Ranks : pc[r] > Len(prog[r]))

(* "we have the all buffer => DeSerialize" (parallelempi.cpp:828): a mesh  *)
(* is made of the parts of one mesh.                                       *)
PartsTogether ==
  \A r \in Ranks : \A i \in Receives(r) : Ended(r, i) =>
    \A m, n \in 1 .. Len(got[r][i]) : got[r][i][m].obj = got[r][i][n].obj
===============================================================================
