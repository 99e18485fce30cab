---------------------------- MODULE MCMPIExchange ----------------------------
(***************************************************************************)
(* Scripts of two and three ranks for TLC, after the idioms of the         *)
(* macros in idp/.  Request 9 is the one of a blocking call.               *)
(***************************************************************************)
EXTENDS MPIExchange, TLC

Mesh(id, parts) == [what |-> "mesh", parts |-> parts, id |-> id]
Array(id)       == [what |-> "array", parts |-> 1, id |-> id]
Mat(id)         == [what |-> "matrix", parts |-> 4, id |-> id]

Isend(k, p, obj)   == [op |-> "Send", k |-> k, peer |-> p, obj |-> obj, blocking |-> FALSE]
Irecv(k, p, what)  == [op |-> "Recv", k |-> k, peer |-> p, what |-> what]
mpiWait(k)         == [op |-> "Wait", ks |-> {k}]
mpiWaitAny(ks)     == [op |-> "WaitAny", ks |-> ks]
mpiWaitAll(ks)     == [op |-> "WaitAll", ks |-> ks]
SendNow(p, obj)    == <<[op |-> "Send", k |-> 9, peer |-> p, obj |-> obj, blocking |-> TRUE],
                        mpiWait(9)>>
RecvNow(p, what)   == <<Irecv(9, p, what), mpiWait(9)>>

(* macro_ddm.idp:926-968: the neighbours exchange meshes of p and q parts,  *)
(* and the receives are waited for before the sends.                       *)
Neighbours(p, q) ==
  (0 :> <<Irecv(1, 1, "mesh"), Isend(2, 1, Mesh("a", p)), mpiWaitAll({1}), mpiWaitAll({2})>>)
  @@ (1 :> <<Irecv(1, 0, "mesh"), Isend(2, 0, Mesh("b", q)), mpiWaitAll({1}), mpiWaitAll({2})>>)

(* MPIplot.idp:19-37: a mesh and then an array from rank 1. *)
Plot(p) ==
  (0 :> <<Irecv(1, 1, "mesh"), mpiWaitAny({1}), Irecv(2, 1, "array"), mpiWaitAny({2})>>)
  @@ (1 :> <<Isend(1, 0, Mesh("a", p)), mpiWait(1), Isend(1, 0, Array("u")), mpiWait(1)>>)

(* Blocking sends and receives of two objects. *)
Blocking(x, y) ==
  (0 :> RecvNow(1, x.what) \o RecvNow(1, y.what)) @@ (1 :> SendNow(0, x) \o SendNow(0, y))

(* Two objects from rank 1 to rank 0, the ways to wait for them, and the   *)
(* orders to ask for them: those of one kind come as they were sent.       *)
Ways == {<<mpiWaitAll({1, 2})>>, <<mpiWait(1), mpiWait(2)>>, <<mpiWait(2), mpiWait(1)>>,
         <<mpiWaitAny({1, 2}), mpiWaitAny({1, 2})>>}
Two(x, y, w, v, crossed) ==
  LET a == Irecv(1, 1, x.what)
      b == Irecv(2, 1, y.what)
  IN  (0 :> (IF crossed THEN <<b, a>> ELSE <<a, b>>) \o v)
      @@ (1 :> <<Isend(1, 0, x), Isend(2, 0, y)>> \o w)

Objects(id) == {Mesh(id, p) : p \in 0 .. 2} \cup {Array(id), Mat(id)}

AllAtOnce == <<mpiWaitAll({1, 2})>>
InOrder   == <<mpiWait(1), mpiWait(2)>>
Reversed  == <<mpiWait(2), mpiWait(1)>>

(* What scripts must keep to: no matrix in mpiWaitAll; of two large        *)
(* objects of a kind, the receiver waits in the order of the sends, and    *)
(* for matrices both do; a receiver does not wait for a matrix before a    *)
(* large mesh unless the sender does.                                      *)
Allowed(x, y, w, v, crossed) ==
  /\ x.what = y.what => ~crossed
  /\ "matrix" \in {x.what, y.what} => AllAtOnce \notin {w, v}
  /\ x.parts = 2 /\ y.parts = 2 => v \in {AllAtOnce, InOrder}
  /\ x.parts = 4 /\ y.parts = 4 => w = v /\ v \in {InOrder, Reversed}
  /\ x.parts = 2 /\ y.parts = 4 /\ v = Reversed => w = v
  /\ x.parts = 4 /\ y.parts = 2 /\ v = InOrder => w = v

Family == {Two(t[1], t[2], t[3], t[4], t[5]) :
  t \in {u \in Objects("a") \X Objects("b") \X Ways \X Ways \X BOOLEAN :
           Allowed(u[1], u[2], u[3], u[4], u[5])}}

(* MPIplot.idp:19-37 with two ranks to hear from: whichever comes first. *)
Gather(x, y) ==
  (0 :> <<Irecv(1, 1, x.what), Irecv(2, 2, y.what), mpiWaitAny({1, 2}), mpiWaitAny({1, 2})>>)
  @@ (1 :> <<Isend(1, 0, x), mpiWait(1)>>) @@ (2 :> <<Isend(1, 0, y), mpiWait(1)>>)

TwoRanks == {Neighbours(p, q) : p, q \in 0 .. 2} \cup {Plot(p) : p \in 0 .. 2}
            \cup {Blocking(x, y) : x \in {Mesh("a", 1), Mesh("a", 2), Mat("a")},
                                   y \in {Mesh("b", 1), Mesh("b", 2), Mat("b")}}
            \cup Family

Idioms == {f @@ (2 :> <<>>) : f \in TwoRanks}
          \cup {Gather(x, y) : x \in {Mesh("a", 2), Mat("a")}, y \in {Mesh("b", 2), Mat("b")}}

(* Two large meshes between two ranks, waited for as they come. *)
AnyOrder == {Two(Mesh("a", 2), Mesh("b", 2), <<mpiWaitAll({1, 2})>>,
                 <<mpiWaitAny({1, 2}), mpiWaitAny({1, 2})>>, FALSE)}

(* A matrix sent and received in mpiWaitAll. *)
MatrixInAll == {(0 :> <<Irecv(1, 1, "matrix"), mpiWaitAll({1})>>)
             @@ (1 :> <<Isend(1, 0, Mat("A")), mpiWaitAll({1})>>)}
==============================================================================
