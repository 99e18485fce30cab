------------------------------ MODULE Interpreter ------------------------------
(***************************************************************************)
(* How a script is evaluated (fflib/AFunction.cpp, AFunction2.cpp,         *)
(* ffstack.hpp): lists of instructions, loops, try, calls of functions,    *)
(* and the objects the evaluation makes on the way.                        *)
(*                                                                         *)
(* A temporary is kept in the list of pointers to free that is current,    *)
(* and goes when an instruction ends.  A call has a list of its own, which *)
(* is itself a temporary of the caller.  break, continue and return are    *)
(* C++ exceptions (E_exception); an error is any other exception.  A       *)
(* variable goes when its block is left.                                   *)
(*                                                                         *)
(* The evaluation is a stack of frames, one per C++ function that is       *)
(* active, and what the innermost is given: a node to evaluate, a value    *)
(* or an exception.  A step is the code between two calls.                 *)
(***************************************************************************)
EXTENDS Integers, Sequences, FiniteSets, SequencesExt

CONSTANTS
  Programs,  (* the scripts: sequences of nodes                             *)
  Nodes,     (* their expressions and instructions, and those in them       *)
  Objects,   (* the memory for values, numbered; none is used twice         *)
  Lists,     (* the memory for lists of pointers; 0 is the list of the      *)
             (* script                                                      *)
  Variables, (* the variables of the scripts                                *)
  None       (* no value, no object                                         *)

ASSUME MemoryAssumption == /\ Objects \subseteq Nat /\ Lists \subseteq Nat /\ 0 \in Lists
                           /\ None \notin Nat

IsExpression(n) == n.op \in {"temp", "may", "plus", "call"}

(* What a node is made of is in S, and an operator, a declaration or a     *)
(* return works on an expression.                                          *)
IsNode(n, S) ==
  LET IsCode(s) == s \in Seq(S) /\ s # <<>>
  IN  \/ n.op \in {"temp", "may"}
      \/ n.op = "plus" /\ \A m \in {n.left, n.right} : m \in S /\ IsExpression(m)
      \/ n.op = "call" /\ IsCode(n.ins)
      \/ n.op = "jump" /\ n.code \in {"break", "continue", "return"}
      \/ n.op = "return" /\ n.expr \in S /\ IsExpression(n.expr)
      \/ n.op = "decl" /\ n.v \in Variables /\ n.expr \in S /\ IsExpression(n.expr)
      \/ n.op = "block" /\ IsCode(n.ins) /\ n.base = {}
      \/ n.op = "for" /\ n.turns \in Nat /\ n.body \in S
      \/ n.op = "try" /\ IsCode(n.ins) /\ IsCode(n.handler)

Grammar(S) ==
  /\ \A p \in Programs : p \in Seq(S) /\ p # <<>>
  /\ \A n \in S : IsNode(n, S)

ASSUME NodesAssumption == Grammar(Nodes)

VARIABLES
  ctl,     (* the frames, the innermost last                                *)
  now,     (* what the innermost frame is given                             *)
  where,   (* WhereStackOfPtr2Free: the current list                        *)
  param,   (* ParamPtrOffset: the parameters of the function running        *)
  lists,   (* the lists of pointers in use, with their items                *)
  heap,    (* the number of times each object was deleted, None before it   *)
           (* was made                                                      *)
  slots    (* the object each variable points to, deleted or not            *)

vars == <<ctl, now, where, param, lists, heap, slots>>

Do(node)        == [k |-> "do", node |-> node, code |-> None, val |-> None]
Ok(val)         == [k |-> "ok", node |-> None, code |-> None, val |-> val]
Throw(code, val) == [k |-> "throw", node |-> None, code |-> code, val |-> val]
Exits(kind)     == [k |-> kind, node |-> None, code |-> None, val |-> None]

NewItems == [objects |-> {}, lists |-> {}]

Block(ins)  == [op |-> "block", ins |-> ins, base |-> {}]

Init ==
  /\ \E p \in Programs : now = Do(Block(p))
  /\ ctl = <<>>
  /\ where = 0
  /\ param = None
  /\ lists = [l \in {0} |-> NewItems]
  /\ heap = [o \in Objects |-> None]
  /\ slots = [v \in Variables |-> None]

-----------------------------------------------------------------------------
(* Frames. *)

Top       == Last(ctl)
In(frame) == ctl # <<>> /\ Top.f = frame
Push(fr)  == ctl' = Append(ctl, fr)
Pop       == ctl' = Front(ctl)
Swap(fr)  == ctl' = Append(Front(ctl), fr)

Given(k)  == now.k = k
Gives(g)  == now' = g

-----------------------------------------------------------------------------
(* Memory. *)

Fresh == CHOOSE o \in Objects : heap[o] = None /\ \A p \in Objects : p < o => heap[p] # None

Temporary(o) == lists' = [lists EXCEPT ![where].objects = @ \cup {o}]
Made(o)      == heap' = [heap EXCEPT ![o] = 0]

(* The lists that go with l: those of the calls made under it, and so on.  *)
Within(l) ==
  {n \in DOMAIN lists :
     \A S \in SUBSET DOMAIN lists :
        l \in S /\ (\A m \in S : lists[m].lists \subseteq S) => n \in S}

(* Mutant of Cleaned: clean() does not forget what it deleted. *)
Cleaned_KeepsItems(l) == lists

(* StackOfPtr2Free::clean *)
Cleaned(l) ==
  [n \in (DOMAIN lists \ Within(l)) \cup {l} |-> IF n = l THEN NewItems ELSE lists[n]]

(* The objects deleted by a clean of l. *)
Swept(l) == UNION {lists[n].objects : n \in Within(l)}

Delete(objects) == [o \in Objects |-> IF o \in objects THEN heap[o] + 1 ELSE heap[o]]

(* ~StackOfPtr2Free makes the list before it current: l, when there is a   *)
(* list in l.                                                              *)
WhereAfter(l) == IF lists[l].lists # {} THEN l ELSE where

clean(l, more) ==
  /\ heap' = Delete(Swept(l) \cup more)
  /\ lists' = Cleaned(l)
  /\ where' = WhereAfter(l)

-----------------------------------------------------------------------------
(* Expressions. *)

(* An operator that makes a temporary. *)
Temp ==
  /\ Given("do") /\ now.node.op \in {"temp", "may"}
  /\ Made(Fresh) /\ Temporary(Fresh)
  /\ Gives(Ok(Fresh))
  /\ UNCHANGED <<ctl, where, param, slots>>

(* One that fails: ErrorExec, or an exception of a library. *)
Fail ==
  /\ Given("do") /\ now.node.op = "may"
  /\ Gives(Throw("error", None))
  /\ UNCHANGED <<ctl, where, param, lists, heap, slots>>

(* An operator with two operands, which makes a temporary of both. *)
Left ==
  /\ Given("do") /\ now.node.op = "plus"
  /\ Push([f |-> "left", node |-> now.node])
  /\ Gives(Do(now.node.left))
  /\ UNCHANGED <<where, param, lists, heap, slots>>
Right ==
  /\ Given("ok") /\ In("left")
  /\ Swap([f |-> "right", left |-> now.val])
  /\ Gives(Do(Top.node.right))
  /\ UNCHANGED <<where, param, lists, heap, slots>>
Plus ==
  /\ Given("ok") /\ In("right")
  /\ Made(Fresh) /\ Temporary(Fresh)
  /\ Pop /\ Gives(Ok(Fresh))
  /\ UNCHANGED <<where, param, slots>>

(* E_Routine::operator(): the array of the parameters is a temporary of    *)
(* the caller, the new list too.                                           *)
Call ==
  /\ Given("do") /\ now.node.op = "call"
  /\ LET l == Cardinality(DOMAIN lists) IN
     /\ lists' = [n \in DOMAIN lists \cup {l} |->
          IF n = l THEN NewItems
          ELSE IF n = where THEN [objects |-> lists[n].objects \cup {Fresh},
                                  lists |-> lists[n].lists \cup {l}]
          ELSE lists[n]]
     /\ where' = l
  /\ Made(Fresh)
  /\ param' = Fresh
  /\ Push([f |-> "routine", where |-> where, param |-> param])
  /\ Gives(Do(Block(now.node.ins)))
  /\ UNCHANGED slots

(* The end of the code, or a return in it. *)
Return ==
  /\ In("routine")
  /\ \/ Given("ok")
     \/ Given("throw") /\ now.code = "return"
  /\ where' = Top.where /\ param' = Top.param
  /\ Pop /\ Gives(Ok(now.val))
  /\ UNCHANGED <<lists, heap, slots>>

(* Mutant of Restored: the frame is not restored on an error. *)
Restored_Not == where' = WhereAfter(where) /\ UNCHANGED param

(* memcpy(s,save,lgsave) *)
Restored == where' = Top.where /\ param' = Top.param

(* catch(...): the list is cleaned and the frame restored. *)
RoutineFails ==
  /\ In("routine") /\ Given("throw") /\ now.code = "error"
  /\ heap' = Delete(Swept(where))
  /\ lists' = Cleaned(where)
  /\ Restored
  /\ Pop /\ UNCHANGED <<now, slots>>

-----------------------------------------------------------------------------
(* Instructions. *)

(* break, continue, return of a number, and return of an object, of which  *)
(* a temporary is made (UnRefCopyPtr for a string).                        *)
Jump ==
  /\ Given("do") /\ now.node.op = "jump"
  /\ Gives(Throw(now.node.code, None))
  /\ UNCHANGED <<ctl, where, param, lists, heap, slots>>
ReturnExpr ==
  /\ Given("do") /\ now.node.op = "return"
  /\ Push([f |-> "return"]) /\ Gives(Do(now.node.expr))
  /\ UNCHANGED <<where, param, lists, heap, slots>>
ReturnValue ==
  /\ Given("ok") /\ In("return")
  /\ Made(Fresh) /\ Temporary(Fresh)
  /\ Pop /\ Gives(Throw("return", Fresh))
  /\ UNCHANGED <<where, param, slots>>

(* A declaration with an initial value, which is copied. *)
Declare ==
  /\ Given("do") /\ now.node.op = "decl"
  /\ Push([f |-> "decl", v |-> now.node.v]) /\ Gives(Do(now.node.expr))
  /\ UNCHANGED <<where, param, lists, heap, slots>>
Initialise ==
  /\ Given("ok") /\ In("decl")
  /\ Made(Fresh)
  /\ slots' = [slots EXCEPT ![Top.v] = Fresh]
  /\ Pop /\ Gives(Ok(None))
  /\ UNCHANGED <<where, param, lists>>

(* An operator, a declaration or a return does not catch anything. *)
Unwind ==
  /\ Given("throw") /\ ctl # <<>> /\ Top.f \in {"left", "right", "decl", "return"}
  /\ Pop /\ UNCHANGED <<now, where, param, lists, heap, slots>>

(* The variables of a block that atclose destroys when its instructions    *)
(* up to i were reached (lsldel): base are those declared before its list. *)
Declared(fr, i) == fr.base \cup {fr.ins[j].v : j \in {j \in 1 .. i : fr.ins[j].op = "decl"}}

(* vectorOfInst::eval, for a list that has an atclose. *)
Destroyed(fr, i) == IF fr.close THEN {slots[v] : v \in Declared(fr, i)} \ {None} ELSE {}

(* ListOfInst::operator() *)
Start ==
  /\ Given("do") /\ now.node.op \in {"block", "list"}
  /\ Push([f |-> "list", ins |-> now.node.ins, i |-> 1, sptr |-> where, param |-> param,
           base |-> now.node.base, close |-> now.node.op = "block"])
  /\ Gives(Do(Head(now.node.ins)))
  /\ UNCHANGED <<where, param, lists, heap, slots>>
NextInst ==
  /\ Given("ok") /\ In("list") /\ Top.i < Len(Top.ins)
  /\ clean(Top.sptr, {})
  /\ Swap([Top EXCEPT !.i = @ + 1])
  /\ Gives(Do(Top.ins[Top.i + 1]))
  /\ UNCHANGED <<param, slots>>
EndOfList ==
  /\ Given("ok") /\ In("list") /\ Top.i = Len(Top.ins)
  /\ clean(Top.sptr, Destroyed(Top, Top.i))
  /\ Pop /\ Gives(Ok(None))
  /\ UNCHANGED <<param, slots>>

(* Mutant of KeepsTemporaries: the list is cleaned on a return too. *)
KeepsTemporaries_Never == FALSE

(* "pour ne pas detruire la valeur retourne" *)
KeepsTemporaries == now.code = "return"

LeaveList ==
  /\ Given("throw") /\ In("list")
  /\ IF KeepsTemporaries
     THEN /\ heap' = Delete(Destroyed(Top, Top.i))
          /\ UNCHANGED <<lists, where>>
     ELSE clean(Top.sptr, Destroyed(Top, Top.i))
  /\ Pop /\ UNCHANGED <<now, param, slots>>

(* FFor and FWhile, with a given number of turns.  The list is cleaned     *)
(* after each until there was nothing to clean (sptrclean).                *)
For ==
  /\ Given("do") /\ now.node.op = "for"
  /\ Push([f |-> "for", body |-> now.node.body, left |-> now.node.turns, sptr |-> where,
           sptrclean |-> TRUE])
  /\ Gives(Do(now.node.body))
  /\ UNCHANGED <<where, param, lists, heap, slots>>

Turn ==
  /\ In("for")
  /\ Given("ok") \/ (Given("throw") /\ now.code # "error")
  /\ IF Top.sptrclean THEN clean(Top.sptr, {}) ELSE UNCHANGED <<where, lists, heap>>
  /\ \/ /\ Given("ok") \/ now.code = "continue"
        /\ IF Top.left > 1
           THEN /\ Swap([Top EXCEPT !.left = @ - 1,
                                    !.sptrclean = @ /\ lists[Top.sptr] # NewItems])
                /\ Gives(Do(Top.body))
           ELSE Pop /\ Gives(Ok(None))
     \/ Given("throw") /\ now.code = "break" /\ Pop /\ Gives(Ok(None))
     \/ Given("throw") /\ now.code = "return" /\ Pop /\ UNCHANGED now
  /\ UNCHANGED <<param, slots>>

(* An error is not an E_exception. *)
LoopFails ==
  /\ In("for") /\ Given("throw") /\ now.code = "error"
  /\ Pop /\ UNCHANGED <<now, where, param, lists, heap, slots>>

(* TTry.  The variables of the body belong to the block of the handler.    *)
Try ==
  /\ Given("do") /\ now.node.op = "try"
  /\ Push([f |-> "try", node |-> now.node])
  /\ Gives(Do([op |-> "list", ins |-> now.node.ins, base |-> {}]))
  /\ UNCHANGED <<where, param, lists, heap, slots>>
Caught ==
  /\ In("try") /\ Given("throw") /\ now.code = "error"
  /\ Pop
  /\ Gives(Do([Block(Top.node.handler) EXCEPT !.base =
                 {Top.node.ins[j].v : j \in {j \in 1 .. Len(Top.node.ins) :
                                              Top.node.ins[j].op = "decl"}}]))
  /\ UNCHANGED <<where, param, lists, heap, slots>>
TryEnds ==
  /\ In("try") /\ (Given("ok") \/ (Given("throw") /\ now.code # "error"))
  /\ Pop /\ UNCHANGED <<now, where, param, lists, heap, slots>>

(* The end of the script: deleteStack, or exit with a message.             *)
End ==
  /\ ctl = <<>>
  /\ \/ Given("ok") /\ clean(0, {}) /\ Gives(Exits("end"))
     \/ Given("throw") /\ Gives(Exits("failed")) /\ UNCHANGED <<where, lists, heap>>
  /\ UNCHANGED <<ctl, param, slots>>

Done == now.k \in {"end", "failed"} /\ UNCHANGED vars

Next ==
  \/ Temp \/ Fail \/ Left \/ Right \/ Plus
  \/ Call \/ Return \/ RoutineFails
  \/ Jump \/ ReturnExpr \/ ReturnValue \/ Declare \/ Initialise \/ Unwind
  \/ Start \/ NextInst \/ EndOfList \/ LeaveList
  \/ For \/ Turn \/ LoopFails \/ Try \/ Caught \/ TryEnds
  \/ End \/ Done

Spec == Init /\ [][Next]_vars

-----------------------------------------------------------------------------
Alive(o) == o = None \/ heap[o] = 0

TypeOK ==
  /\ now.k \in {"do", "ok", "throw", "end", "failed"}
  /\ where \in DOMAIN lists /\ DOMAIN lists \subseteq Lists
  /\ heap \in [Objects -> {None} \cup Nat]
  /\ slots \in [Variables -> Objects \cup {None}]
  /\ param \in Objects \cup {None}

(* A value that is returned, or waits for the other operand, was not       *)
(* deleted: the caller still reads it.                                     *)
ValueAlive ==
  /\ Alive(now.val)
  /\ \A i \in 1 .. Len(ctl) : ctl[i].f = "right" => Alive(ctl[i].left)

(* Each instruction runs with the list and the parameters of its function, *)
(* which were not freed, whatever calls and errors came before.            *)
FrameRestored ==
  TypeOK /\ (Given("do") /\ In("list") => where = Top.sptr /\ param = Top.param /\ Alive(param))

(* No object is deleted twice, be it by its block or with the temporaries, *)
(* and a script that ends leaves nothing behind, whatever jumps and errors *)
(* it went through.                                                        *)
DeletedOnce ==
  /\ \A o \in Objects : heap[o] # None => heap[o] <= 1
  /\ Given("end") => \A o \in Objects : heap[o] # 0
===============================================================================
