----------------------------- MODULE MCInterpreter -----------------------------
(***************************************************************************)
(* Families of small scripts for Interpreter.  Left out of Scripts, as the *)
(* code does not handle them (see README): a return of an object in a      *)
(* loop, a declaration in the body of a try, and a declaration that is     *)
(* repeated and whose initial value may fail.                              *)
(***************************************************************************)
EXTENDS Interpreter

T           == [op |-> "temp"]
Maybe       == [op |-> "may"]
Add(a, b)   == [op |-> "plus", left |-> a, right |-> b]
CallOf(ins) == [op |-> "call", ins |-> ins]
Decl(v, e)  == [op |-> "decl", v |-> v, expr |-> e]
Ret(e)      == [op |-> "return", expr |-> e]
Break       == [op |-> "jump", code |-> "break"]
Continue    == [op |-> "jump", code |-> "continue"]
RetNumber   == [op |-> "jump", code |-> "return"]
Loop(body)  == [op |-> "for", turns |-> 2, body |-> body]
TryCatch(ins, handler) == [op |-> "try", ins |-> ins, handler |-> handler]

(* A loop of a function whose block ends, jumps, fails or returns. *)
Loops(v) == {Loop(T), Loop(TryCatch(<<Maybe, Break>>, <<T>>))}
            \cup {Loop(Block(<<a, b>>)) :
                    a \in {Maybe, Decl(v, T)}, b \in {T, Maybe, Break, Continue, RetNumber}}

(* Functions: something, then a return or the end. *)
Functions1(v) == {<<i, r>> : i \in {Maybe, Decl(v, T)} \cup Loops(v), r \in {Ret(T), Ret(Maybe), T}}

Calls(v) == {CallOf(f) : f \in Functions1(v)}

(* A function that calls one, and catches its errors or not. *)
Nested == {CallOf(<<Decl("y", T), i, Ret(T)>>) :
             i \in Calls("z") \cup {TryCatch(<<c, T>>, <<h>>) : c \in Calls("z"), h \in {T, Maybe, Decl("w", T)}}}

Middle == {Add(c, d) : c \in Calls("y"), d \in {CallOf(<<Maybe, Ret(T)>>), CallOf(<<Decl("z", T), Ret(Maybe)>>)}}
          \cup Nested
          \cup {Loop(Block(<<Decl("y", T), c, j>>)) : c \in Calls("z"), j \in {T, Break, Continue}}
          \cup {Loop(c) : c \in Calls("z")}

Last1 == CallOf(<<T, Ret(T)>>)

Scripts == {<<Decl("x", Maybe), m, Last1>> : m \in Middle}
           \cup {<<Decl("x", T), TryCatch(<<m, T>>, <<h, T>>), Last1>> :
                   m \in Middle, h \in {T, Decl("w", Maybe)}}

(* More objects than a script makes. *)
Memory == 1 .. 40

(* The nodes of some scripts: their instructions, and those in them to a   *)
(* depth that no script passes.                                            *)
PartsOf(n) ==
  CASE n.op = "plus" -> {n.left, n.right}
    [] n.op \in {"call", "block"} -> ToSet(n.ins)
    [] n.op \in {"return", "decl"} -> {n.expr}
    [] n.op = "for" -> {n.body}
    [] n.op = "try" -> ToSet(n.ins) \cup ToSet(n.handler)
    [] OTHER -> {}
NodesOf(scripts) ==
  LET at[d \in 0 .. 12] == IF d = 0 THEN UNION {ToSet(s) : s \in scripts}
                           ELSE UNION {PartsOf(n) : n \in at[d - 1]}
  IN  UNION {at[d] : d \in 0 .. 12}

ScriptNodes == NodesOf(Scripts)

(* A function that returns from a loop. *)
LoopReturns == {<<CallOf(<<Loop(b), T>>), T>> : b \in {Ret(T), Block(<<T, Ret(T)>>)}}

LoopReturnNodes == NodesOf(LoopReturns)
================================================================================
