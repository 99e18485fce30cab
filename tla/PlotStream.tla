------------------------------ MODULE PlotStream ------------------------------
(***************************************************************************)
(* The stream of plots: what a plot command writes (Plot::operator() in    *)
(* fflib/lgfem.cpp and the plot of a matrix in fflib/lgmat.cpp) and what   *)
(* the constructor ThePlot of the graphics client reads                    *)
(* (Graphics/ffglut.cpp), by the primitives of fflib/PlotStream.hpp.       *)
(*                                                                         *)
(* The stream has no frames: tags, counts, numbers of meshes and codes of  *)
(* items are all 8 byte integers, told apart by their place only.  Writes  *)
(* go through the buffer of stdio, flushed when it is full and at the end  *)
(* of a plot.  The options of a plot are evaluated while it is written.    *)
(***************************************************************************)
EXTENDS Integers, Sequences, FiniteSets, SequencesExt

CONSTANTS
  Scripts,   (* sequences of plots [args, items]: the options given, and    *)
             (* items [what, mesh], mesh = 0 when the object is not set     *)
  BufRoom,   (* bound: tokens the buffer of stdio holds                     *)
  PipeRoom   (* bound: tokens the pipe holds                                *)

ASSUME BoundsAssumption == BufRoom \in Nat \ {0} /\ PipeRoom \in Nat \ {0}

(* enum datatype. *)
dt_meshes  == -1
dt_plots   == -2
dt_endplot == -3
dt_newplot == -5
dt_meshes3 == -10
dt_meshesS == -12
dt_meshesL == -13
dt_endarg  == 99999

Kinds == <<"mesh", "mesh3", "meshS", "meshL">>
TagOf == [mesh |-> dt_meshes, mesh3 |-> dt_meshes3, meshS |-> dt_meshesS, meshL |-> dt_meshesL]

(* The codes of items: meshes, functions on a mesh, and those without one: *)
(* curves, borders, the pattern of a matrix.                               *)
MeshItems == 0 :> "mesh" @@ 5 :> "mesh3" @@ 50 :> "meshS" @@ 55 :> "meshL"
FunctionItems ==
  [w \in {1, 2, 11, 12} |-> "mesh"] @@ [w \in {6, 7, 16, 17} |-> "mesh3"]
  @@ [w \in {8, 9, 18, 19} |-> "meshS"] @@ [w \in {14, 20} |-> "meshL"]
OnMesh == MeshItems @@ FunctionItems
curve   == 13
border  == 4
hmatrix == 31

(* The functions sent without asking for their values, where the program   *)
(* stops by itself if there are none: no script has one that is not set.   *)
SentUnasked == {8, 18, 14, 20}
ASSUME ScriptsAssumption ==
  \A s \in Scripts : \A p \in Range(s) : \A i \in DOMAIN p.items :
    p.items[i].what \in SentUnasked => p.items[i].mesh # 0

(* What goes through the stream: a long, an option with the code of its    *)
(* type before it (operator <=), a mesh, the values of an item.            *)
L(v)  == <<"long", v>>
V(ty) == <<"value", ty>>
M(m)  == <<"mesh", m>>
D(w)  == <<"data", w>>

(* The types operator <= writes for the options: bool 1, long 2, double 5, *)
(* string 6, array 10.                                                     *)
TypeSent(k) ==
  CASE k \in {0, 20, 21, 28, 36} -> 5
    [] k \in {1, 2, 44, 45} -> 6
    [] k \in {9, 10, 17, 26, 27, 29, 40, 41, 42} -> 2
    [] k \in {8, 11, 12, 15} \cup (33 .. 35) \cup (37 .. 39) -> 10
    [] OTHER -> 1

(* Mutant of TypeRead: one option is read with another type. *)
TypeRead_Swap(k) ==
  CASE k \in {0, 20, 21, 28, 36} -> 5
    [] k \in {1, 2, 44, 45} -> 6
    [] k \in {9, 10, 17, 26, 27, 40} -> 2
    [] k \in {8, 11, 12, 15} \cup (33 .. 35) \cup (37 .. 39) -> 10
    [] k \in {41, 42} -> 0
    [] OTHER -> 1

(* The types operator >= expects for the members of ThePlot, 0 for the     *)
(* options the client does not know.                                       *)
TypeRead(k) ==
  CASE k \in (3 .. 7) \cup {13, 14, 16, 18, 19} \cup (22 .. 25) \cup (30 .. 32) \cup {43} -> 1
    [] k \in {9, 10, 17, 26, 27, 29, 40} -> 2
    [] k \in {0, 20, 21, 28, 36} -> 5
    [] k \in {1, 2, 44, 45} -> 6
    [] k \in {8, 11, 12, 15} \cup (33 .. 35) \cup (37 .. 39) -> 10
    [] OTHER -> 0

-----------------------------------------------------------------------------
(* What a plot command writes, token by token; eval marks the tokens before*)
(* which an expression of the script is evaluated.                         *)
Fixed(t)     == [tok |-> t, eval |-> FALSE]
Evaluated(t) == [tok |-> t, eval |-> TRUE]

OptionPart(p) ==
  FlattenSeq([i \in DOMAIN p.args |->
                <<Evaluated(L(p.args[i])), Evaluated(V(TypeSent(p.args[i])))>>])
  \o <<Fixed(L(dt_endarg))>>

Uses(p, k)     == {i \in DOMAIN p.items : p.items[i].what \in DOMAIN OnMesh
                      /\ OnMesh[p.items[i].what] = k /\ p.items[i].mesh # 0}
MeshesOf(p, k) == {p.items[i].mesh : i \in Uses(p, k)}
FirstUse(p, k, m) == Min({i \in Uses(p, k) : p.items[i].mesh = m})

(* mapth: the meshes of a kind are numbered as the items come to them ...  *)
NumberOf(p, k, m) ==
  Cardinality({n \in MeshesOf(p, k) : FirstUse(p, k, n) <= FirstUse(p, k, m)})

(* Mutant of MeshPart: the number written is the place in the map. *)
MeshPart_Place(p, k) ==
  LET ms == SetToSortSeq(MeshesOf(p, k), <) IN
  IF ms = <<>> /\ k # "mesh" THEN <<>>
  ELSE <<Fixed(L(TagOf[k])), Fixed(L(Len(ms)))>>
       \o FlattenSeq([i \in DOMAIN ms |-> <<Fixed(L(i)), Fixed(M(ms[i]))>>])

(* ... and written in the order of the map, that of their addresses.       *)
MeshPart(p, k) ==
  LET ms == SetToSortSeq(MeshesOf(p, k), <) IN
  IF ms = <<>> /\ k # "mesh" THEN <<>>
  ELSE <<Fixed(L(TagOf[k])), Fixed(L(Len(ms)))>>
       \o FlattenSeq([i \in DOMAIN ms |->
                         <<Fixed(L(NumberOf(p, k, ms[i]))), Fixed(M(ms[i]))>>])

(* Send2d, Send3d, SendS, SendL and the other items; an item that is asked *)
(* for its values and is not set is replaced by -1 and its place.          *)
ItemPart(p, i) ==
  LET w == p.items[i].what
      m == p.items[i].mesh
  IN  IF m = 0 /\ w \in DOMAIN OnMesh \ SentUnasked THEN <<Fixed(L(-1)), Fixed(L(i - 1))>>
      ELSE IF w \in DOMAIN MeshItems
           THEN <<Fixed(L(w)), Fixed(L(NumberOf(p, OnMesh[w], m)))>>
      ELSE IF w \in DOMAIN FunctionItems
           THEN <<Fixed(L(w)), Fixed(L(NumberOf(p, OnMesh[w], m))), Fixed(D(w))>>
      ELSE <<Fixed(L(w)), [tok |-> D(w), eval |-> w = border]>>

Record(p) ==
  <<Fixed(L(dt_newplot))>> \o OptionPart(p)
  \o FlattenSeq([i \in 1 .. 4 |-> MeshPart(p, Kinds[i])])
  \o <<Fixed(L(dt_plots)), Fixed(L(Len(p.items)))>>
  \o FlattenSeq([i \in DOMAIN p.items |-> ItemPart(p, i)])
  \o <<Fixed(L(dt_endplot))>>

-----------------------------------------------------------------------------
(* What the client reads.  r.at is what it expects next; th[k] holds the   *)
(* meshes of kind k by their number.                                       *)
NoPlot == [args |-> <<>>, items |-> <<>>]
Reading == [at |-> "newplot", arg |-> 0, kind |-> 0, left |-> 0, num |-> 0, what |-> 0,
            imsh |-> 0, th |-> [k \in {"mesh", "mesh3", "meshS", "meshL"} |-> <<>>],
            plot |-> NoPlot]

Lost(r) == [r EXCEPT !.at = "lost"]

(* The options, until dt_endarg; one the client does not know is skipped   *)
(* by the type before it (SkipData).                                       *)
ReadOption(r, v) ==
  IF v = dt_endarg THEN [r EXCEPT !.at = "meshes"] ELSE [r EXCEPT !.at = "value", !.arg = v]
ReadValue(r, ty) ==
  IF TypeRead(r.arg) = 0 THEN [r EXCEPT !.at = "option"]
  ELSE IF TypeRead(r.arg) = ty
  THEN [r EXCEPT !.at = "option", !.plot.args = Append(@, r.arg)]
  ELSE Lost(r)

(* Meshes of a kind: their count, then each with its number.               *)
ReadCount(r, n) ==
  [r EXCEPT !.at = IF n = 0 THEN "kind" ELSE "number", !.left = n,
            !.th[Kinds[r.kind]] = [i \in 1 .. n |-> 0]]
ReadNumber(r, l) ==
  IF l \in DOMAIN r.th[Kinds[r.kind]] /\ r.th[Kinds[r.kind]][l] = 0
  THEN [r EXCEPT !.at = "mesh", !.num = l] ELSE Lost(r)

ReadMesh(r, m) ==
  [r EXCEPT !.th[Kinds[r.kind]][r.num] = m, !.left = @ - 1,
            !.at = IF r.left = 1 THEN "kind" ELSE "number"]

(* GetMeshes3: the next kind of meshes, or dt_plots; a kind that comes too *)
(* late is taken for dt_plots.                                             *)
ReadKind(r, tag) ==
  IF tag \notin {dt_plots, dt_meshes3, dt_meshesS, dt_meshesL} THEN Lost(r)
  ELSE LET next == {k \in r.kind + 1 .. 4 : TagOf[Kinds[k]] = tag} IN
       IF next = {} THEN [r EXCEPT !.at = "items"]
       ELSE [r EXCEPT !.at = "count", !.kind = CHOOSE k \in next : TRUE]

ReadWhat(r, w) ==
  IF w = -1 THEN [r EXCEPT !.at = "item", !.what = w]
  ELSE IF w \in DOMAIN OnMesh THEN [r EXCEPT !.at = "imsh", !.what = w]
  ELSE IF w \in {curve, border, hmatrix} THEN [r EXCEPT !.at = "data", !.what = w]
  ELSE Lost(r)

(* An item is complete. *)
AddItem(r, m) ==
  [r EXCEPT !.plot.items = Append(@, [what |-> r.what, mesh |-> m]), !.left = @ - 1,
            !.at = IF r.left = 1 THEN "endplot" ELSE "what"]

ReadImsh(r, l) ==
  IF l \notin DOMAIN r.th[OnMesh[r.what]] THEN Lost(r)
  ELSE IF r.what \in DOMAIN MeshItems THEN AddItem(r, r.th[OnMesh[r.what]][l])
  ELSE [r EXCEPT !.at = "data", !.imsh = l]
ReadData(r, w) ==
  IF w # r.what THEN Lost(r)
  ELSE AddItem(r, IF w \in DOMAIN OnMesh THEN r.th[OnMesh[w]][r.imsh] ELSE 0)

(* The reader takes one token; every branch that is not there is an        *)
(* assertion, or bytes read as something else.                             *)
Read(r, t) ==
  CASE r.at = "newplot" /\ t = L(dt_newplot) -> [r EXCEPT !.at = "option"]
    [] r.at = "option" /\ t[1] = "long"     -> ReadOption(r, t[2])
    [] r.at = "value" /\ t[1] = "value"     -> ReadValue(r, t[2])
    [] r.at = "meshes" /\ t = L(dt_meshes)  -> [r EXCEPT !.at = "count", !.kind = 1]
    [] r.at = "count" /\ t[1] = "long"      -> ReadCount(r, t[2])
    [] r.at = "number" /\ t[1] = "long"     -> ReadNumber(r, t[2])
    [] r.at = "mesh" /\ t[1] = "mesh"       -> ReadMesh(r, t[2])
    [] r.at = "kind" /\ t[1] = "long"       -> ReadKind(r, t[2])
    [] r.at = "items" /\ t[1] = "long"      -> [r EXCEPT !.left = t[2],
                                                 !.at = IF t[2] = 0 THEN "endplot" ELSE "what"]
    [] r.at = "what" /\ t[1] = "long"       -> ReadWhat(r, t[2])
    [] r.at = "imsh" /\ t[1] = "long"       -> ReadImsh(r, t[2])
    [] r.at = "data" /\ t[1] = "data"       -> ReadData(r, t[2])
    [] r.at = "item" /\ t[1] = "long"       -> AddItem(r, 0)
    [] r.at = "endplot" /\ t = L(dt_endplot) -> [r EXCEPT !.at = "built"]
    [] OTHER                                -> Lost(r)

-----------------------------------------------------------------------------
VARIABLES
  plots,     (* the script                                                  *)
  program,   (* "runs", "closes", "closed" or "killed"                      *)
  begun,     (* number of plot commands begun                               *)
  out,       (* what the command still has to write                         *)
  cut,       (* history: a record was left unfinished                       *)
  buf,       (* the buffer of stdio                                         *)
  flushing,  (* the buffer is being written to the pipe                     *)
  pipe,      (* the pipe                                                    *)
  reader,    (* the state of the reader, Reading between two plots          *)
  built      (* the plots read so far                                       *)

sender == <<plots, program, begun, out, cut, buf, flushing>>
vars   == <<sender, pipe, reader, built>>

Init ==
  /\ plots \in Scripts
  /\ program = "runs" /\ begun = 0
  /\ out = <<>> /\ cut = FALSE /\ buf = <<>> /\ flushing = FALSE
  /\ pipe = <<>> /\ reader = Reading /\ built = <<>>

(* A plot command begins. *)
Begin ==
  /\ program = "runs" /\ out = <<>> /\ ~flushing /\ begun < Len(plots)
  /\ begun' = begun + 1 /\ out' = Record(plots[begun + 1])
  /\ UNCHANGED <<plots, program, cut, buf, flushing, pipe, reader, built>>

(* Mutant of Write: the end of a plot does not flush the buffer. *)
Write_NoFlush ==
  /\ out # <<>> /\ ~flushing
  /\ buf' = Append(buf, Head(out).tok) /\ out' = Tail(out)
  /\ flushing' = (Len(buf') = BufRoom)
  /\ UNCHANGED <<plots, program, begun, cut, pipe, reader, built>>

(* The next token goes to the buffer, which is flushed when it is full and *)
(* at the end of the plot (SendEndPlot).                                   *)
Write ==
  /\ out # <<>> /\ ~flushing
  /\ buf' = Append(buf, Head(out).tok) /\ out' = Tail(out)
  /\ flushing' = (Len(buf') = BufRoom \/ out' = <<>>)
  /\ UNCHANGED <<plots, program, begun, cut, pipe, reader, built>>

(* An option raises: what is left of the plot is not written; the script   *)
(* goes on if it is in a try, and ends otherwise.                          *)
Raise ==
  /\ out # <<>> /\ Head(out).eval /\ ~flushing
  /\ out' = <<>> /\ cut' = TRUE /\ program' \in {"runs", "closes"}
  /\ UNCHANGED <<plots, begun, buf, flushing, pipe, reader, built>>

(* fflush writes to the pipe while there is room. *)
Flush ==
  /\ flushing /\ reader.at # "lost"
  /\ \/ buf = <<>> /\ flushing' = FALSE /\ UNCHANGED <<buf, pipe>>
     \/ /\ buf # <<>> /\ Len(pipe) < PipeRoom
        /\ pipe' = Append(pipe, Head(buf)) /\ buf' = Tail(buf)
        /\ UNCHANGED flushing
  /\ UNCHANGED <<plots, program, begun, out, cut, reader, built>>

(* The client is gone. *)
Killed ==
  /\ flushing /\ reader.at = "lost" /\ program \in {"runs", "closes"}
  /\ program' = "killed" /\ out' = <<>> /\ flushing' = FALSE
  /\ UNCHANGED <<plots, begun, cut, buf, pipe, reader, built>>

(* The end of the script: the pipe is closed after a last flush.           *)
EndOfScript ==
  /\ program = "runs" /\ out = <<>> /\ ~flushing /\ begun = Len(plots)
  /\ program' = "closes"
  /\ UNCHANGED <<plots, begun, out, cut, buf, flushing, pipe, reader, built>>
Close ==
  /\ program = "closes" /\ out = <<>> /\ ~flushing
  /\ IF buf = <<>> THEN program' = "closed" /\ UNCHANGED flushing
                   ELSE flushing' = TRUE /\ UNCHANGED program
  /\ UNCHANGED <<plots, begun, out, cut, buf, pipe, reader, built>>

(* The reader takes a token; the end of the pipe inside a plot is an       *)
(* assertion too.                                                          *)
ReadToken ==
  /\ reader.at \notin {"lost", "built"} /\ pipe # <<>>
  /\ reader' = Read(reader, Head(pipe)) /\ pipe' = Tail(pipe)
  /\ UNCHANGED <<sender, built>>
ReadEOF ==
  /\ reader.at \notin {"lost", "built", "newplot"} /\ pipe = <<>>
  /\ program \in {"closed", "killed"}
  /\ reader' = Lost(reader)
  /\ UNCHANGED <<sender, pipe, built>>

(* The constructor of ThePlot returns. *)
PlotBuilt ==
  /\ reader.at = "built"
  /\ built' = Append(built, reader.plot) /\ reader' = Reading
  /\ UNCHANGED <<sender, pipe>>

Ended ==
  /\ program \in {"closed", "killed"} /\ pipe = <<>> /\ reader.at \in {"newplot", "lost"}
  /\ UNCHANGED vars
Abandoned ==
  /\ program \in {"closed", "killed"} /\ reader.at = "lost"
  /\ UNCHANGED vars

Sender == Write \/ Flush \/ Raise \/ Killed
Client == ReadToken \/ ReadEOF \/ PlotBuilt
Next == Begin \/ EndOfScript \/ Close \/ Sender \/ Client \/ Ended \/ Abandoned

Spec == Init /\ [][Next]_vars

(* A plot that is begun goes on, and the client reads; nothing says that   *)
(* the script comes to its next plot.                                      *)
FairSpec == Spec /\ WF_vars(Sender) /\ WF_vars(Client)

-----------------------------------------------------------------------------
(* Every variable has its type, the buffer and the pipe their room.        *)
TypeOK ==
  /\ plots \in Scripts /\ program \in {"runs", "closes", "closed", "killed"}
  /\ begun \in 0 .. Len(plots) /\ Len(buf) <= BufRoom /\ Len(pipe) <= PipeRoom
  /\ flushing \in BOOLEAN /\ Len(built) <= begun
  /\ reader.kind \in 0 .. 4 /\ reader.left \in Nat

(* The plot the client should see: the options it knows, and each item on  *)
(* the mesh it is on in the script.                                        *)
Seen(p) ==
  [args |-> SelectSeq(p.args, LAMBDA k : k \notin {41, 42}),
   items |-> [i \in DOMAIN p.items |->
                IF p.items[i].mesh = 0 /\ p.items[i].what \in DOMAIN OnMesh
                THEN [what |-> -1, mesh |-> 0] ELSE p.items[i]]]

(* The plots read are the plots of the script, in order, with the same     *)
(* options and each item on its own mesh: also when a record was cut, no   *)
(* plot is made of the pieces of two.                                      *)
BuiltIsSent == \A n \in DOMAIN built : built[n] = Seen(plots[n])

(* The reader gets what it waits for unless a record was cut: what Send    *)
(* writes for each option, mesh and item is what ThePlot reads.            *)
LostByCutOnly == TypeOK /\ (reader.at = "lost" => cut)

(* "Error Check : get ... == wait for" (PlotStream.hpp:154) and            *)
(* assert(c==cc) (PlotStream.hpp:249): the reader always gets what it      *)
(* waits for.                                                              *)
ReaderFollows == reader.at # "lost"

(* A plot whose command came to its end is built, though the script        *)
(* computes for ever before its next plot or cuts that one.                *)
Delivered ==
  \A n \in 1 .. 2 : (begun = n /\ out = <<>> /\ ~cut) ~> (Len(built) >= n)
==============================================================================
