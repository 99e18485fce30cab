-------------------------- MODULE PlotClient_proofs --------------------------
(***************************************************************************)
(* Proofs about PlotClient, for any scripts, any windows, any number of    *)
(* plots a window keeps and any room in the pipe.                          *)
(***************************************************************************)
EXTENDS PlotClient, SequenceTheorems, TLAPS

WindowOf(S) == [open : BOOLEAN, lplots : Seq(S), icurrentPlot : Nat, theplot : S \cup {0}]

(* What holds of a window: its view is on a plot it keeps, and it keeps    *)
(* plots in the order they were made, none of them past the last taken.    *)
InView(W) ==
  IF W.lplots = <<>> THEN W.icurrentPlot = 0 /\ W.theplot = 0
  ELSE W.icurrentPlot \in 1 .. Len(W.lplots) /\ W.theplot = W.lplots[W.icurrentPlot]
Increasing(l, last) ==
  /\ \A i \in 1 .. Len(l) : l[i] <= last
  /\ \A i, j \in 1 .. Len(l) : i < j => l[i] < l[j]

Increased == \A w \in Windows : Increasing(win[w].lplots, Len(shown))

(* The last plot taken is the last one its window keeps.                   *)
CurrentKept ==
  currentPlot # 0 =>
    LET l == win[plots[currentPlot].win].lplots IN l # <<>> /\ l[Len(l)] = currentPlot

(* InOrder, place by place.                                                *)
InHand == Len(shown) + (IF nextPlot = 0 THEN 0 ELSE 1) + (IF got = 0 THEN 0 ELSE 1)
Ranked ==
  /\ \A i \in 1 .. Len(shown) : shown[i] = i
  /\ nextPlot # 0 => nextPlot = Len(shown) + 1
  /\ got # 0 => nextPlot = 0 /\ got = Len(shown) + 1
  /\ \A i \in 1 .. Len(pipe) : pipe[i] = InHand + i
  /\ sent = InHand + Len(pipe)

(* Where the threads are.                                                  *)
Control ==
  /\ inThreadRead <=> reader # "none"
  /\ got # 0 <=> reader = "built"
  /\ loop \in {"main", "first"} => reader = "none"
  /\ loop = "main" => nextPlot = 0 /\ shown = <<>>
  /\ loop = "fin9" => interrupted
  /\ NoMorePlot => program # "runs" /\ reader \notin {"started", "reading", "built"}
  /\ program \in {"closed", "done"} => sent = Len(plots)

Inv ==
  /\ TypeOK /\ AssertNoNext /\ OneTimer /\ Control /\ Ranked
  /\ ViewAlive /\ Increased /\ CurrentKept /\ NeverKilled

-----------------------------------------------------------------------------
(* Lists of plots. *)

(* The record of a window.                                                 *)
LEMMA WindowRecord ==
  ASSUME NEW S, NEW b \in BOOLEAN, NEW l \in Seq(S), NEW i \in Nat, NEW p \in S \cup {0}
  PROVE  [open |-> b, lplots |-> l, icurrentPlot |-> i, theplot |-> p] \in WindowOf(S)
BY DEF WindowOf

(* A plot added to a window is the last one it keeps.                      *)
LEMMA AddedPlot ==
  ASSUME NEW S \in SUBSET Nat, NEW W \in WindowOf(S), NEW p \in S,
         InView(W), NEW last \in Nat, Increasing(W.lplots, last), p = last + 1
  PROVE  /\ AddPlot(W, p) \in WindowOf(S)
         /\ InView(AddPlot(W, p))
         /\ Increasing(AddPlot(W, p).lplots, p)
         /\ AddPlot(W, p).lplots # <<>>
         /\ AddPlot(W, p).lplots[Len(AddPlot(W, p).lplots)] = p
<1> DEFINE l == Append(W.lplots, p)
           n == Len(W.lplots)
           i == W.icurrentPlot + 1
<1>1. W.lplots \in Seq(S) /\ n \in Nat /\ W.icurrentPlot \in 0 .. n
  BY DEF WindowOf, InView
<1>2. W.lplots # <<>> => W.icurrentPlot >= 1
  BY DEF InView
<1>3. /\ l \in Seq(S) /\ Len(l) = n + 1
      /\ \A k \in 1 .. n : l[k] = W.lplots[k]
      /\ l[n + 1] = p
  BY <1>1
<1>4. \A k \in 1 .. n : W.lplots[k] \in S
  BY <1>1, ElementOfSeq
<1>5. \A k \in 1 .. n + 1 : l[k] \in S /\ l[k] \in Nat
  BY <1>3, ElementOfSeq
<1>6. Increasing(l, p)
  <2>1. \A k \in 1 .. n : l[k] <= last
    BY <1>1, <1>3 DEF Increasing
  <2>2. \A j, k \in 1 .. n : j < k => l[j] < l[k]
    BY <1>1, <1>3 DEF Increasing
  <2> HIDE DEF l, n
  <2> QED
    BY <1>1, <1>3, <1>5, <2>1, <2>2 DEF Increasing
<1>7. i \in 1 .. n + 1 /\ ~(i > Len(l)) /\ i - 1 = W.icurrentPlot
  BY <1>1, <1>3
<1>8. AddPlot(W, p) =
        [open |-> TRUE, lplots |-> IF Len(l) > Keep THEN Tail(l) ELSE l,
         icurrentPlot |-> IF Len(l) > Keep THEN i - 1 ELSE i,
         theplot |-> IF Len(l) > Keep /\ l[i] = Head(l) THEN Head(Tail(l)) ELSE l[i]]
  BY <1>7 DEF AddPlot
<1>9. CASE Len(l) > Keep
  <2>1. n >= 1 /\ l # <<>> /\ W.lplots # <<>>
    BY <1>9, <1>1, <1>3, KeepAssumption
  <2>2. i >= 2
    BY <2>1, <1>1, <1>2
  <2> HIDE DEF l, n, i
  <2>3. /\ Tail(l) \in Seq(S) /\ Len(Tail(l)) = n
        /\ \A k \in 1 .. n : Tail(l)[k] = l[k + 1]
        /\ Head(l) = l[1]
    BY <1>1, <1>3, <2>1, HeadTailProperties
  <2>4. l[1] < l[i]
    BY <1>1, <1>3, <1>6, <1>7, <2>1, <2>2 DEF Increasing
  <2>5. l[1] # l[i] /\ l[i] \in S
    BY <1>3, <1>5, <1>7, <2>1, <2>4, <1>1
  <2>6. AddPlot(W, p) = [open |-> TRUE, lplots |-> Tail(l), icurrentPlot |-> i - 1,
                         theplot |-> l[i]]
    BY <1>8, <1>9, <2>3, <2>5
  <2>7. Increasing(Tail(l), p)
    <3>1. \A k \in 1 .. n : k + 1 \in 1 .. Len(l) /\ Tail(l)[k] = l[k + 1]
      BY <1>1, <1>3, <2>3
    <3>2. Len(l) = n + 1 /\ Len(Tail(l)) = n /\ n \in Nat
      BY <1>1, <1>3, <2>3
    <3>3. ASSUME NEW k \in 1 .. n PROVE Tail(l)[k] <= p
      BY <1>6, <3>1 DEF Increasing
    <3>4. ASSUME NEW j \in 1 .. n, NEW k \in 1 .. n, j < k PROVE Tail(l)[j] < Tail(l)[k]
      <4>1. j + 1 \in 1 .. Len(l) /\ k + 1 \in 1 .. Len(l) /\ j + 1 < k + 1
        BY <3>2, <3>4
      <4>2. l[j + 1] < l[k + 1]
        BY <1>6, <4>1 DEF Increasing
      <4> QED
        BY <3>1, <4>2
    <3> QED
      BY <3>2, <3>3, <3>4 DEF Increasing
  <2>8. i - 1 \in 1 .. n /\ Tail(l)[i - 1] = l[i] /\ Tail(l)[n] = p
    <3>1. i - 1 \in 1 .. n /\ (i - 1) + 1 = i /\ n \in 1 .. n
      BY <1>1, <1>3, <1>7, <2>1, <2>2
    <3>2. Tail(l)[i - 1] = l[(i - 1) + 1] /\ Tail(l)[n] = l[n + 1]
      BY <2>3, <3>1
    <3> QED
      BY <1>3, <3>1, <3>2
  <2>9. Tail(l) # <<>>
    <3>1. Len(Tail(l)) # 0
      BY <1>1, <2>1, <2>3
    <3> QED
      BY <3>1, EmptySeq
  <2>10. i - 1 \in Nat /\ l[i] \in S \cup {0}
    BY <1>1, <2>5, <2>8
  <2>11. AddPlot(W, p) \in WindowOf(S)
    BY <2>3, <2>6, <2>10, WindowRecord
  <2>12. /\ AddPlot(W, p).lplots = Tail(l) /\ AddPlot(W, p).icurrentPlot = i - 1
         /\ AddPlot(W, p).theplot = l[i]
    BY <2>6
  <2> QED
    BY <2>3, <2>7, <2>8, <2>9, <2>11, <2>12 DEF InView
<1>10. CASE ~(Len(l) > Keep)
  <2> HIDE DEF l, n, i
  <2>1. AddPlot(W, p) = [open |-> TRUE, lplots |-> l, icurrentPlot |-> i, theplot |-> l[i]]
    BY <1>8, <1>10
  <2>2. l[i] \in S /\ l # <<>>
    BY <1>1, <1>3, <1>5, <1>7, EmptySeq
  <2>3. i \in Nat /\ l[i] \in S \cup {0}
    BY <1>1, <1>7, <2>2
  <2>4. AddPlot(W, p) \in WindowOf(S)
    BY <1>3, <2>1, <2>3, WindowRecord
  <2> QED
    BY <1>3, <1>6, <1>7, <2>1, <2>2, <2>4 DEF InView
<1> QED
  BY <1>9, <1>10
-----------------------------------------------------------------------------
(* Steps. *)

(* Plots are numbered from 1, and each has its window.                     *)
LEMMA PlotFacts ==
  ASSUME TypeOK
  PROVE  /\ Len(plots) \in Nat /\ Plots \in SUBSET Nat /\ 0 \notin Plots
         /\ \A i \in Plots : plots[i].win \in Windows
         /\ win \in [Windows -> WindowOf(Plots)]
<1>1. plots \in Seq([win : Windows, wait : BOOLEAN])
  BY ScriptsAssumption DEF TypeOK
<1>2. Len(plots) \in Nat /\ \A i \in Plots : plots[i] \in [win : Windows, wait : BOOLEAN]
  <2> DEFINE S == [win : Windows, wait : BOOLEAN]
  <2>1. plots \in Seq(S)
    BY <1>1
  <2> HIDE DEF S
  <2>2. Len(plots) \in Nat /\ \A i \in 1 .. Len(plots) : plots[i] \in S
    BY <2>1, ElementOfSeq
  <2> QED
    BY <2>2 DEF S, Plots
<1> QED
  BY <1>2 DEF TypeOK, Plots, WindowOf

(* The plot at the head of the pipe.                                       *)
LEMMA HeadOfPipe ==
  ASSUME TypeOK, pipe # <<>>
  PROVE  /\ Head(pipe) \in Plots /\ Head(pipe) # 0 /\ Tail(pipe) \in Seq(Plots)
         /\ Head(pipe) = pipe[1]
         /\ Len(pipe) \in Nat /\ Len(pipe) >= 1 /\ Len(Tail(pipe)) = Len(pipe) - 1
         /\ \A i \in 1 .. Len(pipe) - 1 : Tail(pipe)[i] = pipe[i + 1]
<1>1. pipe \in Seq(Plots)
  BY DEF TypeOK
<1> QED
  BY <1>1, HeadTailProperties, EmptySeq, PlotFacts

(* The view of a window goes to another plot of the window.                *)
Moved(f, w, i) == [f EXCEPT ![w].icurrentPlot = i, ![w].theplot = f[w].lplots[i]]
(* The view stays on a plot the window keeps.                              *)
LEMMA MovedView ==
  ASSUME NEW S, NEW f \in [Windows -> WindowOf(S)], NEW w \in Windows,
         NEW i \in 1 .. Len(f[w].lplots), f[w].lplots # <<>>,
         \A k \in Windows : InView(f[k])
  PROVE  /\ Moved(f, w, i) \in [Windows -> WindowOf(S)]
         /\ \A k \in Windows : Moved(f, w, i)[k].lplots = f[k].lplots /\ InView(Moved(f, w, i)[k])
<1> DEFINE g == Moved(f, w, i)
<1>1. f[w].lplots \in Seq(S)
  BY DEF WindowOf
<1>2. f[w].lplots[i] \in S /\ i \in Nat
  BY <1>1, ElementOfSeq
<1>3. /\ g \in [Windows -> WindowOf(S)]
      /\ \A k \in Windows : g[k].lplots = f[k].lplots
      /\ \A k \in Windows \ {w} : g[k] = f[k]
      /\ g[w].icurrentPlot = i /\ g[w].theplot = f[w].lplots[i]
  BY <1>2 DEF WindowOf, Moved
<1>4. InView(g[w])
  BY <1>3 DEF InView
<1> HIDE DEF g
<1>5. \A k \in Windows : g[k].lplots = f[k].lplots /\ InView(g[k])
  BY <1>3, <1>4
<1> QED
  BY <1>3, <1>5 DEF g

(* Where the threads are after a step.                                     *)
LEMMA ControlStep ==
  ASSUME TypeOK, AssertNoNext, OneTimer, Control, [Next]_vars
  PROVE  (AssertNoNext /\ OneTimer /\ Control)'
<1> USE DEF TypeOK, AssertNoNext, OneTimer, Control, stream, thread, next, glut, user
<1>1. CASE SendPlot
  BY <1>1 DEF SendPlot
<1>2. CASE WriteToNobody
  BY <1>2 DEF WriteToNobody
<1>3. CASE ClosePipe
  BY <1>3 DEF ClosePipe
<1>4. CASE ClientEnded
  BY <1>4 DEF ClientEnded
<1>5. CASE StartRead
  BY <1>5 DEF StartRead
<1>6. CASE BuildPlot
  BY <1>6, HeadOfPipe DEF BuildPlot, TypeOK, AssertNoNext, OneTimer, Control, stream, thread,
    next, glut, user
<1>7. CASE PublishPlot
  BY <1>7 DEF PublishPlot
<1>8. CASE ReadEnd
  BY <1>8 DEF ReadEnd
<1>9. CASE ExitRead
  BY <1>9 DEF ExitRead
<1>10. CASE ReadFirstPlot
  BY <1>10, HeadOfPipe DEF ReadFirstPlot, TypeOK, AssertNoNext, OneTimer, Control, stream,
    thread, next, glut, user
<1>11. CASE NoFirstPlot
  BY <1>11 DEF NoFirstPlot
<1>12. CASE TryFirstPlot
  BY <1>12 DEF TryFirstPlot, TakeNextPlot, Joined, LauchNextRead
<1>13. CASE TimerTooEarly
  BY <1>13 DEF TimerTooEarly
<1>14. CASE TimerNextPlot
  BY <1>14 DEF TimerNextPlot
<1>15. CASE TryNewPlot
  <2>1. nbSendForNextPlot = 1 /\ timers = 0
    BY <1>15 DEF TryNewPlot, OneTimer, TypeOK
  <2>2. loop' = "taken" /\ nbSendForNextPlot' = 0 /\ timers' = 0
    BY <1>15, <2>1 DEF TryNewPlot
  <2>3. OneTimer'
    BY <2>2 DEF OneTimer
  <2>4. AssertNoNext'
    BY <1>15, <2>2 DEF TryNewPlot, TakeNextPlot, AssertNoNext
  <2>5. reader # "built" /\ got = 0
    BY <1>15 DEF TryNewPlot, TakeNextPlot, Joined, Control
  <2>6. Control'
    BY <1>15, <2>2, <2>5 DEF TryNewPlot, TakeNextPlot, LauchNextRead, Control, TypeOK, stream
  <2> QED
    BY <2>3, <2>4, <2>6
<1>16. CASE EndTryNewPlot
  BY <1>16 DEF EndTryNewPlot
<1>17. CASE Fin
  BY <1>17 DEF Fin, Joined
<1>18. ASSUME NEW w \in Windows, Display(w) PROVE (AssertNoNext /\ OneTimer /\ Control)'
  BY <1>18 DEF Display, SendForNextPlot
<1>19. ASSUME NEW w \in Windows, Expose(w) PROVE (AssertNoNext /\ OneTimer /\ Control)'
  BY <1>19 DEF Expose
<1>20. ASSUME NEW w \in Windows, KeyReturn(w) PROVE (AssertNoNext /\ OneTimer /\ Control)'
  BY <1>20 DEF KeyReturn, Typed, SendForNextPlot
<1>21. ASSUME NEW w \in Windows, KeyPrevious(w) PROVE (AssertNoNext /\ OneTimer /\ Control)'
  BY <1>21 DEF KeyPrevious, Typed
<1>22. ASSUME NEW w \in Windows, KeyEscape(w) PROVE (AssertNoNext /\ OneTimer /\ Control)'
  BY <1>22 DEF KeyEscape, Typed
<1>23. ASSUME NEW w \in Windows, KeyInterrupt(w) PROVE (AssertNoNext /\ OneTimer /\ Control)'
  BY <1>23 DEF KeyInterrupt, Typed
<1>24. CASE UNCHANGED vars
  BY <1>24 DEF vars
<1> QED
  BY <1>1, <1>2, <1>3, <1>4, <1>5, <1>6, <1>7, <1>8, <1>9, <1>10, <1>11, <1>12, <1>13, <1>14,
    <1>15, <1>16, <1>17, <1>18, <1>19, <1>20, <1>21, <1>22, <1>23, <1>24 DEF Next, Program,
    Reader, Main, User, Ended

(* The step of the loop that takes a plot.                                 *)
Taken == TakeNextPlot /\ loop \in {"first", "taking"}
(* Which steps touch the plots on their way, and which the windows.        *)
LEMMA Quiet ==
  ASSUME [Next]_vars
  PROVE  /\ plots' = plots
         /\ \/ SendPlot \/ BuildPlot \/ PublishPlot \/ ReadFirstPlot
            \/ Taken /\ UNCHANGED <<sent, pipe, got>>
            \/ UNCHANGED <<sent, pipe, got, nextPlot, shown>>
         /\ \/ ReadFirstPlot \/ Taken
            \/ (\E w \in Windows : KeyReturn(w) \/ KeyPrevious(w)) /\ UNCHANGED <<shown, currentPlot>>
            \/ UNCHANGED <<win, shown, currentPlot>>
<1> DEFINE Goal ==
         /\ plots' = plots
         /\ \/ SendPlot \/ BuildPlot \/ PublishPlot \/ ReadFirstPlot
            \/ Taken /\ UNCHANGED <<sent, pipe, got>>
            \/ UNCHANGED <<sent, pipe, got, nextPlot, shown>>
         /\ \/ ReadFirstPlot \/ Taken
            \/ (\E k \in Windows : KeyReturn(k) \/ KeyPrevious(k)) /\ UNCHANGED <<shown, currentPlot>>
            \/ UNCHANGED <<win, shown, currentPlot>>
<1> USE DEF stream, thread, next, glut, user, Taken
<1>1. CASE SendPlot
  BY <1>1 DEF SendPlot
<1>2. CASE WriteToNobody
  BY <1>2 DEF WriteToNobody
<1>3. CASE ClosePipe
  BY <1>3 DEF ClosePipe
<1>4. CASE ClientEnded
  BY <1>4 DEF ClientEnded
<1>5. CASE StartRead
  BY <1>5 DEF StartRead
<1>6. CASE BuildPlot
  BY <1>6 DEF BuildPlot
<1>7. CASE PublishPlot
  BY <1>7 DEF PublishPlot
<1>8. CASE ReadEnd
  BY <1>8 DEF ReadEnd
<1>9. CASE ExitRead
  BY <1>9 DEF ExitRead
<1>10. CASE ReadFirstPlot
  BY <1>10 DEF ReadFirstPlot
<1>11. CASE NoFirstPlot
  BY <1>11 DEF NoFirstPlot
<1>12. CASE TryFirstPlot
  BY <1>12, Zenon DEF TryFirstPlot, Taken, stream
<1>13. CASE TimerTooEarly
  BY <1>13 DEF TimerTooEarly
<1>14. CASE TimerNextPlot
  BY <1>14 DEF TimerNextPlot
<1>15. CASE TryNewPlot
  BY <1>15, Zenon DEF TryNewPlot, Taken, stream
<1>16. CASE EndTryNewPlot
  BY <1>16 DEF EndTryNewPlot
<1>17. CASE Fin
  BY <1>17 DEF Fin, Joined
<1>18. ASSUME NEW w \in Windows, Display(w) PROVE Goal
  BY <1>18 DEF Display, SendForNextPlot
<1>19. ASSUME NEW w \in Windows, Expose(w) PROVE Goal
  BY <1>19 DEF Expose
<1>20. ASSUME NEW w \in Windows, KeyReturn(w) PROVE Goal
  BY <1>20 DEF KeyReturn, Typed, SendForNextPlot
<1>21. ASSUME NEW w \in Windows, KeyPrevious(w) PROVE Goal
  BY <1>21 DEF KeyPrevious, Typed
<1>22. ASSUME NEW w \in Windows, KeyEscape(w) PROVE Goal
  BY <1>22 DEF KeyEscape, Typed
<1>23. ASSUME NEW w \in Windows, KeyInterrupt(w) PROVE Goal
  BY <1>23 DEF KeyInterrupt, Typed
<1>24. CASE UNCHANGED vars
  BY <1>24 DEF vars
<1> QED
  BY <1>1, <1>2, <1>3, <1>4, <1>5, <1>6, <1>7, <1>8, <1>9, <1>10, <1>11, <1>12, <1>13, <1>14,
    <1>15, <1>16, <1>17, <1>18, <1>19, <1>20, <1>21, <1>22, <1>23, <1>24 DEF Next, Program,
    Reader, Main, User, Ended

(* The plot a step of the loop takes.                                      *)
LEMMA TakenPlot ==
  ASSUME TypeOK, AssertNoNext, Control, Ranked, Taken
  PROVE  /\ nextPlot \in Plots /\ nextPlot = Len(shown) + 1 /\ got = 0 /\ Len(shown) \in Nat
         /\ Len(shown') = Len(shown) + 1 /\ shown' \in Seq(Plots)
         /\ \A i \in 1 .. Len(shown) : shown'[i] = shown[i]
         /\ shown'[Len(shown) + 1] = nextPlot
<1>1. nextPlot \in Plots /\ nextPlot # 0 /\ shown \in Seq(Plots)
  BY DEF Taken, AssertNoNext, TypeOK
<1>2. nextPlot = Len(shown) + 1
  BY <1>1 DEF Ranked
<1>3. got = 0
  BY DEF Taken, TakeNextPlot, Joined, Control
<1>4. shown' = Append(shown, nextPlot)
  BY DEF Taken, TakeNextPlot
<1> QED
  BY <1>1, <1>2, <1>3, <1>4

(* The places of the plots after a step.                                   *)
LEMMA RankedStep ==
  ASSUME TypeOK, AssertNoNext, Control, Ranked, [Next]_vars
  PROVE  Ranked'
<1>1. Len(shown) \in Nat /\ Len(pipe) \in Nat /\ pipe \in Seq(Plots) /\ sent \in Nat
  BY PlotFacts DEF TypeOK
<1>2. CASE SendPlot
  <2>1. /\ Len(pipe') = Len(pipe) + 1 /\ pipe'[Len(pipe) + 1] = sent + 1
        /\ \A i \in 1 .. Len(pipe) : pipe'[i] = pipe[i]
    BY <1>1, <1>2 DEF SendPlot
  <2>2. sent' = sent + 1 /\ UNCHANGED <<shown, nextPlot, got>>
    BY <1>2 DEF SendPlot, thread, next
  <2>3. InHand' = InHand /\ InHand \in Nat
    <3>1. InHand' = InHand
      BY <2>2 DEF InHand
    <3>2. \E a, b \in {0, 1} : InHand = Len(shown) + a + b
      BY DEF InHand
    <3>3. InHand \in Nat
      BY <1>1, <3>2
    <3> QED
      BY <3>1, <3>3
  <2>4. sent' = InHand' + Len(pipe')
    BY <1>1, <2>1, <2>2, <2>3 DEF Ranked
  <2>5. \A i \in 1 .. Len(pipe) + 1 : pipe'[i] = InHand + i
    BY <1>1, <2>1, <2>3 DEF Ranked
  <2> QED
    BY <1>1, <2>1, <2>2, <2>3, <2>4, <2>5 DEF Ranked
<1>3. CASE BuildPlot
  <2>1. nextPlot = 0 /\ got = 0
    BY <1>3 DEF BuildPlot, AssertNoNext, Control
  <2>2. pipe # <<>> /\ got' = Head(pipe) /\ pipe' = Tail(pipe) /\ UNCHANGED <<shown, nextPlot, sent>>
    BY <1>3 DEF BuildPlot, next
  <2>3. InHand = Len(shown) /\ InHand' = InHand + 1
    BY <1>1, <2>1, <2>2, HeadOfPipe DEF InHand
  <2>4. got' = Len(shown) + 1
    BY <1>1, <2>2, <2>3, HeadOfPipe DEF Ranked
  <2>5. \A i \in 1 .. Len(pipe) - 1 : pipe[i + 1] = InHand + i + 1
    BY <1>1, <2>3 DEF Ranked
  <2> QED
    BY <1>1, <2>1, <2>2, <2>3, <2>4, <2>5, HeadOfPipe DEF Ranked
<1>4. CASE PublishPlot
  <2>1. got # 0 /\ nextPlot = 0 /\ nextPlot' = got /\ got' = 0
    BY <1>4 DEF PublishPlot, Control, Ranked
  <2>2. UNCHANGED <<shown, pipe, sent>>
    BY <1>4 DEF PublishPlot, stream
  <2>3. InHand' = InHand
    BY <2>1, <2>2 DEF InHand
  <2> QED
    BY <2>1, <2>2, <2>3 DEF Ranked
<1>5. CASE ReadFirstPlot
  <2>1. nextPlot = 0 /\ got = 0
    BY <1>5 DEF ReadFirstPlot, Control
  <2>2. /\ pipe # <<>> /\ nextPlot' = Head(pipe) /\ pipe' = Tail(pipe)
        /\ UNCHANGED <<shown, got, sent>>
    BY <1>5 DEF ReadFirstPlot, thread
  <2>3. InHand = Len(shown) /\ InHand' = InHand + 1
    BY <1>1, <2>1, <2>2, HeadOfPipe DEF InHand
  <2>4. nextPlot' = Len(shown) + 1
    BY <1>1, <2>2, <2>3, HeadOfPipe DEF Ranked
  <2>5. \A i \in 1 .. Len(pipe) - 1 : pipe[i + 1] = InHand + i + 1
    BY <1>1, <2>3 DEF Ranked
  <2> QED
    BY <1>1, <2>1, <2>2, <2>3, <2>4, <2>5, HeadOfPipe DEF Ranked
<1>6. CASE Taken /\ UNCHANGED <<sent, pipe, got>>
  <2>1. nextPlot' = 0 /\ nextPlot # 0
    BY <1>6, TakenPlot, PlotFacts DEF Taken, TakeNextPlot
  <2>2. InHand' = InHand
    BY <1>6, <2>1, TakenPlot DEF InHand
  <2>3. \A i \in 1 .. Len(shown) + 1 : shown'[i] = i
    BY <1>1, <1>6, TakenPlot DEF Ranked
  <2> QED
    BY <1>6, <2>1, <2>2, <2>3, TakenPlot DEF Ranked
<1>7. CASE UNCHANGED <<sent, pipe, got, nextPlot, shown>>
  BY <1>7 DEF Ranked, InHand
<1> QED
  BY <1>2, <1>3, <1>4, <1>5, <1>6, <1>7, Quiet

(* The windows after a step.                                               *)
Windowed == ViewAlive /\ Increased /\ CurrentKept
(* A step keeps the views alive, the lists ordered and the current plot.   *)
LEMMA WindowStep ==
  ASSUME TypeOK, AssertNoNext, Control, Ranked, Windowed, [Next]_vars
  PROVE  win' \in [Windows -> WindowOf(Plots)] /\ Windowed'
<1>1. /\ win \in [Windows -> WindowOf(Plots)] /\ plots' = plots
      /\ \A w \in Windows : InView(win[w]) /\ Increasing(win[w].lplots, Len(shown))
      /\ currentPlot \in Plots \cup {0} /\ \A i \in Plots : plots[i].win \in Windows
  BY PlotFacts, Quiet DEF Windowed, ViewAlive, InView, Increased, TypeOK
<1>2. ASSUME win' \in [Windows -> WindowOf(Plots)], UNCHANGED <<shown, currentPlot>>,
             \A w \in Windows : win'[w].lplots = win[w].lplots /\ InView(win'[w])
      PROVE  Windowed'
  BY <1>1, <1>2 DEF Windowed, ViewAlive, InView, Increased, CurrentKept
<1>3. CASE ReadFirstPlot
  <2>1. win' = [win EXCEPT ![0].open = TRUE] /\ UNCHANGED <<shown, currentPlot>>
    BY <1>3 DEF ReadFirstPlot
  <2>2. /\ win' \in [Windows -> WindowOf(Plots)]
        /\ \A w \in Windows : /\ win'[w].lplots = win[w].lplots
                              /\ win'[w].icurrentPlot = win[w].icurrentPlot
                              /\ win'[w].theplot = win[w].theplot
    BY <1>1, <2>1, WindowsAssumption DEF WindowOf
  <2>3. \A w \in Windows : win'[w].lplots = win[w].lplots /\ InView(win'[w])
    BY <1>1, <2>2 DEF InView
  <2> QED
    BY <1>2, <2>1, <2>2, <2>3
<1>4. CASE Taken
  <2> DEFINE W == plots[nextPlot].win
             A == AddPlot(win[W], nextPlot)
  <2>1. W \in Windows /\ win' = [win EXCEPT ![W] = A] /\ currentPlot' = nextPlot
    BY <1>1, <1>4, TakenPlot DEF Taken, TakeNextPlot
  <2>2. /\ A \in WindowOf(Plots) /\ InView(A) /\ Increasing(A.lplots, nextPlot)
        /\ A.lplots # <<>> /\ A.lplots[Len(A.lplots)] = nextPlot
    <3>1. nextPlot \in Plots /\ nextPlot = Len(shown) + 1 /\ Len(shown) \in Nat
      BY <1>1, <1>4, TakenPlot
    <3>2. Plots \in SUBSET Nat /\ win[W] \in WindowOf(Plots)
      BY <1>1, <2>1, PlotFacts
    <3>3. InView(win[W]) /\ Increasing(win[W].lplots, Len(shown))
      BY <1>1, <2>1
    <3> QED
      BY <3>1, <3>2, <3>3, AddedPlot
  <2> HIDE DEF W, A
  <2>3. win' \in [Windows -> WindowOf(Plots)]
    BY <1>1, <2>1, <2>2
  <2>4. \A w \in Windows : win'[w] = IF w = W THEN A ELSE win[w]
    BY <1>1, <2>1
  <2>5. ViewAlive'
    BY <1>1, <2>2, <2>4 DEF ViewAlive, InView
  <2>6. Increased'
    <3> SUFFICES ASSUME NEW w \in Windows PROVE Increasing(win'[w].lplots, Len(shown'))
      BY DEF Increased
    <3>1. CASE w = W
      BY <1>4, <2>2, <2>4, <3>1, TakenPlot
    <3>2. CASE w # W
      <4>1. win'[w] = win[w] /\ win[w].lplots \in Seq(Plots)
        BY <1>1, <2>4, <3>2 DEF WindowOf
      <4>2. \A i \in 1 .. Len(win[w].lplots) : win[w].lplots[i] \in Nat
        BY <4>1, ElementOfSeq, PlotFacts
      <4> QED
        BY <1>1, <1>4, <4>1, <4>2, TakenPlot DEF Increasing
    <3> QED
      BY <3>1, <3>2
  <2>7. CurrentKept'
    <3>1. plots'[currentPlot'].win = W
      BY <1>1, <2>1 DEF W
    <3> QED
      BY <2>1, <2>2, <2>4, <3>1 DEF CurrentKept
  <2> QED
    BY <2>3, <2>5, <2>6, <2>7 DEF Windowed
<1>5. ASSUME NEW w \in Windows, KeyReturn(w), UNCHANGED <<shown, currentPlot>>
      PROVE  win' \in [Windows -> WindowOf(Plots)] /\ Windowed'
  <2>1. CASE win' = win
    BY <1>1, <1>2, <1>5, <2>1
  <2>2. CASE win' # win
    <3> DEFINE l == win[w].lplots
               i == win[w].icurrentPlot + 1
    <3>1. i # Len(l) + 1 /\ win' = [win EXCEPT ![w].icurrentPlot = i, ![w].theplot = l[i]]
      BY <1>1, <1>5, <2>2 DEF KeyReturn, WindowOf
    <3>2. l # <<>> /\ win[w].icurrentPlot \in 1 .. Len(l)
      BY <1>1, <1>5 DEF KeyReturn, Typed, InView
    <3>3. i \in 1 .. Len(l)
      BY <1>1, <3>1, <3>2, PlotFacts DEF WindowOf
    <3>4. win' = Moved(win, w, i)
      BY <3>1 DEF Moved
    <3> HIDE DEF i
    <3>5. win' \in [Windows -> WindowOf(Plots)]
      BY <1>1, <3>2, <3>3, <3>4, MovedView
    <3>6. \A k \in Windows : win'[k].lplots = win[k].lplots /\ InView(win'[k])
      BY <1>1, <3>2, <3>3, <3>4, MovedView
    <3> QED
      BY <1>2, <1>5, <3>5, <3>6
  <2> QED
    BY <2>1, <2>2
<1>6. ASSUME NEW w \in Windows, KeyPrevious(w), UNCHANGED <<shown, currentPlot>>
      PROVE  win' \in [Windows -> WindowOf(Plots)] /\ Windowed'
  <2> DEFINE l == win[w].lplots
             i == win[w].icurrentPlot - 1
  <2>1. i >= 1 /\ win' = [win EXCEPT ![w].icurrentPlot = i, ![w].theplot = l[i]]
    BY <1>1, <1>6 DEF KeyPrevious, WindowOf
  <2>2. l # <<>> /\ win[w].icurrentPlot \in 1 .. Len(l)
    BY <1>1, <1>6 DEF KeyPrevious, Typed, InView
  <2>3. i \in 1 .. Len(l)
    BY <1>1, <2>1, <2>2 DEF WindowOf
  <2>4. win' = Moved(win, w, i)
    BY <2>1 DEF Moved
  <2> HIDE DEF i
  <2>5. win' \in [Windows -> WindowOf(Plots)]
    BY <1>1, <2>2, <2>3, <2>4, MovedView
  <2>6. \A k \in Windows : win'[k].lplots = win[k].lplots /\ InView(win'[k])
    BY <1>1, <2>2, <2>3, <2>4, MovedView
  <2> QED
    BY <1>2, <1>6, <2>5, <2>6
<1>7. CASE UNCHANGED <<win, shown, currentPlot>>
  BY <1>1, <1>2, <1>7
<1> QED
  BY <1>3, <1>4, <1>5, <1>6, <1>7, Quiet

(* The types after a step.                                                 *)
TypeRest ==
  /\ program \in {"runs", "closed", "done", "killed"}
  /\ sent \in 0 .. Len(plots) /\ pipe \in Seq(Plots)
  /\ reader \in {"none", "started", "reading", "built", "leaving", "exited"}
  /\ got \in Plots \cup {0} /\ inThreadRead \in BOOLEAN
  /\ nextPlot \in Plots \cup {0} /\ currentPlot \in Plots \cup {0}
  /\ NoMorePlot \in BOOLEAN
  /\ loop \in {"main", "first", "events", "taking", "taken", "fin0", "fin9", "exited"}
  /\ nbSendForNextPlot \in Nat /\ timers \in Nat /\ redisplay \subseteq Windows
  /\ gwait \in BOOLEAN /\ interrupted \in BOOLEAN /\ shown \in Seq(Plots)
(* Every variable but win keeps its type.                                  *)
LEMMA TypeRestStep ==
  ASSUME TypeOK, AssertNoNext, OneTimer, Control, Ranked, [Next]_vars
  PROVE  TypeRest'
<1> USE DEF TypeRest
<1>0. TypeRest /\ plots' = plots /\ Plots' = Plots
  BY Quiet DEF TypeOK, Plots
<1> USE DEF stream, thread, next, glut, user
<1>1. CASE SendPlot
  <2>1. sent + 1 \in Plots
    BY <1>0, <1>1, PlotFacts DEF SendPlot, Plots
  <2>2. pipe' \in Seq(Plots) /\ sent' \in 0 .. Len(plots)
    BY <1>0, <1>1, <2>1 DEF SendPlot, Plots
  <2> QED
    BY <1>0, <1>1, <2>2 DEF SendPlot, thread, next, glut, user
<1>2. CASE WriteToNobody
  BY <1>2, <1>0 DEF WriteToNobody
<1>3. CASE ClosePipe
  BY <1>3, <1>0 DEF ClosePipe
<1>4. CASE ClientEnded
  BY <1>4, <1>0 DEF ClientEnded
<1>5. CASE StartRead
  BY <1>5, <1>0 DEF StartRead
<1>6. CASE BuildPlot
  BY <1>0, <1>6, HeadOfPipe DEF BuildPlot, next, glut, user
<1>7. CASE PublishPlot
  BY <1>7, <1>0 DEF PublishPlot
<1>8. CASE ReadEnd
  BY <1>8, <1>0 DEF ReadEnd
<1>9. CASE ExitRead
  BY <1>9, <1>0 DEF ExitRead
<1>10. CASE ReadFirstPlot
  BY <1>0, <1>10, HeadOfPipe, WindowsAssumption DEF ReadFirstPlot, thread, user
<1>11. CASE NoFirstPlot
  BY <1>11, <1>0 DEF NoFirstPlot
<1>12. CASE TryFirstPlot
  <2>1. Taken
    BY <1>12 DEF TryFirstPlot, Taken
  <2>2. /\ shown' \in Seq(Plots) /\ nextPlot' = 0 /\ currentPlot' \in Plots
        /\ plots[nextPlot].win \in Windows /\ redisplay' = redisplay \cup {plots[nextPlot].win}
    BY <2>1, TakenPlot, PlotFacts DEF Taken, TakeNextPlot
  <2>3. inThreadRead' \in BOOLEAN
    BY <2>1 DEF Taken, TakeNextPlot, LauchNextRead
  <2>4. reader' \in {"none", "started"}
    BY <2>1 DEF Taken, TakeNextPlot, LauchNextRead
  <2>5. nbSendForNextPlot' \in Nat /\ timers' \in Nat /\ loop' = "taken" /\ redisplay' \subseteq Windows
    BY <1>0, <1>12, <2>2 DEF TryFirstPlot, OneTimer
  <2> QED
    BY <1>0, <1>12, <2>2, <2>3, <2>4, <2>5 DEF TryFirstPlot, stream, user
<1>13. CASE TimerTooEarly
  BY <1>13, <1>0 DEF TimerTooEarly
<1>14. CASE TimerNextPlot
  BY <1>14, <1>0 DEF TimerNextPlot
<1>15. CASE TryNewPlot
  <2>1. Taken
    BY <1>15 DEF TryNewPlot, Taken
  <2>2. /\ shown' \in Seq(Plots) /\ nextPlot' = 0 /\ currentPlot' \in Plots
        /\ plots[nextPlot].win \in Windows /\ redisplay' = redisplay \cup {plots[nextPlot].win}
    BY <2>1, TakenPlot, PlotFacts DEF Taken, TakeNextPlot
  <2>3. inThreadRead' \in BOOLEAN
    BY <2>1 DEF Taken, TakeNextPlot, LauchNextRead
  <2>4. reader' \in {"none", "started"}
    BY <2>1 DEF Taken, TakeNextPlot, LauchNextRead
  <2>5. nbSendForNextPlot' \in Nat /\ timers' \in Nat /\ loop' = "taken" /\ redisplay' \subseteq Windows
    BY <1>0, <1>15, <2>2 DEF TryNewPlot, OneTimer
  <2> QED
    BY <1>0, <1>15, <2>2, <2>3, <2>4, <2>5 DEF TryNewPlot, stream, user
<1>16. CASE EndTryNewPlot
  BY <1>16, <1>0 DEF EndTryNewPlot
<1>17. CASE Fin
  BY <1>17, <1>0 DEF Fin, Joined
<1>18. ASSUME NEW w \in Windows, Display(w) PROVE TypeRest'
  BY <1>18, <1>0 DEF Display, SendForNextPlot
<1>19. ASSUME NEW w \in Windows, Expose(w) PROVE TypeRest'
  BY <1>19, <1>0 DEF Expose
<1>20. ASSUME NEW w \in Windows, KeyReturn(w) PROVE TypeRest'
  BY <1>20, <1>0 DEF KeyReturn, Typed, SendForNextPlot
<1>21. ASSUME NEW w \in Windows, KeyPrevious(w) PROVE TypeRest'
  BY <1>21, <1>0 DEF KeyPrevious, Typed
<1>22. ASSUME NEW w \in Windows, KeyEscape(w) PROVE TypeRest'
  BY <1>22, <1>0 DEF KeyEscape, Typed
<1>23. ASSUME NEW w \in Windows, KeyInterrupt(w) PROVE TypeRest'
  BY <1>23, <1>0 DEF KeyInterrupt, Typed
<1>24. CASE UNCHANGED vars
  BY <1>24, <1>0 DEF vars
<1> QED
  BY <1>1, <1>2, <1>3, <1>4, <1>5, <1>6, <1>7, <1>8, <1>9, <1>10, <1>11, <1>12, <1>13, <1>14,
    <1>15, <1>16, <1>17, <1>18, <1>19, <1>20, <1>21, <1>22, <1>23, <1>24 DEF Next, Program,
    Reader, Main, User, Ended

(* Every part of Inv but NeverKilled is kept by a step.                    *)
LEMMA InvStep ==
  Inv /\ [Next]_vars => (TypeOK /\ AssertNoNext /\ OneTimer /\ Control /\ Ranked /\ Windowed)'
<1> SUFFICES ASSUME Inv, [Next]_vars
             PROVE  (TypeOK /\ AssertNoNext /\ OneTimer /\ Control /\ Ranked /\ Windowed)'
  OBVIOUS
<1>1. plots' = plots /\ Plots' = Plots
  BY Quiet DEF Plots
<1>2. win' \in [Windows -> WindowOf(Plots)] /\ Windowed'
  BY WindowStep DEF Inv, Windowed
<1>3. TypeRest' /\ plots \in Scripts
  BY TypeRestStep DEF Inv, TypeOK
<1>4. TypeOK'
  BY <1>1, <1>2, <1>3 DEF TypeOK, TypeRest, WindowOf
<1>5. (AssertNoNext /\ OneTimer /\ Control)'
  BY ControlStep DEF Inv
<1>6. Ranked'
  BY RankedStep DEF Inv
<1> QED
  BY <1>2, <1>4, <1>5, <1>6

(* A write to a pipe nobody reads takes a client that control-C stopped.   *)
LEMMA KilledStep == Inv /\ [Next]_vars => NeverKilled'
<1> SUFFICES ASSUME Inv, [Next]_vars PROVE NeverKilled'
  OBVIOUS
<1> USE DEF Inv, Control, NeverKilled, stream, thread, next, glut, user
<1>1. CASE SendPlot
  BY <1>1 DEF SendPlot
<1>2. CASE WriteToNobody
  BY <1>2 DEF WriteToNobody, Inv, Control, NeverKilled, thread, user
<1>3. CASE ClosePipe
  BY <1>3 DEF ClosePipe
<1>4. CASE ClientEnded
  BY <1>4 DEF ClientEnded
<1>5. CASE StartRead
  BY <1>5 DEF StartRead
<1>6. CASE BuildPlot
  BY <1>6 DEF BuildPlot
<1>7. CASE PublishPlot
  BY <1>7 DEF PublishPlot
<1>8. CASE ReadEnd
  BY <1>8 DEF ReadEnd
<1>9. CASE ExitRead
  BY <1>9 DEF ExitRead
<1>10. CASE ReadFirstPlot
  BY <1>10 DEF ReadFirstPlot
<1>11. CASE NoFirstPlot
  <2>1. shown = <<>> /\ nextPlot = 0 /\ got = 0 /\ pipe = <<>>
    BY <1>11 DEF NoFirstPlot, Inv, Control
  <2>2. sent = 0
    BY <2>1 DEF Inv, Ranked, InHand
  <2>3. program # "runs" /\ program \in {"closed", "done", "killed"}
    BY <1>11 DEF NoFirstPlot, Inv, TypeOK
  <2>4. CASE program = "killed"
    BY <1>11, <2>4 DEF NoFirstPlot, Inv, NeverKilled, stream, user
  <2>5. CASE program # "killed"
    <3>1. Len(plots) = 0
      BY <2>2, <2>3, <2>5 DEF Inv, Control
    <3>2. plots = <<>>
      BY <3>1, ScriptsAssumption, EmptySeq DEF Inv, TypeOK
    <3> QED
      BY <1>11, <2>3, <2>5, <3>2 DEF NoFirstPlot, Inv, NeverKilled, stream, user
  <2> QED
    BY <2>4, <2>5
<1>12. CASE TryFirstPlot
  BY <1>12 DEF TryFirstPlot, TakeNextPlot, Joined, LauchNextRead
<1>13. CASE TimerTooEarly
  BY <1>13 DEF TimerTooEarly
<1>14. CASE TimerNextPlot
  BY <1>14 DEF TimerNextPlot
<1>15. CASE TryNewPlot
  BY <1>15 DEF TryNewPlot, TakeNextPlot, Joined, LauchNextRead
<1>16. CASE EndTryNewPlot
  BY <1>16 DEF EndTryNewPlot
<1>17. CASE Fin
  BY <1>17 DEF Fin, Joined
<1>18. ASSUME NEW w \in Windows, Display(w) PROVE NeverKilled'
  BY <1>18 DEF Display, SendForNextPlot
<1>19. ASSUME NEW w \in Windows, Expose(w) PROVE NeverKilled'
  BY <1>19 DEF Expose
<1>20. ASSUME NEW w \in Windows, KeyReturn(w) PROVE NeverKilled'
  BY <1>20 DEF KeyReturn, Typed, SendForNextPlot
<1>21. ASSUME NEW w \in Windows, KeyPrevious(w) PROVE NeverKilled'
  BY <1>21 DEF KeyPrevious, Typed
<1>22. ASSUME NEW w \in Windows, KeyEscape(w) PROVE NeverKilled'
  BY <1>22 DEF KeyEscape, Typed
<1>23. ASSUME NEW w \in Windows, KeyInterrupt(w) PROVE NeverKilled'
  BY <1>23 DEF KeyInterrupt, Typed
<1>24. CASE UNCHANGED vars
  BY <1>24 DEF vars
<1> QED
  BY <1>1, <1>2, <1>3, <1>4, <1>5, <1>6, <1>7, <1>8, <1>9, <1>10, <1>11, <1>12, <1>13, <1>14,
    <1>15, <1>16, <1>17, <1>18, <1>19, <1>20, <1>21, <1>22, <1>23, <1>24 DEF Next, Program,
    Reader, Main, User, Ended

(* Inv holds at the start.                                                 *)
LEMMA InvInit == Init => Inv
<1> SUFFICES ASSUME Init PROVE Inv
  OBVIOUS
<1>1. Len(plots) \in Nat
  BY ScriptsAssumption DEF Init
<1>2. TypeOK
  <2>1. NoWindow \in WindowOf(Plots)
    BY EmptySeq, WindowRecord DEF NoWindow
  <2>2. win \in [Windows -> WindowOf(Plots)]
    BY <2>1 DEF Init
  <2>3. sent \in 0 .. Len(plots) /\ pipe \in Seq(Plots) /\ shown \in Seq(Plots)
    BY <1>1, EmptySeq DEF Init
  <2>4. /\ 0 \in Nat /\ redisplay \subseteq Windows /\ {got, nextPlot, currentPlot} \subseteq Plots \cup {0}
        /\ nbSendForNextPlot \in Nat /\ timers \in Nat
    BY DEF Init
  <2>5. plots \in Scripts /\ program = "runs" /\ reader = "none" /\ loop = "main" /\ gwait \in BOOLEAN
    BY DEF Init
  <2>6. inThreadRead = FALSE /\ NoMorePlot = FALSE /\ interrupted = FALSE
    BY DEF Init
  <2> QED
    BY <2>2, <2>3, <2>4, <2>5, <2>6 DEF TypeOK, WindowOf
<1>3. AssertNoNext /\ OneTimer /\ Control
  BY DEF Init, AssertNoNext, OneTimer, Control
<1>4. Ranked
  BY DEF Init, Ranked, InHand
<1>5. ViewAlive /\ Increased /\ CurrentKept
  BY DEF Init, NoWindow, ViewAlive, Increased, Increasing, CurrentKept
<1>6. NeverKilled
  BY DEF Init, NeverKilled
<1> QED
  BY <1>2, <1>3, <1>4, <1>5, <1>6 DEF Inv

(* Inv holds in every behaviour.                                           *)
THEOREM InvCorrect == Spec => []Inv
<1>1. Inv /\ [Next]_vars => Inv'
  BY InvStep, KilledStep DEF Inv, Windowed
<1> QED
  BY InvInit, <1>1, PTL DEF Spec

-----------------------------------------------------------------------------
(* The results. *)

(* The hand over between the two threads, which share no lock: one reader  *)
(* at a time, one timer for the plot asked for, and a plot in nextPlot is  *)
(* taken before another is read (assert(nextPlot == 0)).                   *)
THEOREM HandOverCorrect == Spec => HandOver
<1>1. Inv /\ [Next]_vars =>
        [reader # "started" /\ reader' = "started" => reader \in {"none", "exited"}]_vars
  <2> SUFFICES ASSUME Inv, Next, reader # "started", reader' = "started"
               PROVE  reader \in {"none", "exited"}
    OBVIOUS
  <2>1. Joined
    BY DEF Next, Program, Reader, Main, User, Ended, SendPlot, WriteToNobody, ClosePipe,
      ClientEnded,
      StartRead, BuildPlot, PublishPlot, ReadEnd, ExitRead, ReadFirstPlot, NoFirstPlot, TryFirstPlot,
      TimerTooEarly, TimerNextPlot, TryNewPlot, EndTryNewPlot, Fin, Display, Expose, KeyReturn,
      KeyPrevious, KeyEscape, KeyInterrupt, Typed, TakeNextPlot, thread, vars
  <2> QED
    BY <2>1 DEF Joined, Inv, Control
<1>2. Inv => TypeOK /\ AssertNoNext /\ OneTimer
  BY DEF Inv
<1> QED
  BY InvCorrect, <1>1, <1>2, PTL DEF Spec, HandOver, OneReader

(* Two lists of consecutive numbers, one after the other.                  *)
Counted(t) == t \in Seq(Nat) /\ \A i \in 1 .. Len(t) : t[i] = i
(* The second goes on where the first ends.                                *)
LEMMA Follows ==
  ASSUME NEW t, Counted(t), NEW u \in Seq(Nat), \A i \in 1 .. Len(u) : u[i] = Len(t) + i
  PROVE  Counted(t \o u) /\ Len(t \o u) = Len(t) + Len(u)
<1> DEFINE v == t \o u
<1>1. t \in Seq(Nat) /\ Len(t) \in Nat /\ Len(u) \in Nat
  BY DEF Counted
<1>2. /\ v \in Seq(Nat) /\ Len(v) = Len(t) + Len(u)
      /\ \A i \in 1 .. Len(t) + Len(u) : v[i] = IF i <= Len(t) THEN t[i] ELSE u[i - Len(t)]
  BY <1>1, ConcatProperties
<1> HIDE DEF v
<1>3. ASSUME NEW i \in 1 .. Len(v) PROVE v[i] = i
  <2>1. i \in 1 .. Len(t) + Len(u) /\ i \in Int
    BY <1>1, <1>2, <1>3
  <2>2. CASE i <= Len(t)
    <3>1. i \in 1 .. Len(t) /\ v[i] = t[i]
      BY <1>1, <1>2, <2>1, <2>2
    <3> QED
      BY <3>1 DEF Counted
  <2>3. CASE ~(i <= Len(t))
    <3>1. i - Len(t) \in 1 .. Len(u) /\ v[i] = u[i - Len(t)]
      BY <1>1, <1>2, <2>1, <2>3
    <3>2. u[i - Len(t)] = Len(t) + (i - Len(t))
      BY <3>1
    <3> QED
      BY <1>1, <2>1, <3>1, <3>2
  <2> QED
    BY <2>2, <2>3
<1> QED
  BY <1>2, <1>3 DEF v, Counted

(* The plots written are taken in the order of the script: none is lost    *)
(* between the program, the pipe, the reader and the loop, or taken twice. *)
THEOREM InOrderCorrect == Spec => []InOrder
<1>1. Inv => InOrder
  <2> SUFFICES ASSUME Inv PROVE InOrder
    OBVIOUS
  <2>1. /\ shown \in Seq(Nat) /\ pipe \in Seq(Nat) /\ nextPlot \in Nat /\ got \in Nat /\ sent \in Nat
    BY PlotFacts, SeqMonotonic DEF Inv, TypeOK
  <2> DEFINE a == Some(nextPlot)
             b == Some(got)
             f == [i \in 1 .. sent |-> i]
  <2>2. /\ a \in Seq(Nat) /\ Len(a) = IF nextPlot = 0 THEN 0 ELSE 1
        /\ \A i \in 1 .. Len(a) : a[i] = Len(shown) + i
    BY <2>1 DEF Some, Inv, Ranked
  <2>3. /\ b \in Seq(Nat) /\ Len(b) = IF got = 0 THEN 0 ELSE 1
        /\ \A i \in 1 .. Len(b) : b[i] = Len(shown) + Len(a) + i
    BY <2>1 DEF Some, Inv, Ranked
  <2> HIDE DEF a, b
  <2>4. Counted(shown \o a) /\ Len(shown \o a) = Len(shown) + Len(a)
    BY <2>1, <2>2, Follows DEF Inv, Ranked, Counted
  <2>5. /\ Counted((shown \o a) \o b)
        /\ Len((shown \o a) \o b) = Len(shown) + Len(a) + Len(b)
    BY <2>3, <2>4, Follows
  <2>6. Len((shown \o a) \o b) = InHand
    BY <2>2, <2>3, <2>5 DEF InHand
  <2>7. \A i \in 1 .. Len(pipe) : pipe[i] = Len((shown \o a) \o b) + i
    BY <2>6 DEF Inv, Ranked
  <2>8. /\ Counted(((shown \o a) \o b) \o pipe)
        /\ Len(((shown \o a) \o b) \o pipe) = InHand + Len(pipe)
    BY <2>1, <2>5, <2>6, <2>7, Follows
  <2>9. f \in Seq(Nat) /\ Len(f) = sent /\ \A i \in 1 .. sent : f[i] = i
    BY <2>1
  <2> HIDE DEF f
  <2>10. ((shown \o a) \o b) \o pipe = f
    BY <2>8, <2>9, SeqEqual DEF Counted, Inv, Ranked
  <2> QED
    BY <2>10 DEF InOrder, a, b, f
<1> QED
  BY InvCorrect, <1>1, PTL

(* The view of a window, and the plot whose options the reader looks at,   *)
(* were not deleted by add.                                                *)
THEOREM PlotsAliveCorrect == Spec => []PlotsAlive
<1>1. Inv => PlotsAlive
  <2> SUFFICES ASSUME Inv PROVE PlotsAlive
    OBVIOUS
  <2>1. OldAlive
    <3> SUFFICES ASSUME currentPlot # 0
                 PROVE  \E i \in DOMAIN win[plots[currentPlot].win].lplots :
                          win[plots[currentPlot].win].lplots[i] = currentPlot
      BY DEF OldAlive
    <3> DEFINE l == win[plots[currentPlot].win].lplots
    <3>1. l \in Seq(Plots) /\ l # <<>> /\ l[Len(l)] = currentPlot
      BY PlotFacts DEF Inv, TypeOK, CurrentKept, WindowOf
    <3> HIDE DEF l
    <3>2. Len(l) \in DOMAIN l
      BY <3>1, EmptySeq, LenProperties
    <3> QED
      BY <3>1, <3>2 DEF l
  <2> QED
    BY <2>1 DEF Inv, PlotsAlive
<1> QED
  BY InvCorrect, <1>1, PTL

(* The client never leaves a program that still writes, but on control-C.  *)
THEOREM NeverKilledCorrect == Spec => []NeverKilled
<1>1. Inv => NeverKilled
  BY DEF Inv
<1> QED
  BY InvCorrect, <1>1, PTL
==============================================================================
