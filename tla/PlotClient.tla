------------------------------ MODULE PlotClient ------------------------------
(***************************************************************************)
(* The display of plots: the program runs a script and writes its plots    *)
(* into a pipe, and the graphics client at the other end, ffglut           *)
(* (Graphics/ffglut.cpp), shows them.  In the client one thread reads the  *)
(* next plot while the other runs the loop of events of GLUT; they share   *)
(* nextPlot, currentPlot and NoMorePlot, with no lock: the loop looks at   *)
(* nextPlot, and joins the thread before it uses the plot.                 *)
(*                                                                         *)
(* GLUT, the pipe and the user are external: timers fire and windows are   *)
(* redrawn when they may be, and keys come at any time.                    *)
(***************************************************************************)
EXTENDS Integers, Sequences, FiniteSets

CONSTANTS
  Scripts,   (* what a script may plot: sequences of [win, wait]            *)
  Windows,   (* the numbers of windows plots ask for (WindowIndex)          *)
  Keep,      (* bound: plots a window keeps, 20 in the code                 *)
  PipeRoom   (* bound: plots the pipe holds                                 *)

ASSUME KeepAssumption == Keep \in Nat \ {0}
ASSUME RoomAssumption == PipeRoom \in Nat \ {0}
ASSUME WindowsAssumption == 0 \in Windows
ASSUME ScriptsAssumption == \A s \in Scripts : s \in Seq([win : Windows, wait : BOOLEAN])

VARIABLES
  plots,        (* the plots of the script, named by their rank             *)
  program,      (* "runs", "closed" (in pclose), "done" or "killed"         *)
  sent,         (* number of plots written                                  *)
  pipe,         (* the plots in the pipe                                    *)
  reader,       (* ThreadRead: "none", "started", "reading", "built",       *)
                (* "leaving", "exited"                                      *)
  got,          (* the plot the reader has built, 0 for none                *)
  inThreadRead, (* a reader was started and not joined                      *)
  nextPlot,     (* the plot read and not yet shown, 0 for none              *)
  currentPlot,  (* the last plot taken                                      *)
  NoMorePlot,   (* the reader met the end of the pipe                       *)
  loop,         (* the main thread: "main", "first", "events", and while a  *)
                (* handler waits "taking", "taken", "fin0", "fin9"; "exited"*)
  nbSendForNextPlot,
  timers,       (* number of timers that will call TimerNextPlot            *)
  redisplay,    (* windows that will be drawn                               *)
  win,          (* the windows: lplots, icurrentPlot as an index (0 at the  *)
                (* end of the list), theplot                                *)
  gwait,        (* the option -wait: do not wait for the user               *)
  interrupted,  (* the user typed control-C                                 *)
  shown         (* history: the plots the loop has taken, in order          *)

stream == <<plots, program, sent, pipe>>
thread == <<reader, got, NoMorePlot>>
next   == <<inThreadRead, nextPlot, currentPlot, shown>>
glut   == <<nbSendForNextPlot, timers, redisplay, win>>
user   == <<gwait, interrupted>>
vars   == <<stream, thread, next, loop, glut, user>>

NoWindow == [open |-> FALSE, lplots |-> <<>>, icurrentPlot |-> 0, theplot |-> 0]

Init ==
  /\ plots \in Scripts
  /\ program = "runs" /\ sent = 0 /\ pipe = <<>>
  /\ reader = "none" /\ got = 0 /\ inThreadRead = FALSE
  /\ nextPlot = 0 /\ currentPlot = 0 /\ NoMorePlot = FALSE
  /\ loop = "main" /\ nbSendForNextPlot = 0 /\ timers = 0 /\ redisplay = {}
  /\ win = [w \in Windows |-> NoWindow]
  /\ gwait \in BOOLEAN /\ interrupted = FALSE
  /\ shown = <<>>

-----------------------------------------------------------------------------
(* The program. *)

(* A plot command writes a plot, and waits for room in the pipe. *)
SendPlot ==
  /\ program = "runs" /\ sent < Len(plots) /\ loop # "exited"
  /\ Len(pipe) < PipeRoom
  /\ pipe' = Append(pipe, sent + 1) /\ sent' = sent + 1
  /\ UNCHANGED <<plots, program, thread, next, loop, glut, user>>

(* Nobody reads the pipe any more: the write kills the program. *)
WriteToNobody ==
  /\ program = "runs" /\ sent < Len(plots) /\ loop = "exited"
  /\ program' = "killed"
  /\ UNCHANGED <<plots, sent, pipe, thread, next, loop, glut, user>>

(* The end of the script: ff_pclose closes the pipe ... *)
ClosePipe ==
  /\ program = "runs" /\ sent = Len(plots)
  /\ program' = "closed"
  /\ UNCHANGED <<plots, sent, pipe, thread, next, loop, glut, user>>

(* ... and waits for the end of the client. *)
ClientEnded ==
  /\ program = "closed" /\ loop = "exited"
  /\ program' = "done"
  /\ UNCHANGED <<plots, sent, pipe, thread, next, loop, glut, user>>

-----------------------------------------------------------------------------
(* The thread that reads. *)

(* The beginning of ThreadRead; its assertion is AssertNoNext below. *)
StartRead ==
  /\ reader = "started" /\ reader' = "reading"
  /\ UNCHANGED <<stream, got, NoMorePlot, next, loop, glut, user>>

(* ReadOnePlot builds the next plot of the pipe, with the grey option of   *)
(* the current plot ...                                                    *)
BuildPlot ==
  /\ reader = "reading" /\ pipe # <<>>
  /\ got' = Head(pipe) /\ pipe' = Tail(pipe) /\ reader' = "built"
  /\ UNCHANGED <<plots, program, sent, NoMorePlot, next, loop, glut, user>>

(* ... and only then is it seen in nextPlot. *)
PublishPlot ==
  /\ reader = "built"
  /\ nextPlot' = got /\ got' = 0 /\ reader' = "leaving"
  /\ UNCHANGED <<stream, NoMorePlot, inThreadRead, currentPlot, shown, loop, glut, user>>

(* At the end of the pipe ReadOnePlot returns an error. *)
ReadEnd ==
  /\ reader = "reading" /\ pipe = <<>> /\ program # "runs"
  /\ NoMorePlot' = TRUE /\ reader' = "leaving"
  /\ UNCHANGED <<stream, got, next, loop, glut, user>>

(* Thread::Exit. *)
ExitRead ==
  /\ reader = "leaving" /\ reader' = "exited"
  /\ UNCHANGED <<stream, got, NoMorePlot, next, loop, glut, user>>

-----------------------------------------------------------------------------
(* Windows. *)

(* Mutant of AddPlot: the list is cut at the wrong end. *)
AddPlot_CutEnd(W, p) ==
  LET l    == Append(W.lplots, p)
      full == Len(l) > Keep
      i    == IF W.icurrentPlot + 1 > Len(l) THEN W.icurrentPlot ELSE W.icurrentPlot + 1
  IN  [open |-> TRUE, lplots |-> IF full THEN W.lplots ELSE l,
       icurrentPlot |-> IF full THEN i - 1 ELSE i, theplot |-> l[i]]

(* OneWindow::add: the plot goes to the end of the list, the view moves to *)
(* the plot after the one in view, and the oldest plot is deleted when     *)
(* there are too many.                                                     *)
AddPlot(W, p) ==
  LET l    == Append(W.lplots, p)
      full == Len(l) > Keep
      i    == IF W.icurrentPlot + 1 > Len(l) THEN W.icurrentPlot ELSE W.icurrentPlot + 1
      rest == IF full THEN Tail(l) ELSE l
  IN  [open |-> TRUE, lplots |-> rest,
       icurrentPlot |-> IF full THEN i - 1 ELSE i,
       theplot |-> IF full /\ l[i] = Head(l) THEN Head(rest) ELSE l[i]]

(* Mutant of Joined: the reader is not waited for. *)
Joined_NoJoin == TRUE

(* WaitNextRead returns. *)
Joined == ~inThreadRead \/ reader = "exited"

(* LauchNextRead, once the reader before is joined. *)
LauchNextRead ==
  /\ inThreadRead' = ~NoMorePlot
  /\ reader' = IF NoMorePlot THEN "none" ELSE "started"

(* Mutant of TakeNextPlot: the read is started before nextPlot is given up.*)
TakeNextPlot_KeepNext ==
  /\ Joined
  /\ LET w == plots[nextPlot].win IN
     /\ win' = [win EXCEPT ![w] = AddPlot(@, nextPlot)]
     /\ redisplay' = redisplay \cup {w}
  /\ shown' = Append(shown, nextPlot)
  /\ currentPlot' = nextPlot /\ UNCHANGED nextPlot
  /\ LauchNextRead

(* The part of TryNewPlot that takes the plot that was read: it goes to    *)
(* its window, which is drawn, and the next read is started.               *)
TakeNextPlot ==
  /\ Joined
  /\ LET w == plots[nextPlot].win IN
     /\ win' = [win EXCEPT ![w] = AddPlot(@, nextPlot)]
     /\ redisplay' = redisplay \cup {w}
  /\ shown' = Append(shown, nextPlot)
  /\ currentPlot' = nextPlot /\ nextPlot' = 0
  /\ LauchNextRead

(* SendForNextPlot asks for the next plot: a timer will look for it. *)
SendForNextPlot ==
  IF nbSendForNextPlot > 0
  THEN UNCHANGED <<loop, nbSendForNextPlot, timers>>
  ELSE IF NoMorePlot
  THEN /\ loop' = IF gwait THEN "fin0" ELSE loop
       /\ UNCHANGED <<nbSendForNextPlot, timers>>
  ELSE /\ nbSendForNextPlot' = 1 /\ timers' = timers + 1
       /\ UNCHANGED loop

-----------------------------------------------------------------------------
(* The main thread of the client. *)

(* main reads the first plot itself and opens window 0 ...                 *)
ReadFirstPlot ==
  /\ loop = "main" /\ pipe # <<>>
  /\ nextPlot' = Head(pipe) /\ pipe' = Tail(pipe)
  /\ win' = [win EXCEPT ![0].open = TRUE] /\ redisplay' = {0}
  /\ loop' = "first"
  /\ UNCHANGED <<plots, program, sent, thread, inThreadRead, currentPlot, shown,
                 nbSendForNextPlot, timers, user>>

(* ... and ends if there is none. *)
NoFirstPlot ==
  /\ loop = "main" /\ pipe = <<>> /\ program # "runs"
  /\ loop' = "exited"
  /\ UNCHANGED <<stream, thread, next, glut, user>>

(* TryNewPlot from main. *)
TryFirstPlot ==
  /\ loop = "first" /\ TakeNextPlot
  /\ loop' = "taken"
  /\ UNCHANGED <<stream, got, NoMorePlot, nbSendForNextPlot, timers, user>>

(* TimerNextPlot when there is nothing to take: the timer is started again,*)
(* except that with gwait the client ends after the last plot.             *)
TimerTooEarly ==
  /\ loop = "events" /\ timers > 0 /\ nextPlot = 0
  /\ loop' = IF gwait /\ NoMorePlot THEN "fin0" ELSE "events"
  /\ UNCHANGED <<stream, thread, next, glut, user>>

(* TimerNextPlot when nextPlot is set: it joins the reader ...             *)
TimerNextPlot ==
  /\ loop = "events" /\ timers > 0 /\ nextPlot # 0
  /\ timers' = timers - 1 /\ loop' = "taking"
  /\ UNCHANGED <<stream, thread, next, nbSendForNextPlot, redisplay, win, user>>

(* Mutant of TryNewPlot: the request stays. *)
TryNewPlot_StillAsked ==
  /\ loop = "taking" /\ TakeNextPlot
  /\ loop' = "taken"
  /\ UNCHANGED <<stream, got, NoMorePlot, nbSendForNextPlot, timers, user>>

(* ... and takes the plot.                                                 *)
TryNewPlot ==
  /\ loop = "taking" /\ TakeNextPlot
  /\ nbSendForNextPlot' = nbSendForNextPlot - 1
  /\ loop' = "taken"
  /\ UNCHANGED <<stream, got, NoMorePlot, timers, user>>

(* The end of TryNewPlot, where the new reader may already have met the    *)
(* end of the pipe.                                                        *)
EndTryNewPlot ==
  /\ loop = "taken"
  /\ loop' = IF gwait /\ NoMorePlot THEN "fin0" ELSE "events"
  /\ UNCHANGED <<stream, thread, next, glut, user>>

(* Display of a window: unless its plot waits for the user, the next plot  *)
(* is asked for.                                                           *)
Display(w) ==
  /\ loop = "events" /\ w \in redisplay
  /\ redisplay' = redisplay \ {w}
  /\ IF win[w].theplot = 0 \/ ~plots[win[w].theplot].wait \/ gwait
     THEN SendForNextPlot ELSE UNCHANGED <<loop, nbSendForNextPlot, timers>>
  /\ UNCHANGED <<stream, thread, next, win, user>>

(* The window system asks for a window to be drawn. *)
Expose(w) ==
  /\ loop = "events" /\ win[w].open
  /\ redisplay' = redisplay \cup {w}
  /\ UNCHANGED <<stream, thread, next, loop, nbSendForNextPlot, timers, win, user>>

Typed(w) ==
  /\ loop = "events" /\ win[w].open /\ win[w].theplot # 0
  /\ redisplay' = redisplay \cup {w}

(* Return: the next plot of the window, or a new one after the last.       *)
KeyReturn(w) ==
  /\ Typed(w)
  /\ LET i == win[w].icurrentPlot IN
     IF i = Len(win[w].lplots)
     THEN SendForNextPlot /\ UNCHANGED win
     ELSE /\ win' = [win EXCEPT ![w].icurrentPlot = i + 1,
                                ![w].theplot = win[w].lplots[i + 1]]
          /\ UNCHANGED <<loop, nbSendForNextPlot, timers>>
  /\ UNCHANGED <<stream, thread, next, user>>

(* Key p: the plot before. *)
KeyPrevious(w) ==
  /\ Typed(w) /\ win[w].icurrentPlot > 1
  /\ LET i == win[w].icurrentPlot - 1 IN
     win' = [win EXCEPT ![w].icurrentPlot = i, ![w].theplot = win[w].lplots[i]]
  /\ UNCHANGED <<stream, thread, next, loop, nbSendForNextPlot, timers, user>>

(* Escape and control-C. *)
KeyEscape(w) ==
  /\ Typed(w) /\ loop' = "fin0"
  /\ UNCHANGED <<stream, thread, next, nbSendForNextPlot, timers, win, user>>
KeyInterrupt(w) ==
  /\ Typed(w) /\ loop' = "fin9" /\ interrupted' = TRUE
  /\ UNCHANGED <<stream, thread, next, nbSendForNextPlot, timers, win, gwait>>

(* Mutant of Fin: Escape always ends the client. *)
Fin_Always ==
  /\ loop \in {"fin0", "fin9"} /\ Joined
  /\ inThreadRead' = FALSE /\ reader' = "none"
  /\ loop' = "exited"
  /\ UNCHANGED <<stream, got, NoMorePlot, nextPlot, currentPlot, shown, glut, user>>

(* Mutant of Fin: Escape never ends the client. *)
Fin_Never ==
  /\ loop \in {"fin0", "fin9"} /\ Joined
  /\ inThreadRead' = FALSE /\ reader' = "none"
  /\ loop' = IF loop = "fin9" THEN "exited" ELSE "events"
  /\ UNCHANGED <<stream, got, NoMorePlot, nextPlot, currentPlot, shown, glut, user>>

(* Fin joins the reader; without an error it ends the client only if there *)
(* is no more plot.                                                        *)
Fin ==
  /\ loop \in {"fin0", "fin9"} /\ Joined
  /\ inThreadRead' = FALSE /\ reader' = "none"
  /\ loop' = IF NoMorePlot \/ loop = "fin9" THEN "exited" ELSE "events"
  /\ UNCHANGED <<stream, got, NoMorePlot, nextPlot, currentPlot, shown, glut, user>>

-----------------------------------------------------------------------------
Ended ==
  /\ loop = "exited" /\ program \in {"done", "killed"}
  /\ UNCHANGED vars

Program == SendPlot \/ WriteToNobody \/ ClosePipe \/ ClientEnded
Reader  == StartRead \/ BuildPlot \/ PublishPlot \/ ReadEnd \/ ExitRead
Main    == \/ ReadFirstPlot \/ NoFirstPlot \/ TryFirstPlot
           \/ TimerTooEarly \/ TimerNextPlot \/ TryNewPlot \/ EndTryNewPlot
           \/ Fin
           \/ \E w \in Windows : Display(w)
User    == \E w \in Windows : \/ Expose(w) \/ KeyReturn(w) \/ KeyPrevious(w)
                              \/ KeyEscape(w) \/ KeyInterrupt(w)

Next == Program \/ Reader \/ Main \/ User \/ Ended

Spec == Init /\ [][Next]_vars

(* A user in front of plots that wait: Return on any plot, and on the last.*)
GoesOn(w) ==
  ~gwait /\ (\E i \in DOMAIN plots : plots[i].wait) /\ KeyReturn(w)
AsksForNew(w) == GoesOn(w) /\ win[w].icurrentPlot = Len(win[w].lplots)

(* The program goes on to the end of its script and the threads are        *)
(* scheduled; the loop of GLUT comes to every timer and to every window.   *)
(* Without the option -wait the user goes on from the plots that wait, and *)
(* types Escape now and then.                                              *)
Fairness ==
  /\ WF_vars(Program) /\ WF_vars(Reader)
  /\ WF_vars(ReadFirstPlot \/ NoFirstPlot \/ TryFirstPlot \/ TryNewPlot \/ EndTryNewPlot \/ Fin)
  /\ SF_vars(TimerNextPlot) /\ SF_vars(TimerTooEarly)
  /\ \A w \in Windows : /\ SF_vars(Display(w)) /\ SF_vars(~gwait /\ KeyEscape(w))
                        /\ SF_vars(GoesOn(w)) /\ SF_vars(AsksForNew(w))

FairSpec == Spec /\ Fairness

-----------------------------------------------------------------------------
Plots == 1 .. Len(plots)

(* Every variable has its type.                                            *)
TypeOK ==
  /\ plots \in Scripts /\ program \in {"runs", "closed", "done", "killed"}
  /\ sent \in 0 .. Len(plots) /\ pipe \in Seq(Plots)
  /\ reader \in {"none", "started", "reading", "built", "leaving", "exited"}
  /\ got \in Plots \cup {0} /\ inThreadRead \in BOOLEAN
  /\ nextPlot \in Plots \cup {0} /\ currentPlot \in Plots \cup {0}
  /\ NoMorePlot \in BOOLEAN
  /\ loop \in {"main", "first", "events", "taking", "taken", "fin0", "fin9", "exited"}
  /\ nbSendForNextPlot \in Nat /\ timers \in Nat /\ redisplay \subseteq Windows
  /\ win \in [Windows -> [open : BOOLEAN, lplots : Seq(Plots), icurrentPlot : Nat,
                          theplot : Plots \cup {0}]]
  /\ gwait \in BOOLEAN /\ interrupted \in BOOLEAN /\ shown \in Seq(Plots)

(* assert(nextPlot == 0) at the start of ThreadRead (ffglut.cpp:4083) and  *)
(* when it has a plot (ffglut.cpp:163): nothing is overwritten.  The loop  *)
(* that takes a plot has one to take.                                      *)
AssertNoNext ==
  /\ reader \in {"started", "reading", "built"} => nextPlot = 0
  /\ loop \in {"first", "taking"} => nextPlot # 0

(* The loop has one timer for the plot it asked for, and none otherwise.   *)
OneTimer ==
  /\ nbSendForNextPlot \in {0, 1}
  /\ timers = IF loop = "taking" THEN nbSendForNextPlot - 1 ELSE nbSendForNextPlot

(* No two readers at once: one is started when the one before was joined.  *)
OneReader ==
  [][reader # "started" /\ reader' = "started" => reader \in {"none", "exited"}]_vars

(* The hand over: one reader, one timer, and no plot is overwritten.       *)
HandOver == [](TypeOK /\ AssertNoNext /\ OneTimer) /\ OneReader

(* Every plot written is, in the order of the script, taken by the loop, in*)
(* nextPlot, in the hands of the reader or in the pipe: none is lost or    *)
(* shown twice.                                                            *)
Some(p) == IF p = 0 THEN <<>> ELSE <<p>>
InOrder == shown \o Some(nextPlot) \o Some(got) \o pipe = [i \in 1 .. sent |-> i]

(* The view of a window is on a plot it keeps, never on a deleted one, and *)
(* it keeps the last plots made for it.                                    *)
ViewAlive ==
  \A w \in Windows : LET W == win[w] IN
    IF W.lplots = <<>> THEN W.icurrentPlot = 0 /\ W.theplot = 0
    ELSE W.icurrentPlot \in 1 .. Len(W.lplots) /\ W.theplot = W.lplots[W.icurrentPlot]

(* The reader looks at the grey option of the current plot: no window has  *)
(* deleted it.                                                             *)
OldAlive ==
  reader = "reading" /\ currentPlot # 0 =>
    \E i \in DOMAIN win[plots[currentPlot].win].lplots :
       win[plots[currentPlot].win].lplots[i] = currentPlot

(* Both: no plot that is shown, or read for its options, was deleted.      *)
PlotsAlive == ViewAlive /\ OldAlive

(* The client ends before its program only when it is told to by control-C:*)
(* otherwise a write to a pipe nobody reads would kill the program.        *)
NeverKilled ==
  /\ loop = "exited" /\ ~interrupted => NoMorePlot \/ (program # "runs" /\ plots = <<>>)
  /\ program = "killed" => interrupted

(* Both programs come to their end: the client waits for a plot only while *)
(* the program can still write one, the program for room in the pipe only  *)
(* while the client reads.  This takes -wait, or a user who types Escape.  *)
AllEnds == <>(loop = "exited" /\ program \in {"done", "killed"})

(* Every plot of the script is taken, unless control-C stops the client;   *)
(* nobody has to type anything when no plot waits, or with -wait.          *)
AllShown == <>(interrupted \/ Len(shown) = Len(plots))
==============================================================================
