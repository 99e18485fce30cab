---------------------------- MODULE MCPlotClient ----------------------------
(* Scripts of up to four plots for TLC. *)
EXTENDS PlotClient

P(w, b) == [win |-> w, wait |-> b]

(* No plot, plots in one window, and plots in two; with and without wait.  *)
MCScripts ==
  {<<>>}
  \cup {<<P(0, a), P(0, b), P(0, c)>> : a, b, c \in BOOLEAN}
  \cup {<<P(0, a), P(1, b), P(0, a)>> : a, b \in BOOLEAN}
  \cup {<<P(0, FALSE), P(0, TRUE), P(0, FALSE), P(0, FALSE)>>}
  \cup {<<P(1, a), P(1, b)>> : a, b \in BOOLEAN}
==============================================================================
