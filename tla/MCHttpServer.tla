---------------------------- MODULE MCHttpServer ----------------------------
(* TLC instances of the HTTP server and the console.                         *)
EXTENDS HttpServer, FiniteSets

(* Two clients keep the pool busy while the console is between two lines;    *)
(* while a line is typed, one client comes and goes. The console does not    *)
(* see which of them a command comes from, and nothing in the pool depends   *)
(* on the console.                                                           *)
OneClientWhileTyping ==
  (main = Reading /\ typed = Nothing)
    \/ Cardinality({p \in Pcbs : pcb[p].state # "none"}) <= 1

MCNext == Next /\ OneClientWhileTyping'

MCSpec == Init /\ [][MCNext]_vars /\ Fairness
=============================================================================
