----------------------------- MODULE MCACEGuard -----------------------------
(* Two threads, each making at most two explicit calls per scope.          *)
EXTENDS ACEGuard, TLC

CONSTANTS t1, t2

MCThreads == {t1, t2}
MCMaxOps == 2
====
