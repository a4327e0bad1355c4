----------------------------- MODULE FiniteSums -----------------------------
(* Sums over a finite set of what a function gives its members.             *)
EXTENDS Integers, FiniteSetsExt

Sum(f, S) == MapThenSumSet(LAMBDA x : f[x], S)
=============================================================================
