--------------------------------- MODULE Sums ---------------------------------
(***************************************************************************)
(* The sum of a function over 1..n.  It is written as a recursive function  *)
(* (not a RECURSIVE operator), so that modules with theorems may use it.    *)
(***************************************************************************)
EXTENDS Integers

(* PartialSums(f, n)[i] = f[1] + ... + f[i], for i in 0..n. *)
PartialSums(f, n) ==
  LET s[i \in 0..n] == IF i = 0 THEN 0 ELSE s[i - 1] + f[i]
  IN  s

Sum(f, n) == PartialSums(f, n)[n]
===============================================================================
