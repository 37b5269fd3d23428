------------------------------- MODULE MCReports -------------------------------
(* A strapping table and samples for the model checker.                    *)
EXTENDS Reports

\* The bottom of the tank is wider than the rest of it.
WideBottom ==
  <<[level |-> 0, vol |-> 0], [level |-> 2, vol |-> 300], [level |-> 9, vol |-> 1000]>>

\* Empty, high with a weak signal, water under the product, and a level
\* above the top.
Measured ==
  {Sample(0, 0, FALSE), Sample(5, 0, TRUE), Sample(7, 2, FALSE), Sample(10, 0, FALSE)}
===============================================================================
