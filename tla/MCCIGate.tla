------------------------------ MODULE MCCIGate ------------------------------
(***************************************************************************)
(* CIGate with work times around the gate's two thresholds: a second more, *)
(* and LimitPct more.                                                      *)
(***************************************************************************)
EXTENDS CIGate

ASSUME BothThresholdsMatter ==
  /\ \E w, v \in Works : v - w >= MinRegression /\ ~Over(w, v)
  /\ \E w, v \in Works : v > w /\ v - w < MinRegression
  /\ \E w, v \in Works : Over(w, v)
  /\ 0 \in Works
=============================================================================
