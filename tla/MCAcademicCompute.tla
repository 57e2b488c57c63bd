-------------------------- MODULE MCAcademicCompute --------------------------
(* Small instances of AcademicCompute for TLC. *)
EXTENDS AcademicCompute

CONSTANTS c1, c2, c3

ThreeCalls == {c1, c2, c3}
=============================================================================
