------------------------------- MODULE Verdict -------------------------------
(***************************************************************************)
(* The verdict on one scenario (crossref/src/layer2/verdict.rs, and the    *)
(* order of the checks in mod.rs).  A scenario is                          *)
(*   [kind, version, outcome, status, code, detail, ...]                   *)
(* with kind "diff" (run_scenario), "wssec" or "wsdl"; what the judge sees *)
(* of each side's response is                                              *)
(*   [status, valid, asDeclared, canon, canonicalized].                    *)
(***************************************************************************)
Verdicts == {"Pass", "SutFail", "ReferenceDisagreement", "KnownDivergence", "HarnessError"}
Sides == {"our", "cxf"}

(* No known divergence is ever declared.                                   *)
Evaluate(looks) ==
    CASE ~looks["our"].valid -> "SutFail"
      [] looks["our"].valid /\ ~looks["cxf"].valid -> "ReferenceDisagreement"
      [] OTHER -> IF looks["our"].canon = looks["cxf"].canon THEN "Pass" ELSE "SutFail"

EvaluateOutcomeEquivalence(declaredSuccess, looks) ==
    LET fits(look) == look.valid /\ (look.status = 200) = declaredSuccess IN
    CASE ~fits(looks["our"]) -> "SutFail"
      [] fits(looks["our"]) /\ ~fits(looks["cxf"]) -> "ReferenceDisagreement"
      [] OTHER -> IF declaredSuccess /\ looks["our"].canon # looks["cxf"].canon THEN "SutFail" ELSE "Pass"

Judge(sc, looks) ==
    CASE looks["our"].status # sc.status -> "SutFail"
      [] looks["our"].status = sc.status /\ sc.kind = "diff" ->
             IF looks["our"].asDeclared THEN Evaluate(looks) ELSE "SutFail"
      [] OTHER -> EvaluateOutcomeEquivalence(sc.outcome = "success", looks)

=============================================================================
