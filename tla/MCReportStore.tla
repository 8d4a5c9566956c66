----------------------------- MODULE MCReportStore -----------------------------
(* Small instances of ReportStore for TLC. *)
EXTENDS ReportStore, TLC

CONSTANTS r1, r2, u1, c1, c2, told, blank, s1, s2

MCUsers == {u1}

\* Both reports belong to one user, so an account deletion takes several.
MCAuthorOf == r1 :> u1 @@ r2 :> u1

\* Two companies, one cell each.
MCCompanyOf == c1 :> "acme" @@ c2 :> "globex"

ReportSymmetry == Permutations({r1, r2})

=============================================================================
