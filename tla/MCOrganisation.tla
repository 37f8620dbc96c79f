--------------------------- MODULE MCOrganisation ---------------------------
(* Organisation for TLC: two positions and two departments are enough, but     *)
(* names that differ in case only are among those of roles.  The handlers are  *)
(* alike, and so are the names of departments, which are only compared.        *)
EXTENDS OrganisationReports, TLC

MCUpper == [n \in {"HR", "hr", "IT"} |-> IF n = "hr" THEN "HR" ELSE n]
MCRanges == {[min |-> 1, max |-> 2], [min |-> 2, max |-> 3]}
Symmetric == Permutations(Procs) \cup Permutations(DepartmentNames)
=============================================================================
