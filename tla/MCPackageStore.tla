--------------------------- MODULE MCPackageStore ---------------------------
(* Two packages that share a file; the shared file has the lowest hash.    *)
EXTENDS PackageStore

SharedFiles(m) == {1}
=============================================================================
