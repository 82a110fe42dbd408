-------------------------- MODULE MCContainerCache --------------------------
(***************************************************************************)
(* ContainerCache for TLC: three container files, so that opening one tears *)
(* down another while a third may be missing, for each of the plugins.     *)
(***************************************************************************)
EXTENDS ContainerCache, TLC

CONSTANTS p1, p2, p3

MCPaths == {p1, p2, p3}

MCPlugins == {"sacdiso", "dvdaiso", "dsdiff"}

\* The containers are interchangeable.
MCSymmetry == Permutations(MCPaths)

=============================================================================
