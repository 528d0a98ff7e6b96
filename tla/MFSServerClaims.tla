-------------------------- MODULE MFSServerClaims --------------------------
(***************************************************************************)
(* What the comments and the tests of the repository say of the server and *)
(* the server does not do.  Unlike the properties of MFSServer, none of    *)
(* these looks at harm: each is meant to be refuted.                       *)
(***************************************************************************)
EXTENDS MFSServer


(***************************************************************************)
(* Lookup of "." in the root finds the root, whatever was unlinked.        *)
(***************************************************************************)
RootFindsItself ==
  /\ LookupHits(0, Dot)
  /\ EntAt(inodes[0], Found(0, Dot), data).inum = 0
=============================================================================
