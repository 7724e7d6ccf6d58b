--------------------------- MODULE MCAsyncLoader ---------------------------
(***************************************************************************)
(* Instances of AsyncLoader for TLC: the application calls every entry     *)
(* point, or only some of them.                                            *)
(***************************************************************************)
EXTENDS AsyncLoader

(* Nothing is deleted, so that no destructor can block.                    *)
NoReleaseOps == AllOps \ {"Release"}
=============================================================================
