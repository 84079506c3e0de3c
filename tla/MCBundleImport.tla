---------------------------- MODULE MCBundleImport ----------------------------
(***************************************************************************)
(* The instance of BundleImport that TLC checks: two entities, a bundle    *)
(* with one of them, a bundle that says something else of it and has the   *)
(* other as well, and a file that is no bundle.                            *)
(***************************************************************************)
EXTENDS BundleImport, TLC

CONSTANTS e1, e2, c1, c2

Bundle(valid, entities) == [valid |-> valid, entities |-> entities]

MCBundles == {Bundle(TRUE, e1 :> c1), Bundle(TRUE, e1 :> c2 @@ e2 :> c1),
              Bundle(FALSE, << >>)}

\* Bound: nobody edits by hand while the server has a request that the page gave up.
NoEditBesideStray ==
  applying = None /\ (\E o \in Orders : order[o].at = "sent") => panel = None

===============================================================================
