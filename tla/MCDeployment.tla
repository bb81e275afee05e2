---------------------------- MODULE MCDeployment ----------------------------
(***************************************************************************)
(* Releases for Deployment, beside the registries of MCLoader.             *)
(***************************************************************************)
EXTENDS Deployment, MCLoader

\* An approved contract that the code generator cannot read.
Meaningless == [OrdersAgain EXCEPT !.generates = FALSE]

\* "orders" was corrected; the other contract and its file stay.
Correction == Registry(<<Entry("a", OrdersAgain), Entry("b", Window)>>, Files(OrdersAgain, Window, NoFile))

Unreadable == Registry(<<Entry("a", Meaningless)>>, Files(Meaningless, NoFile, NoFile))

\* A release that verifies and fails the tests.
Untested == Registry(<<Entry("b", Window)>>, Files(NoFile, Window, NoFile))

SomeReleases == {Published, Correction, Unreadable, Untested}
DeployedDocuments == SomeDocuments \cup {Meaningless}
DeployedRegistries == SomeRegistries \cup SomeReleases
TestedRegistries == DeployedRegistries \ {Untested}
\* The hypothesis of a theorem holds of these registries.
ASSUME ListingsDecide
=============================================================================
