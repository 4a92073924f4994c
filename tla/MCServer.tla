------------------------------ MODULE MCServer ------------------------------
(* The instance TLC checks of an installation: two releases of which the older  *)
(* knows seven revisions, a browser and an API client.                        *)
EXTENDS Server

MCReleases == {7, Latest}
=============================================================================
