--------------------------- MODULE MCInitDownload ---------------------------
(* InitDownload with two releases of different length. *)
EXTENDS InitDownload

MCReleases == {"old", "new"}
MCSize == [r \in MCReleases |-> IF r = "old" THEN 2 ELSE 3]
=============================================================================
