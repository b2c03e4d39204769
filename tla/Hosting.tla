------------------------------ MODULE Hosting -------------------------------
(***************************************************************************)
(* The vocabulary of loom's pkg/hosting that loom-cloud is written in: the *)
(* hosting.Site and its lifecycle status.  The package lives outside this  *)
(* repository; the statuses are the options of the Site thread             *)
(* (apps/cloud/threads/site.yaml).                                         *)
(***************************************************************************)
CONSTANT Sites   \* rows of the Site table; the slug is unique, so also slugs

SiteStatus ==
  {"pending", "provisioning", "running", "failed", "deprovisioning", "stopped"}

=============================================================================
