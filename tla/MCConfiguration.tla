----------------------------- MODULE MCConfiguration -----------------------------
(* The catalog of Configuration (control-center-web/catalog.json).           *)
EXTENDS Configuration

MCCatalog == [s \in Setting |->
  CASE s = "base_url"       -> {"loopback", "legacy", "remote"}
    [] s = "local_provider" -> {"true", "false"}
    [] s = "model"          -> {"whisper-1", "other"}]
MCDefault == [s \in Setting |->
  CASE s = "base_url" -> "loopback" [] s = "local_provider" -> "true" [] s = "model" -> "other"]

(* The profile of today, of older versions, and one that contradicts       *)
(* itself; and environments in which a profile is created that is as today,*)
(* remote or contradicts itself.                                           *)
Says(url, local, model) == [s \in Setting |->
  CASE s = "base_url" -> url [] s = "local_provider" -> local [] s = "model" -> model]
MCFiles ==
  {Says("loopback", "true", "other"), Says("legacy", "true", "whisper-1"),
   Says("remote", "true", "other")}
MCEnvironments ==
  {Says(Unset, Unset, Unset), Says("remote", Unset, "whisper-1"), Says("remote", "true", Unset)}
=============================================================================
