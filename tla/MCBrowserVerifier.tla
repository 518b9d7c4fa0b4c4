-------------------------- MODULE MCBrowserVerifier --------------------------
(* Two atlases, one of them cut, and a text the verifier rejects.  *)
EXTENDS BrowserVerifier

MCVerdictOf ==
  [s \in Sources |->
     CASE s = "atlas"    -> Result("verified", "derived-atlas-v1")
       [] s = "cut"      -> Result("verified-cut", "derived-atlas-v1")
       [] s = "census"   -> Result("verified", "other")
       [] s = "nonsense" -> Result("rejected", "none")]

=============================================================================
