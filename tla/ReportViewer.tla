----------------------------- MODULE ReportViewer -----------------------------
(***************************************************************************)
(* The hosted viewer's side of a published report: GET /api/simulation-    *)
(* results (frontend/src/app/api/simulation-results/route.ts), as the      *)
(* page's hook asks it, with the artifact of a canonical link or with the  *)
(* publish id of a pretty one.  It fetches the artifact and the publish    *)
(* metadata beside it and judges whether they belong together.             *)
(***************************************************************************)
EXTENDS FiniteSets

CONSTANTS
  Nothing,            \* a file that could not be fetched or read
  RelaySigns,         \* SEATBELT_PUBLISH_ED25519_PRIVATE_KEY is set
  ViewerVerifies      \* SEATBELT_PUBLISH_ED25519_PUBLIC_KEY is set

\* buildRelayPublishLogEntry: what publish-metadata.json says.
Metadata(id, raw) ==
  [publish_id |-> id, artifact_hash |-> raw, signed |-> RelaySigns]

\* verifyPublishMetadataSignature on metadata that the relay wrote.
Authenticity(m) ==
  IF m = Nothing \/ ~m.signed THEN "unsigned"
  ELSE IF ViewerVerifies THEN "verified" ELSE "unconfigured"

\* attachPublishMetadata with mergeTrustMetadata: the level that the reasons
\* found for a lookup record, its metadata and the fetched artifact give.
Trust(lookup, m, fetched) ==
  LET blocking == \/ fetched # lookup.hash
                  \/ m # Nothing /\ m.publish_id # lookup.id
                  \/ m # Nothing /\ m.artifact_hash # lookup.hash
      warning == Authenticity(m) # "verified"
  IN IF blocking THEN "blocked" ELSE IF warning THEN "warning" ELSE "ready"

Page(raw, trust) == [shown |-> raw, trust |-> trust]
Failed == Page(Nothing, "none")

\* With ?publishId=: the relay's record says where the files are and which
\* hash they have.
ByPublishId(lookup, fetched, m) ==
  IF lookup = Nothing \/ fetched = Nothing THEN Failed
  ELSE Page(fetched, Trust(lookup, m, fetched))

\* With ?artifact=: the record is made of the metadata beside the artifact;
\* without metadata the report keeps the trust it was published with.
ByArtifact(fetched, m) ==
  IF fetched = Nothing THEN Failed
  ELSE IF m = Nothing THEN Page(fetched, "none")
  ELSE Page(fetched, Trust([id |-> m.publish_id, hash |-> m.artifact_hash],
                           m, fetched))
=============================================================================
