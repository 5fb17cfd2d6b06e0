----------------------------- MODULE ArtifactRows -----------------------------
(***************************************************************************)
(* The rows of the knowledge API and what its handlers compute from them:  *)
(* who may do what with an artifact (knowledge_policy), the rows a create  *)
(* and a version request insert, and what the listing and the body         *)
(* endpoints answer.  An actor is [id, groups, company], "" for the header *)
(* that is not sent; a request is [aid, vid, by, visibility, owners,       *)
(* groups, scopes, ref, body, given]: ref is the place in the object store *)
(* that the client names (body_ref), given whether it sends the text.      *)
(***************************************************************************)
EXTENDS Naturals, FiniteSets

Mutations == {"edit", "publish", "reclassify"}

CanAccess(actor, artifact, action) ==
    LET owner == actor.id \in artifact.owners
        member == actor.groups \cap artifact.groups # {}
    IN \/ /\ action \in Mutations
          /\ owner \/ (member /\ artifact.visibility # "private")
       \/ /\ action = "view"
          /\ \/ artifact.visibility = "team"
             \/ artifact.visibility \in {"private", "restricted"} /\ owner
             \/ artifact.visibility \in {"project", "restricted"} /\ member

\* Only the reading endpoints look at the company of the request.
InCompany(actor, artifact) == actor.company = "" \/ actor.company \in artifact.scopes

\* The endpoint adds the author to the owners, unless the author is the caller.
Owners(caller, req) == req.owners \cup ({req.by} \ {caller.id})

NewArtifact(caller, req) ==
    [status |-> "draft", visibility |-> req.visibility, owners |-> Owners(caller, req),
     groups |-> req.groups, scopes |-> req.scopes, current |-> req.vid, supersedes |-> ""]

\* Mutant: the number of a version is the count of those before it.
NewVersionCounted(req, number) ==
    [vid |-> req.vid, aid |-> req.aid, ref |-> req.ref, number |-> number - 1]
NewVersion(req, number) ==
    [vid |-> req.vid, aid |-> req.aid, ref |-> req.ref, number |-> number]

VersionsOf(versions, aid) == {v \in versions : v.aid = aid}

----------------------------------------------------------------------------
(* Reading. *)

\* get_artifact answers 404 for an artifact without a current version.
Found(artifacts, versions, aid) ==
    /\ aid \in DOMAIN artifacts
    /\ \E v \in versions : v.vid = artifacts[aid].current

Matches(artifact, filter) == \A f \in DOMAIN filter : artifact[f] = filter[f]

\* The listing drops what the filter excludes and what get would forbid.
Listed(artifacts, actor, filter) ==
    {aid \in DOMAIN artifacts : /\ Matches(artifacts[aid], filter)
                                /\ InCompany(actor, artifacts[aid])
                                /\ CanAccess(actor, artifacts[aid], "view")}

\* The version endpoints: a version is an artifact's by its artifact_id.
Versions(artifacts, versions, actor, aid) ==
    IF /\ Found(artifacts, versions, aid)
       /\ CanAccess(actor, artifacts[aid], "view")
       /\ InCompany(actor, artifacts[aid])
    THEN VersionsOf(versions, aid) ELSE {}

\* The answer of the body endpoints; asked holds the version id, {} for the endpoint without.
BodyAnswer(artifacts, versions, bodies, actor, aid, asked) ==
    LET wanted == IF asked = {} THEN {artifacts[aid].current} ELSE asked
        rows == {v \in VersionsOf(versions, aid) : v.vid \in wanted}
    IN IF ~Found(artifacts, versions, aid) THEN "404"
       ELSE IF ~CanAccess(actor, artifacts[aid], "view") \/ ~InCompany(actor, artifacts[aid])
            THEN "403"
       ELSE IF rows = {} THEN "404"
       ELSE IF \E v \in rows : v.ref \in DOMAIN bodies THEN "200" ELSE "500"

=============================================================================
