--------------------------- MODULE ArtifactLedger ---------------------------
(***************************************************************************)
(* What publishing, updating and deleting promise: each is one step on the *)
(* tables that checks every quota against the tables it writes, and an     *)
(* update adds exactly the next version of the artifact.                   *)
(***************************************************************************)
EXTENDS ArtifactTables

ledger == <<artifact, rows, fresh>>

Fits(c, s) == s <= MaxBytesPerArtifact /\ StoredBytes(c) + s <= MaxTotalBytesPerConnection

Publish(c, s) == /\ Cardinality(Owned(c)) < MaxArtifactsPerConnection
                 /\ Fits(c, s)
                 /\ \E a \in fresh : Insert(a, c, s)

Update(a, s) == /\ a \in Live
                /\ Fits(artifact[a].owner, s)
                /\ AddVersion(a, artifact[a].version + 1, s, s)

Delete(a) == a \in Live /\ Remove(a)

\* Superseded versions may go; the current one stays browsable.
Trim(a) == /\ a \in Live
           /\ \E gone \in SUBSET (VersionsOf(a) \ {artifact[a].version}) :
                rows' = [rows EXCEPT ![a] = {v \in @ : v.version \notin gone}]
           /\ UNCHANGED <<artifact, fresh>>

LedgerNext == \/ \E c \in Connections, s \in Sizes : Publish(c, s)
              \/ \E a \in Artifacts, s \in Sizes : Update(a, s)
              \/ \E a \in Artifacts : Delete(a) \/ Trim(a)

LedgerSpec == NoArtifacts /\ [][LedgerNext]_ledger

=============================================================================
