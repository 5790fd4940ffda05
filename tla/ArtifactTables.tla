--------------------------- MODULE ArtifactTables ---------------------------
(***************************************************************************)
(* The artifacts and artifact_versions tables of models.py and the queries *)
(* that quotas.py and tools.py run over them.  ArtifactLedger says what    *)
(* the calls promise of these tables; ArtifactStore models the calls.      *)
(***************************************************************************)
EXTENDS Integers, FiniteSets, FiniteSetsExt

CONSTANTS
    Connections,
    Artifacts,                   \* the pool uuid4 draws from
    Sizes,                       \* byte_size of what a call stores
    MaxArtifactsPerConnection,   \* the four limits of config.py
    MaxBytesPerArtifact,
    MaxTotalBytesPerConnection,
    MaxVersionsPerArtifact,
    None

ASSUME PoolAssumption   == IsFiniteSet(Artifacts)
ASSUME SizesAssumption  == Sizes \subseteq Nat
ASSUME LimitsAssumption ==
    /\ MaxArtifactsPerConnection \in Nat /\ MaxBytesPerArtifact \in Nat
    /\ MaxTotalBytesPerConnection \in Nat /\ MaxVersionsPerArtifact \in Nat \ {0}
ASSUME NoRowAssumption  == None \notin [owner : Connections, version : Nat, size : Nat]

VARIABLES
    artifact,   \* the artifacts table: id -> row, or None
    rows,       \* the artifact_versions table, by artifact
    fresh       \* ids uuid4 has not produced yet

Row        == [owner : Connections, version : Nat, size : Nat]
VersionRow == [version : Nat, size : Nat]

TablesOK == /\ artifact \in [Artifacts -> Row \cup {None}]
            /\ rows \in [Artifacts -> SUBSET VersionRow]
            /\ fresh \subseteq Artifacts

Live        == {a \in Artifacts : artifact[a] # None}
Owned(c)    == {a \in Live : artifact[a].owner = c}
BytesOf(a)  == MapThenSumSet(LAMBDA v : v.size, rows[a])
StoredBytes(c) == MapThenSumSet(BytesOf, Owned(c))
VersionsOf(a)  == {v.version : v \in rows[a]}

\* Mutated forms of the definition that follows each: what a plausible slip in the
\* code would make of it.
RetainedOffByOne(stored) ==
    {v \in stored : Cardinality({w \in stored : w.version > v.version}) <= MaxVersionsPerArtifact}
RetainedOldest(stored) ==
    {v \in stored : Cardinality({w \in stored : w.version < v.version}) < MaxVersionsPerArtifact}

\* Retention keeps the highest MaxVersionsPerArtifact version numbers.
Retained(stored) ==
    {v \in stored : Cardinality({w \in stored : w.version > v.version}) < MaxVersionsPerArtifact}

NoArtifacts == /\ artifact = [a \in Artifacts |-> None]
               /\ rows = [a \in Artifacts |-> {}]
               /\ fresh = Artifacts

\* The three writes: a new artifact with its first version, a new version of an
\* artifact with retention, and an artifact deleted with its versions.
Insert(a, c, s) ==
    /\ artifact' = [artifact EXCEPT ![a] = [owner |-> c, version |-> 1, size |-> s]]
    /\ rows' = [rows EXCEPT ![a] = {[version |-> 1, size |-> s]}]
    /\ fresh' = fresh \ {a}

AddVersionDelta(a, v, stored, current) ==
    /\ artifact' = [artifact EXCEPT ![a].version = v, ![a].size = current - @]
    /\ rows' = [rows EXCEPT ![a] = Retained(@ \cup {[version |-> v, size |-> stored]})]
    /\ UNCHANGED fresh

AddVersion(a, v, stored, current) ==
    /\ artifact' = [artifact EXCEPT ![a].version = v, ![a].size = current]
    /\ rows' = [rows EXCEPT ![a] = Retained(@ \cup {[version |-> v, size |-> stored]})]
    /\ UNCHANGED fresh

RemoveWithoutCascade(a) ==
    /\ artifact' = [artifact EXCEPT ![a] = None]
    /\ UNCHANGED <<rows, fresh>>

Remove(a) ==
    /\ artifact' = [artifact EXCEPT ![a] = None]
    /\ rows' = [rows EXCEPT ![a] = {}]
    /\ UNCHANGED fresh

=============================================================================
