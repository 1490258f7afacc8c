-------------------------- MODULE ManifestContract --------------------------
(***************************************************************************)
(* The manifest contract, internal/manifest/manifest.go: which manifests   *)
(* a POST may declare a run with.                                          *)
(*                                                                         *)
(* A manifest is a record of the fields ValidateAt looks at.  An absent    *)
(* string is "", a file name is the sequence of its path elements (<<>>    *)
(* when empty), declared_at is "never" (the zero time), "past", "soon" or  *)
(* "ahead", by more than 24 hours; archive is the digest, packed the name. *)
(***************************************************************************)
EXTENDS Integers, Sequences, SequencesExt

CONSTANTS
  RunId,   \* the strings that match runIDRe
  Digest   \* the strings that match sha256Re

SchemaVersion == 1

\* Empty, with a separator, or a reference to a directory.
Unsound(name) == Len(name) # 1 \/ name \in {<<".">>, <<"..">>}

NamesOf(m) == [i \in DOMAIN m.files |-> m.files[i].name]

\* Mutant: whether the instrument's file is listed is not looked at.
UnlistedIgnored(m) == FALSE

Unlisted(m) == m.instrument # <<>> /\ m.instrument \notin ToSet(NamesOf(m))

\* ValidateAt collects every problem: the fields that have one.
FieldErrors(m) ==
  LET wrong ==
        [schema_version    |-> m.schema # SchemaVersion,
         run_id            |-> m.run \notin RunId,
         completion_source |-> m.source \notin {"instrument", "operator"},
         declared_by       |-> m.declaredBy = "",
         agent_id          |-> m.agent = "",
         measurement_type  |-> m.measurement = "",
         declared_at       |-> m.declaredAt \in {"never", "ahead"},
         meas_path         |-> ~m.absolute,
         files             |-> \/ m.files = <<>>
                               \/ ~IsInjective(NamesOf(m))
                               \/ \E file \in ToSet(m.files) :
                                    \/ Unsound(file.name)
                                    \/ file.bytes < 0
                                    \/ file.sha \notin Digest,
         instrument_json   |-> Unlisted(m),
         archive           |-> m.packed = "" \/ m.archive \notin Digest,
         condition_labels  |-> "" \in ToSet(m.labels),
         param_versions    |-> \E version \in ToSet(m.params) : version < 1]
  IN  {field \in DOMAIN wrong : wrong[field]}

ValidateAt(m) == FieldErrors(m) = {}
=============================================================================
