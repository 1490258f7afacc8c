------------------------------ MODULE MCIngest ------------------------------
(***************************************************************************)
(* Ingest with an operator's manifest, an instrument's manifest that       *)
(* supersedes it, one that does not match its archive, one that breaks the *)
(* contract, and manifests of archives that SafeUnpack has to stop at: a   *)
(* symbolic link, a path that climbs, a repeated path, a file below a file *)
(* and a second file after the total is used up.                           *)
(***************************************************************************)
EXTENDS Ingest

CONSTANT go1

MCDigest == {"x", "y", "z", "plain", "probe", "linked", "climbing", "repeated",
             "nested", "bulky"}

File1(path, size, sha) ==
  [abs |-> FALSE, path |-> path, type |-> "file", size |-> size, sha |-> sha]

Other(type, path) == [File1(path, 0, "") EXCEPT !.type = type]

MCEntries ==
  [plain    |-> <<File1(<<"notes">>, 1, "x"), File1(<<"iv">>, 1, "y")>>,
   probe    |-> <<Other("dir", <<".">>), File1(<<"iv">>, 1, "y"), File1(<<"params">>, 1, "z")>>,
   linked   |-> <<File1(<<"iv">>, 1, "y"), Other("symlink", <<"notes">>)>>,
   climbing |-> <<File1(<<"iv">>, 1, "y"), File1(<<"..", "iv">>, 1, "x")>>,
   repeated |-> <<File1(<<"iv">>, 1, "y"), File1(<<".", "iv">>, 1, "x")>>,
   nested   |-> <<File1(<<"iv">>, 1, "y"), File1(<<"iv", "notes">>, 1, "x")>>,
   bulky    |-> <<File1(<<"iv">>, 3, "y"), File1(<<"notes">>, 3, "x"),
                  File1(<<"params">>, 1, "z")>>,
   damaged  |-> <<>>]

Declared(name, size, sha) == [name |-> <<name>>, bytes |-> size, sha |-> sha]

\* An operator's manifest: no instrument file.
Plain ==
  [schema |-> 1, run |-> "run", source |-> "operator", declaredBy |-> "alice",
   agent |-> "pc", measurement |-> "iv", declaredAt |-> "past", absolute |-> TRUE,
   files |-> <<Declared("notes", 1, "x"), Declared("iv", 1, "y")>>,
   instrument |-> <<>>, packed |-> "run.tar", archive |-> "plain",
   labels |-> <<>>, params |-> <<>>,
   sample |-> "s", device |-> "d"]

\* An instrument's: it supersedes the operator's and names no device.
Probe ==
  [Plain EXCEPT !.source = "instrument", !.archive = "probe", !.device = "",
                !.files = <<Declared("iv", 1, "y"), Declared("params", 1, "z")>>,
                !.instrument = <<"params">>]

MCBody ==
  [operator   |-> Plain,
   instrument |-> Probe,
   mismatched |-> [Probe EXCEPT !.archive = "plain"],
   unlisted   |-> [Probe EXCEPT !.instrument = <<"notes">>],
   linked     |-> [Plain EXCEPT !.archive = "linked"],
   climbing   |-> [Plain EXCEPT !.archive = "climbing"],
   repeated   |-> [Plain EXCEPT !.archive = "repeated"],
   nested     |-> [Plain EXCEPT !.archive = "nested"],
   bulky      |-> [Plain EXCEPT !.archive = "bulky"]]

MCManifest == DOMAIN MCBody
=============================================================================
